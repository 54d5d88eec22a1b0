# gitoxide-fs in TLA+

Specifications, model-checking runs and proofs for gitoxide-fs (`gofs`), a FUSE
filesystem that keeps a directory in a git repository: file operations write to
the working tree of the repository and are turned into commits. Line numbers
refer to `src/src/*.rs` at the commit these modules were written from.

To run everything: `tlc -config <run>.cfg <Module>` for each entry of `runs` in
PROJECT.json, `tlapm <Module>Proofs.tla` for each proof module.

## 1. The system

| Component | Source | State | Operations |
|---|---|---|---|
| Commit pipeline | git.rs 388-421, 1106-1625 | repo mutex, `commit_in_progress`, object store, branch ref | `commit`, `commit_incremental`, the two tree builders, `write_commit_inner`, `update_head_to` |
| File operations and auto-commit | git.rs 563-1035 | working tree, `dirty_files` | `write_file`, `delete_file`, `rename`, `truncate`, directories, links, `flush_pending_auto_commit` |
| Blob store | blobstore.rs, git.rs 469-542 | content-addressed files outside the repository, pointer files in it | `store_bytes`, `read`, `delete`, cleanup after delete and overwrite |
| Ignore rules | git.rs 1831-1928, 2200-2242 | none (patterns, `.gitignore`) | `is_ignored`, glob match |
| Branches and refs | git.rs 1930-2176 | refs, HEAD | create, checkout, delete, merge commit |
| Extended attributes | git.rs 1037-1101 | map keyed by path | set, get, list, remove |
| ForkManager | fork.rs | map of forks behind an RwLock, `forks.json` | create (at HEAD, at a commit, nested), merge (four strategies), abandon, list, load, persist |
| FUSE handler | fs.rs 33-1040 | inode table, handle table, its own dirty set | one handler per FUSE request, `maybe_commit`, `mark_dirty`, `destroy` |
| Mount registry and shutdown | fs.rs 33-40, 1144-1271, main.rs 228-357 | the process's map of mount points to repositories; sessions, each with a thread of its own | `mount`, `mount_with_options`, `unmount`, `gofs mount` with Ctrl+C |
| Checkpoint and rollback | fs.rs 1325-1370 | the repository | `checkpoint`, `rollback` |
| Health server | health.rs | shutdown flag, listener thread | start, serve, shutdown, drop |
| Configuration, errors, CLI | config.rs, error.rs, main.rs | none | parsing, validation, errno table, printing |

**Interactions.** The kernel sends FUSE requests one at a time to the handler
(`&mut self`), which calls the backend on the same thread and keeps two more
structures of its own: the inode table and a second dirty set. The backend has
interior locks (`Arc<Mutex<Repository>>`, `Mutex<Vec<PathBuf>>`, an
`AtomicBool`) because it is shared: by the threads of a library user (the
concurrency tests) and, through the repository on disk, by other processes
(`gofs checkpoint`, `gofs fork ...`, plain `git`). ForkManager calls the
backend's branch and commit operations and writes `.gitoxide-fs/forks.json`,
which lies in the working tree and is committed and merged like a user's file. The
registry of a process says which repository is mounted where; it is a copy of the
kernel's mount table kept by hand. The sessions themselves are forgotten
(`mem::forget`, fs.rs:1181), so nothing waits for their threads: an unmount takes
the mount away, and some time later the thread of the session notices and runs
`destroy`, which flushes what is pending. The health server shares nothing with a
mount but the process and the mount point's path.

**What is hard.**

- *Two-step file writes.* `std::fs::write` truncates and then writes. The
  backend uses it for user files, for the branch ref, for `forks.json` and for
  blobs, so concurrent readers and crashes can see the empty state.
- *The tree builder writes.* `build_tree_from_workdir` (1177) and
  `build_entry_from_workdir` (1431) write the bytes they read back to the file.
- *Flag without lock.* `write_file` reads `commit_in_progress` without the
  repo mutex (648) and skips the dirty list when it is set.
- *Ref update outside the mutex.* `commit` and `commit_incremental` drop the
  repo mutex before `update_head_to` (1499-1500, 1564-1565).
- *Incremental trees.* Entries of the parent's tree are reused for every path
  that is not listed dirty, so the listing must be complete.
- *Path-keyed tables.* Inodes, handles and attributes are keyed by path, while
  rename and unlink move paths under open files.
- *Check, act, persist in separate steps* in ForkManager, the mount registry
  and the blob store.
- *Records in the data.* `forks.json` takes part in commits, merges and
  rollbacks; pointers to blobs do too, while the blobs do not.

**What makes each component correct.**

- Commit pipeline: history has no cycle or dangling link; the mutex and the
  flag are released on every path; no acknowledged commit drops out of history;
  the working tree is not changed by committing it.
- File operations: each acknowledged write is in HEAD or will be committed by
  the next flush; ignored files are in no commit.
- FUSE handler: when its dirty set is empty HEAD equals the working tree;
  nothing is left pending after `destroy`; a live inode leads to its path.
- ForkManager: memory and `forks.json` agree when nobody is in an operation and no
  commit has written the file over the last save; a fork is merged at most once; a
  merge keeps what either side alone changed, but for the parent's deletions.
- Blob store: a file reads back as written whoever else let go of the same
  bytes; a blob that nothing points to is deleted, one that is pointed to is not.
- Mount registry: every mount has its entry and every entry its mount; unmount
  loses no write; Ctrl+C ends the process. That a repository is mounted once the
  code does not achieve (section 4).
- Health server: it stops when told to, and is not ready for whoever asks later.
- Ignore rules: the last line that matches decides, and patterns match what the
  comments say they match.

The complete list of hazards, each with its line and the property that covers
it, is `hazards` in PROJECT.json.

## 2. The modules

```
CommitHistory   LinearHistory              abstract: git's object store; one line of commits
        \          /
       CommitProtocol                      threads and processes on one repository, step by step
        |          \
 CommitProtocolProofs  MCCommitProtocol

TreeBuild                                  what the two tree builders return (pure)
   |
BackendOps                                 the backend's operations, one step each
   |      \------------ BackendOpsProofs (the builders, the disk)
   |----- BackendTree                      GitBackend with one caller
   |         |
   |         TreeDescent -- MCBackendTree  the builders as recursive descents
   |                  \- BackendTreeProofs
   |
   \-- FuseHandler (with InodeTable)       a mounted filesystem
             |    \---- FuseHandlerProofs
             MCFuseHandler

IgnoreRules                                which paths are ignored (pure)
   |----- MCBackendTree                    takes its ignored paths from there
   \----- IgnoreQuestions -- MCFuseHandler the rules against what they should amount to
                    \--- IgnoreProofs

ThreeWayMerge                              the merge of one entry and of a tree (pure)
   |
ForkManager -- ForkFates                   forks, branches, merges and forks.json; what users rely on
   |      \------------ ForkManagerProofs
MCForkManager

BlobStore                                  large files: pointers, blobs, clean-up, rollback
   |      \------------ BlobStoreProofs
MCBlobStore

MountRegistry   HealthServer               mounts and processes; the server's thread and handle
        \          /
       MountLifecycle                      both in one process
        |          \
 MountLifecycleProofs  MCMountLifecycle
```

Two views of the backend complement each other. `CommitProtocol` has a flat
directory and many callers, and cuts every operation into the steps between
which another thread, another process, an I/O error or a crash can come.
`BackendOps` has directories, hard links and `.gitkeep` files and takes each
operation as one step. The second view is justified for one caller by the code:
the FUSE session calls the handler with `&mut self`, one request after the
other, and the handler calls the backend on its own thread. `ForkManager` and
`BlobStore` are about what `CommitProtocol` leaves out, the one the records in
`forks.json`, the other the blobs. Both take the builder's part of a commit step by
step, since it writes to what they are about.

### CommitProtocol (git.rs 388-421, 568-733, 813-879, 1106-1575)

| In the model | In the code |
|---|---|
| `dirent`, `data` | the working tree: names to inodes, inodes to content |
| `dirty[b]`, `inProgress[b]`, `repoLock[b]` | `dirty_files`, `commit_in_progress`, the `repo` mutex of the `GitBackend` of process `b` |
| `commits`, `ref` | commit objects in the order written, the branch file HEAD points to; 0 is a missing or empty ref |
| `pc`, `io`, `job` | where a thread is, the `fs::write` it is in, the commit it makes |
| `BeginWrite`, `EndWrite` | the two halves of `write_file`'s `std::fs::write` (open with truncation, write) |
| `CheckFlag`, `MarkDirty` | the unlocked test of the flag (648) and the locked block behind it (649-672) |
| `DeleteFile`, `Rename`, `Flush`, `Commit` | `delete_file`, `rename`, `flush_pending_auto_commit`, the start of `commit` |
| `AcquireRepo`, `StartBuild` | `repo.lock()`, setting the flag |
| `VisitEntry`, `OpenWriteBack`, `FillWriteBack` | one directory entry of a tree builder and the write-back of the bytes it read |
| `FinishBuild`, `WriteCommit` | clearing the flag, `write_commit_inner` and `drop(repo)` |
| `TruncateRef`, `FillRef` | the two halves of the ref's `fs::write` in `update_head_to` |
| `WriteFails` ... `RefWriteFails` | the error returns, each with what the code has and has not undone by then |
| `Crash(b)` | process `b` dies and is restarted: memory lost, files kept as they are |

`intent`, `written` and `acked` are history variables; nothing reads them but
the properties. An inode is a variable of its own because the second half of an
`fs::write` goes to the inode the first half opened, also after an unlink or a
rename.

### TreeBuild, TreeDescent (git.rs 1106-1440)

`Full` and `Incremental` give the tree that `build_tree_from_workdir` and
`build_tree_incremental` return, in closed form: the entry of a path comes from
the previous tree exactly when the descent stops, at it or above it, at a name
that is on the way to no dirty path and has the same kind before and now.
`skipped` are the files the builder leaves out without telling anybody, because
they cannot be read or cannot be written back (git.rs:1172-1179, 1431-1433).
`TreeDescent` writes the builders as the code does, one call per directory, as
functions of the directory that refer to themselves; the invariant `DescentAgrees`
compares the two in every reachable state and for every set of dirty paths. The
other modules use the closed form, which says at once what becomes of a path.

### BackendOps, BackendTree (git.rs 568-1035)

`node` maps a path to a file (an identity, so that hard links share content), a
directory or nothing; `kept` is the set of directories with a `.gitkeep`, which
`create_dir` writes and which makes `rename` onto that directory fail; `readonly`
is the set of files whose mode denies writing (`set_permissions`), so that the
builders skip them (`Unwritable`) and `write_file` fails on them; the process is
taken not to be root. `head` is the tree of the commit HEAD names, or `NoTree`;
`pending` is `dirty_files`. `CanX` is when an operation succeeds, `XDisk` what it
leaves on disk, `HeadAfterWrite` and `HeadAfterFlush` the commits. A `rename` that
fails has made the parents of its target by then (810-812): `RenameFails`, of which a
directory moved into itself is the case that paths and kinds decide. The other
operations check before they change anything and leave nothing behind when they fail.

### InodeTable, FuseHandler (fs.rs 33-1040)

`InodeTable` has one operator per method of the struct. `FuseHandler` has one
action per request: the table's part, the backend's operation, `mark_dirty` or
`maybe_commit`, in the order of the handler. `dirty` is the handler's own set,
`handles` its open files with the path each was opened with. `Chmod` is the mode
part of `setattr` (356-371). A commit can succeed, can fail and leave HEAD as it was,
or can fail between the two halves of the ref's `fs::write` (git.rs:419), which leaves
a repository without history (`CommitResults`). `WriteFileFails` is
a write whose auto-commit fails (the bytes are on disk, the handler returns the
error before it marks the path). `Destroy` is an unmount, `Crash` the death of
the process, perhaps in the middle of a commit, `Mount` the next mount with empty
tables. `missed` is a history variable: the paths whose last change the code did not
mark (the source of a rename, what lay below it, other names of a hard-linked file)
or whose commit failed; a full commit empties it.

### ThreeWayMerge, ForkManager (fork.rs 118-832, git.rs 1930-2146)

`MergedEntry` is what `three_way_merge` leaves at a path, from what the fork
point, the parent branch and the fork hold there; the code walks the union of the
three trees and treats each path by itself, so `Merged` is a function of paths.

| In the model | In the code |
|---|---|
| `forks[m]` | the map behind the RwLock of the `ForkManager` of process `m` |
| `work`, `commits`, `branches`, `headBranch` | the working tree with `forks.json` in it, commit objects, branch refs, the branch HEAD names |
| `CreateFork` ... `Insert` | `create_fork`: HEAD's branch, the fork point (178), the test of the name (183), the branch (git.rs:2045-2073), the record (194-216) |
| `CreateForkAt`, `CreateNestedFork` | the same from a given id and from a fork's tip. The id is forty digits that nobody looks up (git.rs:2061-2073): `Dangling` stands for one that no commit has |
| `MergeFork`, `ReadOurs`, `ReadTheirs`, `MergeTrees` | the test of `merged` (411), the two tips, `three_way_merge`, which ends in an error when one of the three commits does not exist |
| `CheckoutParent`, `Apply`, `MergeCommit`, `Mark` | checkout (460), the writes and removals (462-480), `create_merge_commit` (485), the record (490-497) |
| `ReadFile`, `OpenWriteBack`, `FillWriteBack`, `WriteCommit`, `MoveHead` | the builder of a commit or a merge commit, file by file with its write-back (git.rs:1170-1206), `forks.json` included; the commit object; the ref |
| `AbandonFork`, `DeleteBranch`, `Remove` | `abandon_fork` |
| `Persist`, `Store` | `persist`: serialise and truncate, then fill, under the read lock; `CanLock` is what that lock keeps others from |
| `Restart` | a new process: `load_from_disk`; a crash when it comes within a call |
| `Checkout`, `Edit`, `Commit` | what callers do with the backend in between |

`checkout_branch` only moves HEAD and leaves the working tree as it is
(git.rs:2018-2026), which is why a merge commits leftovers. Two history variables:
`landed`, how often a merge of each fork was reported as done, and `rewritten`, whether
a commit or a merge has written `forks.json` since the last save of the map began.
Two writers of one file leave a mixture (`Torn`), which does not parse. The order of
a HashMap's entries in `forks.json` is abstracted: equal maps give equal text.

### BlobStore (blobstore.rs, git.rs 469-542, 568-720, fs.rs 1337-1370)

| In the model | In the code |
|---|---|
| `work` | the working tree: a small content, a large one that is not a pointer yet, or `Pointer(c)` |
| `blobs[c]` | the file of that hash in the store: none, partial (between the two halves of `fs::write`) or whole |
| `WriteFile`, `FindBlob`, `CreateBlob`, `FillBlob` | the pointer read first (610-622), `store_bytes` with its test for existence (95) and its two-step write |
| `OpenFile`, `FillFile` | the two halves of `fs::write` of the user's file, then the test whether to look after the old blob (639-644) |
| `DeleteFile`, `RemoveFile`, `Rename` | `delete_file`, `rename`, which looks after nothing |
| `Scan`, `DeleteBlob` | `repo_references_blob`, one file at a time in any order; `delete_blob` |
| `Commit`, `ReadFile`, `OpenWriteBack`, `FillWriteBack`, `WriteCommit` | `commit` by the thread that has the mutex: each file is read, stored if it is large (`FindBlob` ... `FillBlob` again), written back, and taken into the tree (git.rs:1170-1206) |
| `Rollback` | `git reset --hard` with `git clean -fd` |
| `FillFails`, `WriteBackFails`, `Crash` | a failing `fs::write`: of a blob or a user's file (the call or the commit fails), of the write-back (the file is left out and the commit goes on); the death of the process |

Each caller works on files of its own (`Owner`), the committer on all of them; what
the callers share is the store and the blobs of bytes that both have. Whoever fills a
blob which is deleted under it fills a file without a name (`linked`). The committer
has a file open from `OpenWriteBack` to `FillWriteBack`; `target` is the name that
file has by now, for its owner may move or remove it. Four history variables say what
is promised: `expected` (what a file should read back as), `raced` (the file in the
committer's hand was changed since it was read, or searched while it was truncated),
`torn` (contents whose blob a fault left incomplete) and `leaked` (blobs the code has
stopped looking after: a rename over a pointer, a rollback, a fault, a write-back over
a pointer, or one that put a pointer behind the back of a call). They are what the
properties except, by name.

### MountRegistry, HealthServer, MountLifecycle (fs.rs 33-40, 1144-1271, main.rs 228-357, health.rs 26-163)

| In the model | In the code |
|---|---|
| `registry[p]` | `active_mounts` of process `p`: mount points to repositories |
| `session[m]` | the m-th session: whether its thread runs (`serving`), whether the kernel lists the mount (`listed`), its options, and whether its handler or backend has something uncommitted (`pending`) |
| `pc`, `job` | where a caller of `mount` or `unmount` is, for which repository and point |
| `CheckRegistry`, `Spawn`, `Register` | `mount` and `mount_with_options`: the check under the lock (1150-1158), `spawn_mount2` (1170), the entry under the lock (1174-1177) |
| `Unmount`, `RemoveEntry` | `unmount`: fusermount (1235-1248), then the entry (1250-1263) |
| `SpawnFails`, `UnmountFails` | the errors, which make the command exit (main.rs:228-241) or carry on to its exit (346-349) |
| `LeaveMounted`, `Park`, `Interrupt`, `Exit` | the command after `mount`: it returns at once with `--daemon` (or if the health server cannot start), or parks; Ctrl+C; `process::exit(0)` |
| `Write`, `Commit`, `Destroy` | what the session's thread does that matters here, `destroy` being its last act |
| `AutoUnmount`, `Crash`, `Start` | fusermount's helper for the AutoUnmount option, the end of a process, the next one |
| `loop`, `stop`, `handle` | where `serve_loop` is, the shutdown flag, the `HealthServer` value |
| `Receive`, `Decide`, `Respond` | `recv_timeout`, the value of `ready` (124), the answer |
| `Shutdown`, `Join`, `Drop` | the two ways to end the server |

The kernel's mount table is external: mounts at one point lie on top of each
other, fusermount takes the top one, a mount whose process is gone answers every
access with an error. `disturbed` is a history variable: the mounts for which the
code lets its copy of that table slip, because a later mount hides them, because
somebody unmounted them whom the process does not hear of, or because they
were spawned while another call was about to change the entry of their point. The
properties except them by name, and nothing else. Two calls that pass the check for
one repository together both mount it, at two points; these mounts are not excepted. `lost` records the mounts whose process exited before their
`destroy` was done. In the server `request` is one client's request, sent before
or after the flag was set. The flag is read with `Relaxed` ordering; a client that
asks after `shutdown` was called does so over a socket, and the model takes the
store to be visible by then.

### IgnoreRules, IgnoreQuestions (git.rs 1839-1928, 2205-2242)

Paths and patterns are sequences of one-letter strings. `Glob` is `do_glob` as a
recursive function that gives, for each rest of the pattern, the rests of the text
it matches; `ConfigMatch` and
`LineMatches` are the tests for one pattern of the configuration and for one line
of `.gitignore`, `IgnoredByLines` the fold over the lines. `IgnoreQuestions` has no
steps: each pattern or list of lines with a path is an initial state, and its
invariants compare the rules with definitions that are written from the comments.
`MCFuseHandler` puts these states beside those of the handler, and it and
`MCBackendTree` take `Ignored` from a `.gitignore` with a negated directory line.

## 3. Runs

All runs together take about fifteen minutes with two workers.

| Run | Question | Bounds |
|---|---|---|
| `commit_serial` | with one caller, is everything as promised? | 1 thread, files f, g and an ignored h, two contents, batch of 2, 5 calls |
| `commit_shared` | what holds with threads, errors and crashes? | 2 threads of one process, a file each, no debounce, 3 calls, 1 fault |
| `commit_data_integrity` | does a commit leave files alone? (violated) | 2 threads, debounce |
| `backend_tree` | are the incremental commits right at depth? | d, e, d/a, e/a and d/a/b (e/a ignored), two files, two contents, read-only files, failing renames, batch of 2 (224,419 states) |
| `backend_deletions` | do commits drop deleted files? (violated) | the same |
| `fuse_handler` | do the handler's set and the backend's list together miss nothing? | d, d/a and an ignored e, two files, two contents, read-only files, batch of 2, 3 inode numbers, 1 handle, commits that fail before the ref or in it, crashes (795,136 states); patterns up to 3 letters over a, b, *, ? and / with paths up to 5, up to 3 lines with paths up to 3 |
| `fork_serial` | do forks keep their base and merges keep both sides? | 1 caller, 2 names, 1 user file, 4 commits (a plain one only up to the third), ids with and without a commit, 3 fork calls, any number of checkouts, edits, restarts (1.6M states) |
| `fork_shared` | is `forks.json` the map? | 2 threads, 2 names, 2 commits built file by file, 3 calls, 1 crash or failing write (2.3M states) |
| `blob_store` | do files read back, and are orphans deleted? | 2 callers with 2 and 1 files, large contents x (of both) and y (of one) and a small one, 4 calls, 1 commit beside them file by file, 1 fault (3M states) |
| `blob_rollback` | can every checkpoint be restored? (violated) | 1 caller |
| `mount_lifecycle` | is the registry the kernel's table, and does everything end that should? | 2 threads of one process and the command in another, 2 repositories, 2 points, 2 mounts, any number of unmounts, crashes, starts and requests (101,095 states) |
| `mount_shutdown` | does a shutdown lose nothing? (violated) | the command alone, 1 mount |

What the passing runs show:

- `commit_serial`. `DataIntegrity`: the write-backs of the tree builders put
  back what they read. `WritesTracked`: at rest, every acknowledged write is in
  HEAD or in the dirty list, over all orders of writes, deletes, renames,
  flushes and commits; the reuse of parent entries makes this more than
  bookkeeping. `NoCommitLost`, `IgnoredNotCommitted`, and
  `ImplementsLinearHistory`: the protocol refines one line of commits, where
  the head of the abstract history moves when the object is written and the two
  steps of the ref update are stutters.
- `commit_shared`. What remains true when two threads interleave anywhere and
  one call fails or the process dies: the mutex and the flag tell the truth
  (`FlagMatchesBuilder`), history has no cycle and no dangling link
  (`HistoryWellFormed`, `ImplementsCommitHistory`), HEAD is not left empty by
  overlapping ref updates (`HeadSurvives`), and every call returns
  (`CallsReturn`).
- `backend_tree`. The same tracking property with nested directories and hard
  links, `HeadWellFormed` (reused and rebuilt entries still form a tree) and
  `DescentAgrees`. A rename that fails has made the directories of its target
  (`RenameFails`); a file that is read-only cannot be written back and is left
  out of the tree.
- `fuse_handler`. `CleanMeansCommitted`: with nothing in the handler's set, HEAD
  differs from the working tree at most in paths of `missed` and in files that are
  read-only (`Unwritable`), which the builder skips without an error.
  `CommittedStaysCommitted`: no commit of either kind that is made takes a file
  that HEAD has right back to something older, read-only files excepted; this is
  where a stale incremental commit after a full one would show. A commit that
  fails in the ref's write leaves no history at all, and then every path is in
  `missed`. `BatchesBounded` and `InodesLeadBack`.
  For the ignore rules: `GlobAgrees`, the matcher's backtracking finds exactly the
  ways to cut a text into pieces that fit the pattern's letters;
  `PlainPatternsNameComponents`, a plain pattern that is a component of the path
  at any depth matches it. What else plain patterns match is no property: they
  match more than their comment says (section 4). `LastLineDecides`, over all orders of plain, directory and negated lines.
- `fork_serial`. `ForkPointInHistory`: the base of every merge lies in the
  fork's history, over forks of forks or of ids that no commit has, abandoned
  parents and names used again.
  `MergeKeepsBothSides`: although a merge commits the whole working tree, the
  merge commit has what only one side changed, the fork's deletions included. A
  path the parent's side deleted and the fork left alone is committed as the merge
  finds it in the working tree, so the deletion holds only if nothing was left
  there; the property says just that (section 4). `MergeLandsOnParent`, `MergedOnce` (also over
  restarts). `ImplementsForkFates`: what a process knows of a fork refines
  `ForkFates`, where a fork is created, merged once or abandoned and nothing else
  happens to it; the end of a process and the start of the next are stutters, also
  when a merge has put an older `forks.json` in between.
- `fork_shared`. `ForksSurvive`: with nobody in a call, `forks.json` is the map
  unless a commit's write-back or a merge has written the file since the last save
  began (`rewritten`) or a fault has. So saves do not undo each other, although
  each is two steps and they overlap: the read lock held over the save is what
  makes this come out. That a commit undoes another thread's save is section 4.
- `blob_store`. `ReadsBack`: a file's blob is not cleaned up by others that let
  go of the same bytes, also while a commit reads each file and writes it back
  step by step. Excepted are the file in the committer's hand, a file it wrote
  back over something its owner or a clean-up had done meanwhile, contents of
  several callers and blobs a fault left incomplete. `OrphansDeleted`: whoever
  lets go last, in whatever order the searches run, no blob stays that nothing
  points to, unless it is in `leaked`, which a failing write-back adds to.
- `mount_lifecycle`. `MountedIsRegistered` and `RegisteredIsMounted`: the registry
  and the kernel's table agree through mounts, unmounts, failures, remounts and
  exits of two threads and another process, but for the mounts named in
  `disturbed`: hidden by a later mount, unmounted from outside, or spawned while
  another call is about to change their entry. `InterruptEnds`: Ctrl+C ends the command whatever has
  become of its mount. `NotReadyOnceStopped`, `StoppedServerEnds`: a server that is
  shut down or dropped ends, also while clients keep asking, and tells nobody who
  asks afterwards that it is ready.

**Why the bounds are enough.** The protocol's conflicts need two threads and
one file for each; three calls allow write, write, commit in every interleaving,
and one fault reaches every error path from every state. Five calls of one
thread fill two batches and delete or rename between them. In the tree runs a
directory that can be moved, replaced by a file or recreated gives every case of
the builder's comparison (name on the way to a dirty path or not, same kind or
not, present before or not), and d/a/b makes that happen below a directory that is
itself reused or rebuilt; deeper levels are covered by the theorems. A move that
would take something to a path outside `Paths` is not made (`StaysInPaths`), a bound
like the others. Two identities let a hard link be distinguished from a
copy. A batch of two separates the first path, the last path and the drain.
`MaxInode` 3 makes the handler give a number to the root and two more names, so
a rename over a known name happens; actions that need a fourth are disabled.
For the forks, two names are a fork and a fork of it, or a name used twice; four
commits are the first, one on each side and a merge. One content is enough there
because a file that is there or not already is unchanged, changed or deleted on
either side, and `forks.json` takes many values and conflicts. `MaxPlain` keeps
the last of the four commits for a merge. In `fork_shared`
there are no users' files: what matters is the one file every call writes. For
the blobs, one caller with two files and one with one give two pointers of one
caller and one of another to the same blob, the least with which two clean-ups
can race a pointer that stays, and the committer is a third thread that reads and
writes back any of the three files; the initial tree is empty or has large files
that are no pointers yet.

For the mounts, `Plans` lets one thread mount a repository at one point and the other
mount the same repository elsewhere or another one at the same point, which gives
the races for a repository and for a point; the command competes for a point with
both. Two mounts are what the properties relate; `MaxMounts` bounds sessions ever
spawned, so a remount is the second one. `Writers` leaves out writes where nothing
is said about them. With `ServerAlone` a process has a health server or mounts but
not both in one life, since neither reads what the other writes; the end of the
process ends either. For the ignore rules, three letters of pattern hold a star
between two letters, two stars and a slash, and five of a path hold two slashes with a
component of two letters; three lines are one that ignores, one that takes back
and one that ignores again.

`Permutations(Files)` in the tree runs and `Permutations(Names)` in the fork runs
are sound symmetries: identities and names are only compared for equality and no
liveness property is checked in those runs.

`CHECK_DEADLOCK FALSE` stands in the CommitProtocol, ForkManager and BlobStore
configurations because calls, commits or faults are counted there: when the count
is used up and every caller is idle little or nothing is left to do. That a thread
is never stuck inside a call of the backend is `CallsReturn`; in the other two
modules only the map's lock (`CanLock`) and the repo mutex (`RepoFree`) can make a
caller wait, for another whose next step is always possible.

**Fairness.** `CommitProtocol` assumes weak fairness of each thread's own steps
(an unblocked thread is scheduled again) and strong fairness of taking the repo
mutex: it is `parking_lot::Mutex`, which hands over to a waiter eventually. No
fairness is assumed of calls, errors or crashes. `MountLifecycle` assumes weak
fairness of the steps of the command's threads, its Ctrl+C handler among them, and
of the server's loop: both are threads that are scheduled again and wait for nothing
but fusermount's return, a step that is always possible in either outcome, or for
250 ms. Nothing is assumed of clients, of callers of the library, or of the
session's thread, so it may come to `destroy` late or never. The other modules
state safety only and need none.

## 4. Findings

Each is a run that TLC refutes, stating what the repository says of itself.

1. `commit_data_integrity`: the tree builder writes back what it read, so a
   write of another thread in between is undone after it was acknowledged
   (git.rs:1431, 1177; test_concurrency.rs:220).
2. `backend_deletions`: a file deleted in a directory that holds no dirty path
   stays in the next incremental commit (git.rs:1312; comment at 1383-1384).
3. `blob_rollback`: a large file's blob is deleted with its last pointer in the
   working tree although checkpoints hold pointers to it, so a rollback brings
   back a file that cannot be read (git.rs:491; CHANGELOG.md:80-81).
4. `mount_shutdown`: Ctrl+C unmounts and exits, and nothing waits for the session's
   thread, whose `destroy` flushes the pending paths; the exit can come first
   (main.rs:343-349, fs.rs:262-269, 1181; CHANGELOG.md:57-58).

Observations for which no run is kept:

- Two commits can take the same parent, since HEAD is updated after the mutex is
  released and processes share no mutex; the first one then drops out of HEAD's
  history although its caller got Ok (git.rs:1499, 1564; README.md:27). TLC shows it
  when `NoCommitLost` is checked under `CommitShared.cfg`.
- `forks.json` is committed and merged like a user's file, so forks that touch
  different files can conflict in it; the fork is then marked merged and nothing is
  merged (fork.rs:141, 440-456; tests/test_real_world_workflow.rs:274-275).
- Each process has a map of its own, loaded when it starts, and saves all of it: of two
  processes that create forks at the same time the later save drops the other's fork
  from `forks.json`, whose branch then blocks the name (fork.rs:140-148, 597-607;
  comment at 93-94). TLC shows it when `ForksSurvive` is checked with two managers.
- The number of commits a fork is ahead is counted in the log of HEAD, not of the
  fork's branch, so it is wrong whenever HEAD is elsewhere (fork.rs:643-667).
- `mount` tests the registry and inserts into it in two lock regions with the spawn in
  between, so two calls in one process can both pass the check, and two processes
  know nothing of each other: a repository can be mounted twice, against "Prevent
  double-mounting the same repo" (fs.rs:1148, 1153-1177). A second
  mount at a registered point overwrites the entry of the first (1177), and an
  unmount from outside leaves one, after which the repository is refused until the
  process ends.
- `unmount` clears the registry before the old session has flushed, so a new mount of
  the repository can overlap the old one's `destroy` (fs.rs:1250).
- With `--daemon` the command returns and its process exits at once; AutoUnmount then
  takes the mount away (main.rs:340, fs.rs:1163).
- `/health/ready` goes on answering 200 after an unmount, since the empty directory
  exists (health.rs:124).
- A negation in `.gitignore` cannot take back a match of the configuration, because
  `is_ignored` returns at the first such match; its comment says it can
  (git.rs:1837-1842).
- A plain pattern `a` of the configuration also ignores a path like `c/ab/xa`: it
  contains `/a` and ends in `a` (git.rs:1920; comment at 1911). A line `x/` of
  `.gitignore` matches at the root only, and a line without a slash only file names,
  not what lies below a directory of that name.
- A file that cannot be read or written back is left out of the commit without an
  error, so one made read-only with `chmod` drops out of HEAD at the next full
  commit, and an incremental one that builds it anew (git.rs:1172-1179, 1431-1433;
  fs.rs:356-371). `Unwritable` names these files.
- A failed write of the ref can come after its truncation and leaves the branch
  without history; the handler ignores the error (git.rs:419, fs.rs:222).
- `create_merge_commit` builds its tree under the mutex without setting
  `commit_in_progress` (git.rs:2143-2144), so a write during it is listed dirty; in
  `CommitProtocol` the flag is said of the two commits that set it.
- `create_fork_at` parses the id and never looks for the commit, so a fork of 40 hex
  digits that name nothing is recorded, and its branch points nowhere
  (fork.rs:219-242, git.rs:2061-2073). `Dangling` is that id.
- A commit writes back what it read of `forks.json`, so it can undo what another
  thread saved meanwhile, and a fork is gone after a restart (git.rs:1172-1179;
  fork.rs:94). TLC shows it when `~rewritten` is taken out of `ForksSurvive`.
- A file that the parent's side deleted and the fork left alone comes back with the
  merge when the working tree still has it, because only paths of the parent's tree
  are removed from it (fork.rs:473-480; comment at 773). TLC shows it when
  `MergeKeepsBothSides` asks for `ours[p]` wherever `base[p]` is not `Absent`.
- A commit that writes a file back after its owner wrote or deleted it brings the
  old content back, or a pointer to a blob that the owner's call has cleaned up. Even
  a file nobody touches can lose its blob: a clean-up that reads it while the commit
  has it truncated sees no pointer (git.rs:1172-1179, 487-542). `ReadsBack` excepts
  both by `target` and `raced`.
- A change of `.gitignore` does not reach the entries an incremental commit reuses
  (git.rs:1307).
- Extended attributes are kept in memory only, although tests/test_xattr.rs:4 says
  they should persist, and neither rename nor delete touches them (git.rs:1043).
- Nothing commits after `debounce_ms` of silence: the value is compared with zero
  and nothing else, and no timer exists (git.rs:656-669; README.md:182).
- A write that meets `commit_in_progress` set by another thread is in no commit
  and in no list (git.rs:648; README.md:181). TLC shows it when `WritesTracked`
  is checked under `CommitDataIntegrity.cfg`.
- Moving a committed file onto an ignored name is pending nowhere, so an unmount
  leaves the old name in HEAD (fs.rs:707, 243). It is in `missed`.
- A rename over an existing file leaves the old number in one of the two inode
  maps (fs.rs:88; comment at fs.rs:43), which is why `InodesLeadBack` is stated
  in one direction.
- When two callers store the same bytes, the clean-up of one can delete the blob
  between the other's test for existence and its pointer (blobstore.rs:95).
  `ReadsBack` excepts contents of several callers for this reason.

## 5. Proofs

The theorems hold for every value of the constants that the named assumptions
allow: any number of threads, processes, paths, directories of any depth, any
batch size, any set of ignored paths.

- **CommitProtocolProofs.** `HistoryInv` is `TypeOK` with `HistoryWellFormed`.
  The second needs the first (a parent is a number, a tree is a function) and
  carries its own strengthening: not only stored parents but the parent and the
  object a thread holds in `job` must exist, or the ref written from it later
  would dangle. From it follow `TypeCorrect`, `HistorySafe` and, step by step,
  `RefinesCommitHistory`: writing an object maps to `WriteObject`, the two
  halves of the ref's write to `MoveRef`, everything else to a stutter.
  `LockInv` adds `FlagMatchesBuilder`, which is inductive on types alone:
  `LockSafe` says that all the error paths and the crash of a process keep the
  mutex and the flag truthful.

  `HeadIsReported` for any threads and processes while nothing fails: between
  truncation and fill the ref names nothing, so `HeadInv` says that then a thread is
  there to fill it; the last one to fill leaves a commit it reports.
  `IgnoredStayOut` for everything, failures and crashes too: `IgnoreInv` adds to
  the stored trees those being built, for an entry can be reused from the parent,
  and that no ignored file is written back.

  With one thread and no failures (`Threads = {t}`, `MaxFaults = 0`): `LineInv`
  says that the ref names the last object unless `t` is updating it and that each
  commit's parent is the one before it. From it follow `RefinesLinearHistory`, step
  by step, and `ReportedCommitsStay`; the second needs what `Lineage`, a recursive
  function, is (`LineageIsSegment`). `FilesInv` says that only the file `t` has
  truncated differs from what the callers left and that what is written back is what
  they left, which needs that no file has two names: `FilesAreTheCallers`.
  `TrackInv` follows an acknowledged write through a commit: in the dirty list, in
  the paths drained, still to be scanned, in the tree being built, in the object:
  `WritesAreTracked`, with auto-commit. One thread is what a mount has: the session
  hands the handler one request after the other. With two the statements are false:
  `commit_data_integrity` shows it for `DataIntegrity`, section 4 says how for
  the others. Assumed: `ProtocolAssumption`.
- **BackendOpsProofs.** About any two trees and any set of dirty paths:
  `MarkedIsFresh` (a listed path and all directories on the way to it are read
  from disk), `IncrementalIsFull` (the incremental tree is the full one as soon
  as every entry that is out of date is listed or has a listed path below it),
  `BuildersNest` (both builders return nested trees). Assumed: `TreeAssumption`,
  that the paths are non-empty sequences of names with all their prefixes.
- **BackendTreeProofs.** `TreeInv` adds to `WritesTracked` that the working tree
  and HEAD are nested and that a tracked path is a file that can be written back
  (`WrittenIsThere`). `WritesTracked` alone
  is not inductive: that an incremental commit keeps the entry of an unlisted
  path correct rests on `MarkedIsFresh` and, for what is reused, on HEAD being
  nested. `BackendOpsProofs` holds the part about the disk: each operation,
  rename of a directory included, keeps a nested tree. `DescentsGiveTheTrees`: for
  any previous tree, any nested working tree and any list, the builders as they
  descend return what `Full` and `Incremental` give. `IncrementalFrom` is the result
  of a call for any directory, not only the root; it satisfies the equation of the
  recursion because a call for an entry either does what the call for its directory
  would (`BelowTheEntry`) or is not made, and two solutions agree
  (`DescentDecides`) as long as directories nest no deeper than some number, the
  hypothesis of the theorem. `DescentsAgree` is `DescentAgrees` in every reachable
  state. Assumed: `TreeAssumption` and `BackendAssumption`.
- **FuseHandlerProofs.** `FuseInv` joins four parts, each kept by
  lemmas of its own: `DiskOK` (the working tree), `CommitOK` (`CleanMeansCommitted` and
  the handler's set), `PendingOK` (the backend's list), `TablesOK` (the inode
  maps). The argument for the commits is that each entry of a new HEAD is one of
  the old HEAD or of a full build, with the unwritable files left out (`HeadFrom`),
  so a commit can make an entry right but wrong only for an unwritable file, and
  that a request makes an entry wrong only at paths it marks, that `missed` records
  or that cannot be written (`*Touches` lemmas). A commit whose ref write fails
  leaves no HEAD and every path in `missed`. That an ignored file never becomes an
  exception needs that no commit holds one (`HeadSpares`). `CommittedFilesStay`,
  an action property, follows from the same facts. Assumed: `TreeAssumption`,
  `BackendAssumption`, `InodeAssumption` (finitely many paths),
  `HandlerAssumption`.
- **ForkManagerProofs.** About any three trees: `CleanMergeIsBothSides` (a merge
  without conflicts has at every path what the side that changed it left) and
  `SidesMirror` (exchanging the sides, and Ours with Theirs, changes nothing).
  `ForkTypeCorrect` for any callers and processes: every id in a record, job,
  file or ref is that of a commit that was written or `Dangling`, which
  `create_fork_at` lets in, and a merge that has read its trees has three commits
  that exist. The types depend on the number of commits, so `Grows` says that they
  only get larger.
  `ForksAreSaved` for one process with any number of threads (`OneProcess`):
  `ForksSurvive` is not inductive, for while calls run the file is behind the
  map; `SaveInv` adds that a caller in `Store` holds the present map
  (`SavedIsMine`, which rests on `CanLock`) and that, unless a commit or a merge
  wrote the file since the last save began, the file it fills is empty or holds
  that map already (`FileIsMine`) and somebody who will write it is there whenever
  file and map differ (`SomebodyWrites`). `MergesKeepBothSides` for one caller
  (`OneCaller`): `MergeInv` carries what a merge planned (`Planned`), applied and
  then builds file by file, part in the tree and part still in the working tree
  (`PartBuilt`), to its commit (`Keeps`), and uses the lemmas on `MergedEntry`.
  `ImplementsFates` for one caller of one process without failures: `FateInv` says
  what the test at the start of an operation has established and that it still holds
  where the map is changed, and `SerialInv` that a process that starts loads what the
  last one knew: what forks.json holds, or will hold when the builder has written it
  back, is the map unless the call under way ends with a save.
  `MergesLandOnParent` for one caller: `LandInv` keeps HEAD on the parent from the
  checkout to the commit. `ForksMergeOnce` under the assumptions of
  `ImplementsFates`: `OnceInv` says that a fork with a reported merge is merged on
  record or gone, which a merge that has passed its test (`FateInv`) excludes.
  `ForkPointsAreBases` for one caller of one process: a record needs its fork point in
  the history of its branch (`RecordsRooted`), which a merge or a checkout and commit
  only lengthens; that what `Ancestors`, a recursive function, gives grows so is
  `LineSolves` and what follows it, for histories whose parents are older than their
  children (`Ordered`); and a fork being made has its point as tip (`JobsRooted`),
  while a commit or merge being made has the tip of its branch as a parent (`Basing`).
  Assumed: `ForkAssumption`, and `RecordAssumption` for `ImplementsFates`.
- **BlobStoreProofs.** `BlobTypeCorrect`, and `OrphansAreDeleted` for any number of
  callers and a commit beside them. `CleanupInv`: `OrphansDeleted` speaks of quiet
  moments; `LookedAfter` says at all times that a blob is pointed to, in the charge
  of a call or of the commit (`GivenUp`), or on record, and `Aware` that a call that
  is about to overwrite or remove a pointer knows of it or the blob is on record. Whoever
  takes a pointer away does so before it searches, so the last search finds what
  is left. `Aware` is where the ownership of files is used.
  `FilesReadBack` for any callers, failures and crashes: `ContentInv` says that the
  bytes of a content that only one caller stores are in no other caller's files
  (`OwnContents`; a large file that is no pointer has a shared content,
  `RawIsShared`), that a file has the text it should (`HoldsExpected`) or the commit
  has it in hand unless the write-back is on record as `raced` (`InHand`), that a
  file that should read as such a content points to a blob
  that is there (`BlobIsThere`) and incomplete only while it is filled or by a fault
  (`PartialIsKnown`), and that a search that goes on has found nothing so far
  (`Searched`), so the blob it deletes is nobody's. Assumed: `BlobAssumption`.
- **IgnoreProofs.** For patterns, paths and lines of any length.
  `GlobMatchesCuts`: the places where a rest of the text matches a rest of the
  pattern are those from where the text can be cut into pieces that fit
  (`FirstPiece`), so the backtracking is complete and sound. `LastOfTheLinesDecides`:
  the fold over the lines is what the last line says that matches.
  `PlainPatternsMatchComponents`: a pattern that is a component of the path stands
  alone in it (`ComponentsStandAlone`), and the five tests accept whatever stands
  alone (`PlainMatchesAre`). The three are about
  all states `IgnoreQuestions` has, which has no steps. Assumed: `QuestionAssumption`.
- **MountLifecycleProofs.** `MountsAreRegistered` and `EntriesAreMounts`,
  with `MountTypesCorrect`, for any number of processes,
  callers, repositories, points and mounts. They are proved of `MountSpec`;
  `LifecycleImplementsMounts` says that the composition with the health server is one
  of its behaviours. `MountInv` joins the statements, none of which is inductive by
  itself, with: a job in `spawned` has a session of its caller's process, repository
  and point, which is mounted unless it is in `disturbed` (`SpawnedJobs`); numbers not given out yet
  are unused (`LaterUnused`); and three that say when a mount is in `disturbed`
  (`HiddenDisturbed`: a later mount lies over it; `OverwrittenDisturbed`: an earlier
  call is about to write its own entry at its point; `RemovedDisturbed`: an unmount is
  about to remove the entry at its point). `StoppedIsNotReady` is proved of
  the composition from `HealthInv`: a late request implies that the flag is set, and
  there is no request without a thread. Assumed: `MountAssumption` and
  `LifecycleAssumption`.

**Recursion.** The provers cannot use an induction theorem that takes a predicate,
so the proofs about recursive functions and folds use `SegmentInduction`, which is
about a set: one that has every number up to n whose predecessors it has, has them
all. It follows from `WFMin` of the library. A recursive function is a choice among
the solutions of its equation, so each such proof exhibits a solution, which makes
the chosen one a solution too, and shows by `SegmentInduction` that solutions agree.
The lemma stands in each proof module that needs it, which is shorter than a module
for it.

**Only model-checked.** The liveness properties `CallsReturn`, `InterruptEnds` and
`StoppedServerEnds`, since fairness and ENABLED are beyond the proof system here. The
properties of `commit_serial` are proved for one thread only, as above. Of
the runs that expect a violation nothing is proved.

## 6. What is left out

- *Data.* File contents are of one length and written whole; offsets, partial
  writes and sizes are not modelled. Commit messages, authors, times, formatting and all mode bits but a
  file's write bit are not either; a process that is root, which may write read-only
  files, is not considered. Paths are sequences of names without `.git`.
- *Operations.* `symlink`, `mknod` and `fallocate` at the
  backend, extended attributes, `statfs` and all reads. The first three leave the
  dirty list alone exactly as `delete_file` and `create_hardlink` do.
  `set_permissions` is modelled for files, not for directories.
  `truncate_file` is a read followed by `write_file`. `commit_pending` and bare
  repositories are not modelled.
- *Passing I/O errors.* That one file's write-back fails although the file may be
  written is in `CommitProtocol` (`WriteBackFails`) and `BlobStore`; `BackendOps` has
  only the failures that last, those of read-only files.
- *Auto-commit off.* The modules are parameterised by `AutoCommit` and the proofs
  cover both values; the runs use TRUE, where the properties say something.
- *Forks.* `list_forks`, `can_merge`, `fork_diff` and `count_commits_ahead` only read.
  Detached HEAD, tags and `update_branch` are left out. A commit reads and writes
  back the files one by one, but refs are written in one step there, a write-back
  does not fail and a merge applies its result in one step; what `CommitProtocol`
  says of interleaved ref updates applies on top. A rollback is not modelled with
  forks: it can take a branch behind its fork point and `forks.json` back to an older
  map. Several processes are allowed by the
  module and by `ForkTypeCorrect`; the runs have one.
- *Blobs.* More than one commit at a time, pointer text written by users, hard links to pointers, ignored files,
  several repositories with one store, and a failing `unlink`. A rollback is one
  step and is run with nobody in a call; that it moves the branch does not matter
  there.
- *Mounts.* A repository and a mount point are names (canonical paths); permission
  errors and poisoned locks are left out. What the session's thread serves is
  `FuseHandler`; of it only "something is pending" is left here. `gofs unmount` is a
  process of its own that unmounts; its registry is empty.
- *Health.* Other paths than `/health/ready` are answered without looking at anything
  modelled; the content of `/health` is not modelled.
- *Ignore rules.* Reading and trimming `.gitignore`, blank lines and comments; bracket
  expressions, which the code does not implement. Letters stand for characters.
- *External changes.* In `BackendTree` and `FuseHandler` nobody but the caller
  changes the working tree; `CommitProtocol` has the second process.
- *Components.* Those marked `not_modelled` in PROJECT.json: history and diff
  (read-only walks), configuration, errors and argument parsing have no
  behaviour over time. Extended attributes are a map under one lock that no other
  component reads, so there is nothing to interleave or to lose but what is said
  in section 4.

## 7. Plan

All components with a behaviour over time have their modules. What would extend them:
the missing operations in `BackendOps` and `FuseHandler` (symlinks, fallocate,
attributes); rollback in `ForkManager`; `CommitProtocol` with two processes and a change of
`.gitignore` between commits; a run of `ForkManager` with two processes, each with its
own map; the fork queries (`list_forks`, `count_commits_ahead`, `fork_diff`) with the
log they read.

Further proofs: what of `ForkPointInHistory` and `MergedOnce` holds for several
processes; `WritesTracked` for several threads, with the paths the flag hides from
the list on record; the refinement of `BackendTree` by `CommitProtocol` for one caller
of a flat directory, which would join the two views of the backend.
