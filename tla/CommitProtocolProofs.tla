------------------------ MODULE CommitProtocolProofs ------------------------
(***************************************************************************)
(* Proofs about CommitProtocol, for every set of threads, processes and     *)
(* paths and with any number of failures and crashes.  The invariant         *)
(* HistoryInv is inductive: reusing an entry of the parent's tree is        *)
(* well-typed only because the parent is an object that was written.        *)
(***************************************************************************)
EXTENDS CommitProtocol, WellFoundedInduction, TLAPS

HistoryInv == TypeOK /\ HistoryWellFormed

LEMMA InitHistory == Init => HistoryInv
  <1> SUFFICES ASSUME Init PROVE HistoryInv
    OBVIOUS
  <1> USE ProtocolAssumption DEF Init
  <1>1. EmptyTree \in Trees
    BY DEF EmptyTree, Trees
  <1>2. NoIO \in IOType
    BY DEF NoIO, IOType, FileContents
  <1>3. NoJob \in JobType
    BY <1>1 DEF NoJob, JobType, NoCommit
  <1>4. TypeOK
    BY <1>1, <1>2, <1>3 DEF TypeOK, NoFile, NoCommit, FileContents, Locations, Idle
  <1>5. HistoryWellFormed
    BY DEF HistoryWellFormed, NoJob, NoCommit
  <1> QED
    BY <1>4, <1>5 DEF HistoryInv

\* Replacing one value keeps a function in its set.
LEMMA ExceptTyped ==
  ASSUME NEW A, NEW S, NEW fn \in [A -> S], NEW x, NEW v \in S
  PROVE  [fn EXCEPT ![x] = v] \in [A -> S]
  OBVIOUS

\* Setting one field of a thread's job keeps the jobs typed.
LEMMA SetJobField ==
  ASSUME TypeOK, NEW t \in Threads
  PROVE  /\ \A P \in SUBSET Paths : [job EXCEPT ![t].paths = P] \in [Threads -> JobType]
         /\ \A P \in SUBSET Paths : [job EXCEPT ![t].todo = P] \in [Threads -> JobType]
         /\ [job EXCEPT ![t].full = TRUE] \in [Threads -> JobType]
         /\ \A n \in Nat : [job EXCEPT ![t].parent = n] \in [Threads -> JobType]
  <1>1. job \in [Threads -> JobType] /\ job[t] \in JobType
    BY DEF TypeOK
  <1>2. /\ \A P \in SUBSET Paths : [job[t] EXCEPT !.paths = P] \in JobType
        /\ \A P \in SUBSET Paths : [job[t] EXCEPT !.todo = P] \in JobType
        /\ [job[t] EXCEPT !.full = TRUE] \in JobType
        /\ \A n \in Nat : [job[t] EXCEPT !.parent = n] \in JobType
    BY <1>1 DEF JobType
  <1> QED
    BY <1>1, <1>2, Zenon

LEMMA OpenTruncateTyped ==
  ASSUME TypeOK, NEW t \in Threads, NEW p \in Paths, NEW v \in FileContents,
         OpenTruncate(t, p, v)
  PROVE  /\ dirent' \in [Paths -> Inodes \cup {NoFile}]
         /\ data' \in [Inodes -> FileContents]
         /\ io' \in [Threads -> IOType]
  BY ProtocolAssumption DEF TypeOK, OpenTruncate, IOType, FileContents

\* A thread that returns to its caller forgets its fs::write and its commit.
LEMMA ReturnTyped ==
  ASSUME TypeOK, NEW t \in Threads, Return(t)
  PROVE  /\ pc' \in [Threads -> Locations]
         /\ io' \in [Threads -> IOType]
         /\ job' \in [Threads -> JobType]
         /\ \A u \in Threads : job'[u] = job[u] \/ job'[u] = NoJob
  <1>1. NoIO \in IOType
    BY ProtocolAssumption DEF NoIO, IOType, FileContents
  <1>2. NoJob \in JobType
    BY DEF NoJob, JobType, NoCommit, EmptyTree, Trees
  <1>3. Idle \in Locations
    BY DEF Idle, Locations
  <1> QED
    BY <1>1, <1>2, <1>3 DEF TypeOK, Return, Goto

LEMMA FillTyped ==
  ASSUME TypeOK, NEW t \in Threads, Fill(t)
  PROVE  dirent' = dirent /\ data' \in [Inodes -> FileContents]
  BY DEF TypeOK, Fill, IOType

LEMMA GotoTyped ==
  ASSUME TypeOK, NEW t \in Threads, NEW l \in Locations, Goto(t, l)
  PROVE  pc' \in [Threads -> Locations]
  BY DEF TypeOK, Goto

LEMMA CallStep ==
  ASSUME HistoryInv, NEW t \in Threads, ApiCall(t)
  PROVE  HistoryInv'
  <1> USE ProtocolAssumption DEF HistoryInv, bounds, history, files, shared, objectStore
  <1>0. TypeOK
    OBVIOUS
  <1>a. {"fill", "lock", Idle} \subseteq Locations
    BY DEF Locations, Idle
  <1>b. ASSUME Call(t) PROVE calls' \in 0..MaxCalls
    BY <1>b DEF TypeOK, Call
  <1>1. CASE BeginWrite(t)
    <2>1. PICK p \in Own[t], v \in Contents : OpenTruncate(t, p, v)
      BY <1>1 DEF BeginWrite
    <2>2. p \in Paths /\ v \in FileContents
      BY DEF FileContents
    <2>3. /\ dirent' \in [Paths -> Inodes \cup {NoFile}]
          /\ data' \in [Inodes -> FileContents]
          /\ io' \in [Threads -> IOType]
      BY <2>1, <2>2, OpenTruncateTyped
    <2>4. pc' \in [Threads -> Locations]
      BY <1>1, <1>a, GotoTyped DEF BeginWrite
    <2>5. TypeOK'
      BY <1>1, <1>b, <2>3, <2>4 DEF BeginWrite, TypeOK
    <2> QED
      BY <1>1, <2>5 DEF BeginWrite, HistoryWellFormed
  <1>2. CASE DeleteFile(t)
    <2>1. TypeOK'
      BY <1>2, <1>b DEF DeleteFile, TypeOK, Trees
    <2> QED
      BY <1>2, <2>1 DEF DeleteFile, HistoryWellFormed
  <1>3. CASE Rename(t)
    <2>1. TypeOK'
      BY <1>3, <1>b DEF Rename, TypeOK, Trees
    <2> QED
      BY <1>3, <2>1 DEF Rename, HistoryWellFormed
  <1>4. CASE Flush(t)
    <2> DEFINE drained == {dirty[Backend(t)][i] : i \in DOMAIN dirty[Backend(t)]}
    <2>1. drained \subseteq Paths
      BY DEF TypeOK, Backend
    <2>2. job' = [job EXCEPT ![t].paths = drained]
      BY <1>4 DEF Flush
    <2>3. job' \in [Threads -> JobType]
      BY <2>1, <2>2, SetJobField
    <2>4. dirty' \in [Backends -> Seq(Paths)]
      <3>1. dirty' = [dirty EXCEPT ![Backend(t)] = <<>>]
        BY <1>4 DEF Flush
      <3>2. <<>> \in Seq(Paths)
        OBVIOUS
      <3> QED
        BY <3>1, <3>2 DEF TypeOK
    <2>5. pc' \in [Threads -> Locations]
      BY <1>4, <1>a, GotoTyped DEF Flush
    <2>6. TypeOK'
      BY <1>4, <1>b, <2>3, <2>4, <2>5 DEF Flush, TypeOK
    <2>7. \A u \in Threads : job'[u].parent = job[u].parent /\ job'[u].id = job[u].id
      BY <2>2 DEF TypeOK, JobType
    <2> QED
      BY <1>4, <2>6, <2>7 DEF Flush, HistoryWellFormed
  <1>5. CASE Commit(t)
    <2>1. job' = [job EXCEPT ![t].full = TRUE]
      BY <1>5 DEF Commit
    <2>2. job' \in [Threads -> JobType]
      BY <2>1, SetJobField
    <2>3. pc' \in [Threads -> Locations]
      BY <1>5, <1>a, GotoTyped DEF Commit
    <2>4. TypeOK'
      BY <1>5, <1>b, <2>2, <2>3 DEF Commit, TypeOK
    <2>5. \A u \in Threads : job'[u].parent = job[u].parent /\ job'[u].id = job[u].id
      BY <2>1 DEF TypeOK, JobType
    <2> QED
      BY <1>5, <2>4, <2>5 DEF Commit, HistoryWellFormed
  <1> QED
    BY <1>1, <1>2, <1>3, <1>4, <1>5 DEF ApiCall

\* The part of a step that HistoryWellFormed sees.
LEMMA SameLinks ==
  ASSUME HistoryWellFormed, commits' = commits, ref' = ref,
         \A u \in Threads : /\ job'[u].parent \in {job[u].parent, NoCommit, ref}
                            /\ job'[u].id \in {job[u].id, NoCommit},
         TypeOK
  PROVE  HistoryWellFormed'
  <1>1. Len(commits) \in Nat
    BY DEF TypeOK
  <1>2. ASSUME NEW u \in Threads
        PROVE  job'[u].parent <= Len(commits) /\ job'[u].id <= Len(commits)
    <2>1. job[u].parent <= Len(commits) /\ job[u].id <= Len(commits)
      BY DEF HistoryWellFormed
    <2>2. ref <= Len(commits) /\ NoCommit <= Len(commits)
      BY <1>1 DEF HistoryWellFormed, NoCommit
    <2> QED
      BY <2>1, <2>2
  <1> QED
    BY <1>2 DEF HistoryWellFormed

LEMMA ReturnLinks ==
  ASSUME HistoryInv, NEW t \in Threads, Return(t), commits' = commits, ref' = ref
  PROVE  HistoryWellFormed'
  <1> USE DEF HistoryInv
  <1>1. NoJob.parent = NoCommit /\ NoJob.id = NoCommit
    BY DEF NoJob
  <1>2. \A u \in Threads : job'[u] = job[u] \/ job'[u] = NoJob
    BY ReturnTyped
  <1>3. \A u \in Threads : /\ job'[u].parent \in {job[u].parent, NoCommit, ref}
                           /\ job'[u].id \in {job[u].id, NoCommit}
    BY <1>1, <1>2
  <1> QED
    BY <1>3, SameLinks

LEMMA AcquireStep ==
  ASSUME HistoryInv, NEW t \in Threads, AcquireRepo(t)
  PROVE  HistoryInv'
  <1> USE ProtocolAssumption DEF HistoryInv, bounds, history, files, objectStore
  <1> DEFINE parent == IF job[t].full THEN NoCommit ELSE ref
  <1>1. job' = [job EXCEPT ![t].parent = parent]
    BY DEF AcquireRepo
  <1>2. parent \in Nat
    BY DEF TypeOK, NoCommit
  <1>3. job' \in [Threads -> JobType]
    <2> HIDE DEF parent
    <2> QED
      BY <1>1, <1>2, SetJobField
  <1>4. pc' \in [Threads -> Locations]
    BY GotoTyped DEF AcquireRepo, Locations, Locked
  <1>5. repoLock' \in [Backends -> Threads \cup {Free}]
    BY DEF AcquireRepo, TypeOK, Backend
  <1>6. TypeOK'
    BY <1>3, <1>4, <1>5 DEF AcquireRepo, TypeOK
  <1>7. \A u \in Threads : /\ job'[u].parent \in {job[u].parent, NoCommit, ref}
                           /\ job'[u].id = job[u].id
    BY <1>1 DEF TypeOK, JobType
  <1>8. HistoryWellFormed'
    BY <1>7, SameLinks DEF AcquireRepo
  <1> QED
    BY <1>6, <1>8

LEMMA WriteStep ==
  ASSUME HistoryInv, NEW t \in Threads, EndWrite(t) \/ CheckFlag(t) \/ MarkDirty(t)
  PROVE  HistoryInv'
  <1> USE ProtocolAssumption DEF HistoryInv, bounds, history, files, shared, objectStore
  <1>a. {"filled", "mark", "lock"} \subseteq Locations
    BY DEF Locations
  <1>1. CASE EndWrite(t)
    <2>1. data' \in [Inodes -> FileContents] /\ dirent' = dirent
      BY <1>1, FillTyped DEF EndWrite
    <2>2. pc' \in [Threads -> Locations]
      BY <1>1, <1>a, GotoTyped DEF EndWrite
    <2>3. io[t] \in IOType
      BY DEF TypeOK
    <2>4. intent' \in Trees /\ written' \subseteq Paths
      BY <1>1, <2>3 DEF EndWrite, TypeOK, Trees, IOType
    <2>5. TypeOK'
      BY <1>1, <2>1, <2>2, <2>4 DEF EndWrite, TypeOK
    <2> QED
      BY <1>1, <2>5 DEF EndWrite, HistoryWellFormed
  <1>2. CASE CheckFlag(t)
    <2>1. CASE Goto(t, "mark") /\ UNCHANGED <<io, job>>
      <3>1. pc' \in [Threads -> Locations]
        BY <2>1, <1>a, GotoTyped
      <3>2. TypeOK'
        BY <1>2, <2>1, <3>1 DEF CheckFlag, TypeOK
      <3> QED
        BY <1>2, <2>1, <3>2 DEF CheckFlag, HistoryWellFormed
    <2>2. CASE Return(t)
      <3>1. TypeOK'
        BY <1>2, <2>2, ReturnTyped DEF CheckFlag, TypeOK
      <3> QED
        BY <1>2, <2>2, <3>1, ReturnLinks DEF CheckFlag
    <2> QED
      BY <1>2, <2>1, <2>2 DEF CheckFlag
  <1>3. CASE MarkDirty(t)
    <2> DEFINE marked == Append(dirty[Backend(t)], io[t].path)
               taken == {marked[i] : i \in DOMAIN marked}
    <2>1. marked \in Seq(Paths)
      <3>1. io[t].path \in Paths
        BY DEF TypeOK, IOType
      <3>2. dirty[Backend(t)] \in Seq(Paths)
        BY DEF TypeOK, Backend
      <3> QED
        BY <3>1, <3>2
    <2>2. taken \subseteq Paths
      BY <2>1
    <2>3. dirty' \in [Backends -> Seq(Paths)]
      <3>1. \/ dirty' = [dirty EXCEPT ![Backend(t)] = <<>>]
            \/ dirty' = [dirty EXCEPT ![Backend(t)] = marked]
        BY <1>3 DEF MarkDirty
      <3>2. <<>> \in Seq(Paths)
        OBVIOUS
      <3>3. dirty \in [Backends -> Seq(Paths)]
        BY DEF TypeOK
      <3> HIDE DEF marked
      <3> QED
        BY <2>1, <3>1, <3>2, <3>3, ExceptTyped
    <2>4. CASE /\ job' = [job EXCEPT ![t].paths = taken]
               /\ Goto(t, "lock") /\ UNCHANGED io
      <3>1. job' \in [Threads -> JobType]
        BY <2>2, <2>4, SetJobField
      <3>2. pc' \in [Threads -> Locations]
        BY <2>4, <1>a, GotoTyped
      <3>3. TypeOK'
        BY <1>3, <2>3, <2>4, <3>1, <3>2 DEF MarkDirty, TypeOK
      <3>4. \A u \in Threads : job'[u].parent = job[u].parent /\ job'[u].id = job[u].id
        BY <2>4 DEF TypeOK, JobType
      <3> QED
        BY <1>3, <3>3, <3>4, SameLinks DEF MarkDirty
    <2>5. CASE Return(t)
      <3>1. TypeOK'
        BY <1>3, <2>3, <2>5, ReturnTyped DEF MarkDirty, TypeOK
      <3> QED
        BY <1>3, <2>5, <3>1, ReturnLinks DEF MarkDirty
    <2> QED
      BY <1>3, <2>4, <2>5 DEF MarkDirty
  <1> QED
    BY <1>1, <1>2, <1>3

\* What the builder takes over from the parent's tree is the entry of a tree:
\* the parent is an object that was written.
LEMMA ParentTree ==
  ASSUME HistoryInv, NEW t \in Threads, Incremental(t), NEW p \in Paths
  PROVE  commits[job[t].parent].tree[p] \in FileContents \cup {Absent}
  <1>1. job[t].parent \in 1..Len(commits)
    BY DEF HistoryInv, HistoryWellFormed, TypeOK, JobType, Incremental, NoCommit
  <1>2. commits[job[t].parent] \in CommitType
    BY <1>1 DEF HistoryInv, TypeOK
  <1> QED
    BY <1>2 DEF CommitType, Trees

LEMMA GrownJob ==
  ASSUME NEW j \in JobType, NEW tree \in Trees
  PROVE  /\ [j EXCEPT !.tree = tree] \in JobType
         /\ [j EXCEPT !.tree = tree].parent = j.parent
         /\ [j EXCEPT !.tree = tree].id = j.id
  BY DEF JobType

LEMMA BuildStep ==
  ASSUME HistoryInv, NEW t \in Threads,
         \/ StartBuild(t) \/ VisitEntry(t) \/ OpenWriteBack(t)
         \/ FillWriteBack(t) \/ FinishBuild(t)
  PROVE  HistoryInv'
  <1> USE ProtocolAssumption DEF HistoryInv, bounds, history, files, shared, objectStore
  <1>a. {"build", "wbOpen", "wbFill", "object"} \subseteq Locations
    BY DEF Locations, Locked, Building
  <1>1. CASE StartBuild(t)
    <2>1. job' \in [Threads -> JobType]
      BY <1>1, SetJobField DEF StartBuild
    <2>2. pc' \in [Threads -> Locations]
      BY <1>1, <1>a, GotoTyped DEF StartBuild
    <2>3. TypeOK'
      BY <1>1, <2>1, <2>2 DEF StartBuild, TypeOK
    <2>4. \A u \in Threads : job'[u].parent = job[u].parent /\ job'[u].id = job[u].id
      BY <1>1 DEF StartBuild, TypeOK, JobType
    <2> QED
      BY <1>1, <2>3, <2>4, SameLinks DEF StartBuild
  <1>2. CASE VisitEntry(t)
    <2> DEFINE next(p) == [job[t] EXCEPT !.todo = @ \ {p}]
    <2>1. PICK p \in job[t].todo :
            \/ /\ job' = [job EXCEPT ![t] = next(p)]
               /\ UNCHANGED <<pc, io>>
            \/ /\ Reused(t, p)
               /\ job' = [job EXCEPT ![t] =
                     [next(p) EXCEPT !.tree[p] = commits[job[t].parent].tree[p]]]
               /\ UNCHANGED <<pc, io>>
            \/ /\ ~Skipped(t, p)
               /\ job' = [job EXCEPT ![t] = next(p)]
               /\ io' = [io EXCEPT ![t] =
                     [path |-> p, val |-> ReadEntry(p), fd |-> NoFile]]
               /\ Goto(t, "wbOpen")
      BY <1>2 DEF VisitEntry
    <2>2. p \in Paths
      BY DEF TypeOK, JobType
    <2>3. next(p) \in JobType /\ next(p).parent = job[t].parent /\ next(p).id = job[t].id
      BY DEF TypeOK, JobType
    <2>4. CASE /\ job' = [job EXCEPT ![t] = next(p)]
               /\ UNCHANGED <<pc, io>>
      <3>1. job' \in [Threads -> JobType]
        BY <2>3, <2>4 DEF TypeOK
      <3>2. TypeOK'
        BY <1>2, <2>4, <3>1 DEF VisitEntry, TypeOK
      <3>3. \A u \in Threads : job'[u].parent = job[u].parent /\ job'[u].id = job[u].id
        BY <2>3, <2>4 DEF TypeOK
      <3> QED
        BY <1>2, <3>2, <3>3, SameLinks DEF VisitEntry
    <2>5. CASE /\ Reused(t, p)
               /\ job' = [job EXCEPT ![t] =
                     [next(p) EXCEPT !.tree[p] = commits[job[t].parent].tree[p]]]
               /\ UNCHANGED <<pc, io>>
      <3> DEFINE entry == commits[job[t].parent].tree[p]
                 built == [next(p) EXCEPT !.tree[p] = entry]
      <3>1. entry \in FileContents \cup {Absent}
        BY <2>2, <2>5, ParentTree DEF Reused
      <3>2. built \in JobType /\ built.parent = job[t].parent /\ built.id = job[t].id
        <4> DEFINE grown == [next(p).tree EXCEPT ![p] = entry]
        <4>1. next(p).tree \in Trees
          BY <2>3 DEF JobType
        <4>2. grown \in Trees
          BY <3>1, <4>1 DEF Trees
        <4>3. built = [next(p) EXCEPT !.tree = grown]
          OBVIOUS
        <4> HIDE DEF grown, next
        <4> QED
          BY <2>3, <4>2, <4>3, GrownJob
      <3>3. job' = [job EXCEPT ![t] = built]
        BY <2>5
      <3> HIDE DEF built
      <3>4. job' \in [Threads -> JobType]
        BY <3>2, <3>3 DEF TypeOK
      <3>5. TypeOK'
        BY <1>2, <2>5, <3>4 DEF VisitEntry, TypeOK
      <3>6. \A u \in Threads : job'[u].parent = job[u].parent /\ job'[u].id = job[u].id
        BY <3>2, <3>3 DEF TypeOK
      <3> QED
        BY <1>2, <3>5, <3>6, SameLinks DEF VisitEntry
    <2>6. CASE /\ ~Skipped(t, p)
               /\ job' = [job EXCEPT ![t] = next(p)]
               /\ io' = [io EXCEPT ![t] =
                     [path |-> p, val |-> ReadEntry(p), fd |-> NoFile]]
               /\ Goto(t, "wbOpen")
      <3>1. ReadEntry(p) \in FileContents
        BY <2>2, <2>6 DEF Skipped, ReadEntry, Content, TypeOK
      <3>2. io' \in [Threads -> IOType]
        BY <2>2, <2>6, <3>1 DEF TypeOK, IOType
      <3>3. job' \in [Threads -> JobType]
        BY <2>3, <2>6 DEF TypeOK
      <3>4. pc' \in [Threads -> Locations]
        BY <2>6, <1>a, GotoTyped
      <3>5. TypeOK'
        BY <1>2, <3>2, <3>3, <3>4 DEF VisitEntry, TypeOK
      <3>6. \A u \in Threads : job'[u].parent = job[u].parent /\ job'[u].id = job[u].id
        BY <2>3, <2>6 DEF TypeOK
      <3> QED
        BY <1>2, <3>5, <3>6, SameLinks DEF VisitEntry
    <2> QED
      BY <2>1, <2>4, <2>5, <2>6
  <1>3. CASE OpenWriteBack(t)
    <2>1. io[t].path \in Paths /\ io[t].val \in FileContents
      BY DEF TypeOK, IOType
    <2>2. /\ dirent' \in [Paths -> Inodes \cup {NoFile}]
          /\ data' \in [Inodes -> FileContents]
          /\ io' \in [Threads -> IOType]
      BY <1>3, <2>1, OpenTruncateTyped DEF OpenWriteBack
    <2>3. pc' \in [Threads -> Locations]
      BY <1>3, <1>a, GotoTyped DEF OpenWriteBack
    <2>4. TypeOK'
      BY <1>3, <2>2, <2>3 DEF OpenWriteBack, TypeOK
    <2> QED
      BY <1>3, <2>4 DEF OpenWriteBack, HistoryWellFormed
  <1>4. CASE FillWriteBack(t)
    <2>1. data' \in [Inodes -> FileContents] /\ dirent' = dirent
      BY <1>4, FillTyped DEF FillWriteBack
    <2>2. pc' \in [Threads -> Locations]
      BY <1>4, <1>a, GotoTyped DEF FillWriteBack
    <2>3. NoIO \in IOType
      BY DEF NoIO, IOType, FileContents
    <2>4. io' \in [Threads -> IOType]
      BY <1>4, <2>3 DEF FillWriteBack, TypeOK
    <2>5. job' = job \/ job' = [job EXCEPT ![t].tree[io[t].path] = io[t].val]
      BY <1>4 DEF FillWriteBack
    <2>6. io[t].path \in Paths /\ io[t].val \in FileContents
      BY DEF TypeOK, IOType
    <2>7. /\ job' \in [Threads -> JobType]
          /\ \A u \in Threads : job'[u].parent = job[u].parent /\ job'[u].id = job[u].id
      <3> DEFINE grown == [job[t].tree EXCEPT ![io[t].path] = io[t].val]
                 built == [job[t] EXCEPT !.tree = grown]
      <3>1. job[t] \in JobType /\ job[t].tree \in Trees
        BY DEF TypeOK, JobType
      <3>2. grown \in Trees
        BY <2>6, <3>1 DEF Trees
      <3>3. built \in JobType /\ built.parent = job[t].parent /\ built.id = job[t].id
        <4> HIDE DEF grown
        <4> QED
          BY <3>1, <3>2, GrownJob
      <3>4. job' = job \/ job' = [job EXCEPT ![t] = built]
        BY <2>5 DEF TypeOK
      <3> HIDE DEF built
      <3> QED
        BY <3>3, <3>4 DEF TypeOK
    <2>8. TypeOK'
      BY <1>4, <2>1, <2>2, <2>4, <2>7 DEF FillWriteBack, TypeOK
    <2> QED
      BY <1>4, <2>7, <2>8, SameLinks DEF FillWriteBack
  <1>5. CASE FinishBuild(t)
    <2>1. inProgress' \in [Backends -> BOOLEAN]
      BY <1>5 DEF FinishBuild, ClearFlag, TypeOK
    <2>2. pc' \in [Threads -> Locations]
      BY <1>5, <1>a, GotoTyped DEF FinishBuild
    <2>3. TypeOK'
      BY <1>5, <2>1, <2>2 DEF FinishBuild, TypeOK
    <2> QED
      BY <1>5, <2>3 DEF FinishBuild, HistoryWellFormed
  <1> QED
    BY <1>1, <1>2, <1>3, <1>4, <1>5

\* Writing the id of one thread's job leaves the jobs typed and every parent as
\* it was.
LEMMA SetJobId ==
  ASSUME TypeOK, NEW t \in Threads, NEW n \in Nat, job' = [job EXCEPT ![t].id = n]
  PROVE  /\ job' \in [Threads -> JobType]
         /\ \A u \in Threads : /\ job'[u].parent = job[u].parent
                               /\ job'[u].id \in {job[u].id, n}
  <1> DEFINE r == [job[t] EXCEPT !.id = n]
  <1>1. job \in [Threads -> JobType]
    BY DEF TypeOK
  <1>2. r \in JobType /\ r.parent = job[t].parent /\ r.id = n
    BY <1>1 DEF JobType
  <1>3. job' = [job EXCEPT ![t] = r]
    OBVIOUS
  <1> HIDE DEF r
  <1>4. job' \in [Threads -> JobType]
    BY <1>1, <1>2, <1>3
  <1>5. ASSUME NEW u \in Threads
        PROVE  job'[u].parent = job[u].parent /\ job'[u].id \in {job[u].id, n}
    <2>1. CASE u = t
      BY <1>1, <1>2, <1>3, <2>1
    <2>2. CASE u # t
      BY <1>1, <1>3, <2>2
    <2> QED
      BY <2>1, <2>2
  <1> QED
    BY <1>4, <1>5

\* The parent of a new commit is an object that was written, or none.
LEMMA ParentWritten ==
  ASSUME HistoryInv, NEW t \in Threads
  PROVE  Parent(t) \in 0..Len(commits)
  BY DEF HistoryInv, HistoryWellFormed, TypeOK, JobType, Parent

LEMMA CommitStep ==
  ASSUME HistoryInv, NEW t \in Threads,
         WriteCommit(t) \/ TruncateRef(t) \/ FillRef(t)
  PROVE  HistoryInv'
  <1> USE ProtocolAssumption DEF HistoryInv, bounds, history, files, shared, objectStore
  <1>a. {"refOpen", "refFill"} \subseteq Locations
    BY DEF Locations, UpdatingRef
  <1>b. Len(commits) \in Nat
    BY DEF TypeOK
  <1>1. CASE WriteCommit(t)
    <2> DEFINE object == [parent |-> Parent(t), tree |-> job[t].tree]
    <2>1. object \in CommitType
      BY <1>b, ParentWritten DEF CommitType, TypeOK, JobType
    <2>2. commits' = Append(commits, object)
      BY <1>1 DEF WriteCommit
    <2>3. /\ commits' \in Seq(CommitType)
          /\ Len(commits') = Len(commits) + 1
          /\ \A c \in DOMAIN commits : commits'[c] = commits[c]
          /\ commits'[Len(commits) + 1] = object
      <3> HIDE DEF object
      <3> QED
        BY <2>1, <2>2 DEF TypeOK
    <2>4. job' = [job EXCEPT ![t].id = Len(commits')]
      BY <1>1 DEF WriteCommit
    <2>5. /\ job' \in [Threads -> JobType]
          /\ \A u \in Threads : /\ job'[u].parent = job[u].parent
                                /\ job'[u].id \in {job[u].id, Len(commits')}
      <3> DEFINE oid == Len(commits')
      <3>1. oid \in Nat /\ job' = [job EXCEPT ![t].id = oid]
        BY <1>b, <2>3, <2>4
      <3> HIDE DEF oid
      <3>2. /\ job' \in [Threads -> JobType]
            /\ \A u \in Threads : /\ job'[u].parent = job[u].parent
                                  /\ job'[u].id \in {job[u].id, oid}
        BY <3>1, SetJobId
      <3> QED
        BY <3>2 DEF oid
    <2>6. pc' \in [Threads -> Locations]
      BY <1>1, <1>a, GotoTyped DEF WriteCommit
    <2>7. repoLock' \in [Backends -> Threads \cup {Free}]
      BY <1>1 DEF WriteCommit, Unlock, TypeOK
    <2>8. TypeOK'
      BY <1>1, <2>3, <2>5, <2>6, <2>7 DEF WriteCommit, TypeOK
    <2>9. HistoryWellFormed'
      <3>1. ref' <= Len(commits')
        BY <1>1, <1>b, <2>3 DEF WriteCommit, HistoryWellFormed, TypeOK
      <3>2. ASSUME NEW c \in DOMAIN commits' PROVE commits'[c].parent < c
        <4>1. c \in DOMAIN commits \/ c = Len(commits) + 1
          BY <1>b, <2>3 DEF TypeOK
        <4>2. CASE c \in DOMAIN commits
          BY <2>3, <4>2 DEF HistoryWellFormed
        <4>3. CASE c = Len(commits) + 1
          BY <1>b, <2>3, <4>3, ParentWritten
        <4> QED
          BY <4>1, <4>2, <4>3
      <3>3. ASSUME NEW u \in Threads
            PROVE  job'[u].parent <= Len(commits') /\ job'[u].id <= Len(commits')
        <4>1. job[u].parent \in Nat /\ job[u].id \in Nat
          BY DEF TypeOK, JobType
        <4>2. job[u].parent <= Len(commits) /\ job[u].id <= Len(commits)
          BY DEF HistoryWellFormed
        <4> QED
          BY <1>b, <2>3, <2>5, <4>1, <4>2
      <3> QED
        BY <3>1, <3>2, <3>3 DEF HistoryWellFormed
    <2> QED
      BY <2>8, <2>9
  <1>2. CASE TruncateRef(t)
    <2>1. pc' \in [Threads -> Locations]
      BY <1>2, <1>a, GotoTyped DEF TruncateRef
    <2>2. TypeOK'
      BY <1>2, <2>1 DEF TruncateRef, TypeOK, NoCommit
    <2> QED
      BY <1>2, <1>b, <2>2 DEF TruncateRef, HistoryWellFormed, NoCommit
  <1>3. CASE FillRef(t)
    <2>1. job[t].id \in Nat /\ job[t].id <= Len(commits)
      BY DEF TypeOK, JobType, HistoryWellFormed
    <2>2. TypeOK'
      BY <1>3, <2>1, ReturnTyped DEF FillRef, NewHead, TypeOK
    <2>3. ASSUME NEW u \in Threads
          PROVE  job'[u].parent <= Len(commits) /\ job'[u].id <= Len(commits)
      <3>1. job'[u] = job[u] \/ job'[u] = NoJob
        BY <1>3, ReturnTyped DEF FillRef
      <3>2. NoJob.parent = 0 /\ NoJob.id = 0
        BY DEF NoJob, NoCommit
      <3> QED
        BY <1>b, <3>1, <3>2 DEF HistoryWellFormed
    <2> QED
      BY <1>3, <2>1, <2>2, <2>3 DEF FillRef, NewHead, HistoryWellFormed
  <1> QED
    BY <1>1, <1>2, <1>3

LEMMA FailureStep ==
  ASSUME HistoryInv, NEW t \in Threads, Failure(t)
  PROVE  HistoryInv'
  <1> USE ProtocolAssumption DEF HistoryInv, bounds, history, files, shared, objectStore
  <1>a. ASSUME Fault PROVE faults' \in 0..MaxFaults /\ calls' = calls
    BY <1>a DEF TypeOK, Fault
  <1>1. CASE WriteFails(t)
    <2>1. intent' \in Trees /\ written' \subseteq Paths
      BY <1>1 DEF WriteFails, TypeOK, Trees, FileContents
    <2>2. TypeOK'
      BY <1>1, <1>a, <2>1, ReturnTyped DEF WriteFails, TypeOK
    <2> QED
      BY <1>1, <2>2, ReturnLinks DEF WriteFails
  <1>2. CASE WriteBackFails(t)
    <2>1. NoIO \in IOType
      BY DEF NoIO, IOType, FileContents
    <2>2. "build" \in Locations
      BY DEF Locations, Locked, Building
    <2>3. pc' \in [Threads -> Locations]
      BY <1>2, <2>2, GotoTyped DEF WriteBackFails
    <2>4. TypeOK'
      BY <1>2, <1>a, <2>1, <2>3 DEF WriteBackFails, TypeOK
    <2> QED
      BY <1>2, <2>4 DEF WriteBackFails, HistoryWellFormed
  <1>3. CASE BuildFails(t)
    <2>1. TypeOK'
      BY <1>3, <1>a, ReturnTyped DEF BuildFails, ClearFlag, Unlock, TypeOK
    <2> QED
      BY <1>3, <2>1, ReturnLinks DEF BuildFails
  <1>4. CASE ObjectWriteFails(t)
    <2>1. TypeOK'
      BY <1>4, <1>a, ReturnTyped DEF ObjectWriteFails, Unlock, TypeOK
    <2> QED
      BY <1>4, <2>1, ReturnLinks DEF ObjectWriteFails
  <1>5. CASE RefWriteFails(t)
    <2>1. TypeOK'
      BY <1>5, <1>a, ReturnTyped DEF RefWriteFails, TypeOK
    <2> QED
      BY <1>5, <2>1, ReturnLinks DEF RefWriteFails
  <1> QED
    BY <1>1, <1>2, <1>3, <1>4, <1>5 DEF Failure

LEMMA CrashStep ==
  ASSUME HistoryInv, NEW b \in Backends, Crash(b)
  PROVE  HistoryInv'
  <1> USE ProtocolAssumption DEF HistoryInv, history, files, objectStore
  <1>1. NoIO \in IOType
    BY DEF NoIO, IOType, FileContents
  <1>2. NoJob \in JobType /\ NoJob.parent = NoCommit /\ NoJob.id = NoCommit
    BY DEF NoJob, JobType, NoCommit, EmptyTree, Trees
  <1>3. pc' \in [Threads -> Locations] /\ io' \in [Threads -> IOType]
    BY <1>1 DEF Crash, TypeOK, Locations
  <1>4. /\ job' \in [Threads -> JobType]
        /\ \A u \in Threads : job'[u] = job[u] \/ job'[u] = NoJob
    BY <1>2 DEF Crash, TypeOK
  <1>5. dirty' \in [Backends -> Seq(Paths)]
    <2>1. <<>> \in Seq(Paths)
      OBVIOUS
    <2>2. dirty' = [dirty EXCEPT ![b] = <<>>]
      BY DEF Crash
    <2>3. dirty \in [Backends -> Seq(Paths)]
      BY DEF TypeOK
    <2> QED
      BY <2>1, <2>2, <2>3, ExceptTyped
  <1>6. inProgress' \in [Backends -> BOOLEAN] /\ repoLock' \in [Backends -> Threads \cup {Free}]
    BY DEF Crash, TypeOK
  <1>7. TypeOK'
    BY <1>3, <1>4, <1>5, <1>6 DEF Crash, Fault, TypeOK
  <1>8. \A u \in Threads : /\ job'[u].parent \in {job[u].parent, NoCommit, ref}
                           /\ job'[u].id \in {job[u].id, NoCommit}
    BY <1>2, <1>4
  <1> QED
    BY <1>7, <1>8, SameLinks DEF Crash

LEMMA HistoryInductive == HistoryInv /\ [Next]_vars => HistoryInv'
  <1> SUFFICES ASSUME HistoryInv, [Next]_vars PROVE HistoryInv'
    OBVIOUS
  <1>1. CASE UNCHANGED vars
    BY <1>1 DEF HistoryInv, TypeOK, HistoryWellFormed, vars
  <1>2. ASSUME NEW t \in Threads, Step(t) PROVE HistoryInv'
    BY <1>2, WriteStep, BuildStep, CommitStep DEF Step
  <1> QED
    BY <1>1, <1>2, CallStep, AcquireStep, FailureStep, CrashStep DEF Next

\* Every variable of the commit protocol keeps its type; in particular a file
\* or a tree never holds anything but file contents (git.rs:609-1567).
THEOREM TypeCorrect == Spec => []TypeOK
  <1>1. HistoryInv => TypeOK
    BY DEF HistoryInv
  <1> QED
    BY <1>1, InitHistory, HistoryInductive, PTL DEF Spec

\* However calls, processes, failures and crashes interleave, HEAD and every
\* parent link name a commit object written before (git.rs:388-421, 1497-1500,
\* 1536-1565).
THEOREM HistorySafe == Spec => []HistoryWellFormed
  <1>1. HistoryInv => HistoryWellFormed
    BY DEF HistoryInv
  <1> QED
    BY <1>1, InitHistory, HistoryInductive, PTL DEF Spec

\* What the object store and the branch do is what CommitHistory allows: a
\* commit is one WriteObject, the two halves of a ref update are MoveRefs, and
\* every other step leaves both alone.
THEOREM RefinesCommitHistory == Spec => ImplementsCommitHistory
  <1> USE DEF objectStore
  <1>1. Init => ObjectStore!Init
    BY DEF Init, ObjectStore!Init, ObjectStore!NoCommit, NoCommit
  <1>2. HistoryInv /\ HistoryInv' /\ [Next]_vars => [ObjectStore!Next]_(ObjectStore!vars)
    <2> SUFFICES ASSUME HistoryInv, HistoryInv', [Next]_vars
                 PROVE  ObjectStore!Next \/ UNCHANGED objectStore
      BY DEF ObjectStore!vars
    <2> USE DEF HistoryInv
    <2>1. ASSUME NEW t \in Threads, WriteCommit(t) PROVE ObjectStore!WriteObject
      <3>1. Parent(t) \in 1..Len(commits) \cup {0}
        BY ParentWritten DEF TypeOK
      <3>2. job[t].tree \in Trees
        BY DEF TypeOK, JobType
      <3> QED
        BY <2>1, <3>1, <3>2
           DEF WriteCommit, ObjectStore!WriteObject, ObjectStore!Oids, ObjectStore!NoCommit
    <2>2. ASSUME ref' \in 0..Len(commits), UNCHANGED commits PROVE ObjectStore!MoveRef
      BY <2>2 DEF TypeOK, ObjectStore!MoveRef, ObjectStore!Oids, ObjectStore!NoCommit
    <2>3. ASSUME NEW t \in Threads, TruncateRef(t) \/ FillRef(t) PROVE ObjectStore!MoveRef
      <3>1. ref' \in 0..Len(commits')
        BY DEF TypeOK, HistoryWellFormed
      <3>2. UNCHANGED commits
        BY <2>3 DEF TruncateRef, FillRef
      <3> QED
        BY <2>2, <3>1, <3>2
    <2>4. ASSUME NEW t \in Threads, ApiCall(t) \/ AcquireRepo(t) \/ Failure(t)
          PROVE  UNCHANGED objectStore
      BY <2>4 DEF ApiCall, BeginWrite, DeleteFile, Rename, Flush, Commit, AcquireRepo,
                  Failure, WriteFails, WriteBackFails, BuildFails, ObjectWriteFails, RefWriteFails
    <2>5. ASSUME NEW t \in Threads, Step(t)
          PROVE  WriteCommit(t) \/ TruncateRef(t) \/ FillRef(t) \/ UNCHANGED objectStore
      BY <2>5 DEF Step, EndWrite, CheckFlag, MarkDirty, StartBuild, VisitEntry,
                  OpenWriteBack, FillWriteBack, FinishBuild
    <2>6. ASSUME NEW b \in Backends, Crash(b) PROVE UNCHANGED objectStore
      BY <2>6 DEF Crash
    <2>7. CASE UNCHANGED vars
      BY <2>7 DEF vars
    <2> QED
      BY <2>1, <2>3, <2>4, <2>5, <2>6, <2>7 DEF Next, ObjectStore!Next
  <1> QED
    BY <1>1, <1>2, InitHistory, HistoryInductive, PTL
       DEF Spec, ImplementsCommitHistory, ObjectStore!Spec

-----------------------------------------------------------------------------
(* The mutex and the flag                                                   *)

LockInv == HistoryInv /\ FlagMatchesBuilder

\* A thread that moves within the locked, the building or the other locations
\* disturbs neither the mutex nor the flag.
LEMMA PlainMove ==
  ASSUME LockInv, NEW t \in Threads, NEW l \in Locations, Goto(t, l),
         UNCHANGED <<inProgress, repoLock>>,
         l \in Locked <=> pc[t] \in Locked, l \in Building <=> pc[t] \in Building
  PROVE  FlagMatchesBuilder'
  BY DEF LockInv, HistoryInv, TypeOK, FlagMatchesBuilder, Goto, Backend

\* An error path that gives the mutex and the flag back.
LEMMA Release ==
  ASSUME LockInv, NEW t \in Threads, pc[t] \in Locked, NEW l \in Locations \ Locked,
         Goto(t, l), Unlock(t), ClearFlag(t) \/ (UNCHANGED inProgress /\ pc[t] \notin Building)
  PROVE  FlagMatchesBuilder'
  <1>1. /\ pc \in [Threads -> Locations]
        /\ inProgress \in [Backends -> BOOLEAN]
        /\ repoLock \in [Backends -> Threads \cup {Free}]
    BY DEF LockInv, HistoryInv, TypeOK
  <1>2. \A u \in Threads : Backend(u) \in Backends /\ u # Free
    BY ProtocolAssumption DEF Backend
  <1>3. /\ \A b \in Backends, u \in Threads : repoLock[b] = u => Backend(u) = b
        /\ \A u \in Threads : pc[u] \in Locked <=> repoLock[Backend(u)] = u
        /\ \A b \in Backends : inProgress[b] <=> \E u \in Threads : repoLock[b] = u /\ pc[u] \in Building
    BY DEF LockInv, FlagMatchesBuilder
  <1>4. /\ \A u \in Threads : pc'[u] = IF u = t THEN l ELSE pc[u]
        /\ \A b \in Backends : repoLock'[b] = IF b = Backend(t) THEN Free ELSE repoLock[b]
        /\ \A b \in Backends \ {Backend(t)} : inProgress'[b] = inProgress[b]
    BY <1>1 DEF Goto, Unlock, ClearFlag
  <1>5. repoLock[Backend(t)] = t
    BY <1>3
  <1>6. ~inProgress'[Backend(t)]
    BY <1>1, <1>2, <1>3, <1>5 DEF ClearFlag
  <1>7. \A b \in Backends, u \in Threads : repoLock'[b] = u => Backend(u) = b
    BY <1>2, <1>3, <1>4
  <1>8. \A u \in Threads : pc'[u] \in Locked <=> repoLock'[Backend(u)] = u
    BY <1>2, <1>3, <1>4, <1>5
  <1>9. ASSUME NEW b \in Backends
        PROVE  inProgress'[b] <=> \E u \in Threads : repoLock'[b] = u /\ pc'[u] \in Building
    <2>1. CASE b = Backend(t)
      BY <1>2, <1>4, <1>6, <2>1
    <2>2. CASE b # Backend(t)
      BY <1>3, <1>4, <1>5, <2>2
    <2> QED
      BY <2>1, <2>2
  <1> QED
    BY <1>7, <1>8, <1>9 DEF FlagMatchesBuilder

LEMMA LockStep == LockInv /\ HistoryInv' /\ [Next]_vars => FlagMatchesBuilder'
  <1> SUFFICES ASSUME LockInv, HistoryInv', [Next]_vars PROVE FlagMatchesBuilder'
    OBVIOUS
  <1> USE DEF shared
  <1>a. /\ Locations = Locked \cup UpdatingRef \cup {Idle, "fill", "filled", "mark", "lock"}
        /\ Locked = Building \cup {"start", "object"}
        /\ Building = {"build", "wbOpen", "wbFill"}
        /\ UpdatingRef = {"refOpen", "refFill"}
        /\ Idle = "idle"
    BY DEF Locations, Locked, Building, UpdatingRef, Idle
  <1>b. ASSUME NEW t \in Threads, Return(t) PROVE Goto(t, Idle)
    BY <1>b DEF Return
  <1>1. ASSUME NEW t \in Threads, ApiCall(t) PROVE FlagMatchesBuilder'
    <2>1. CASE DeleteFile(t) \/ Rename(t)
      BY <2>1 DEF DeleteFile, Rename, LockInv, FlagMatchesBuilder
    <2>2. CASE BeginWrite(t)
      BY <1>a, <2>2, PlainMove DEF BeginWrite, Call
    <2>3. CASE Flush(t)
      BY <1>a, <2>3, PlainMove DEF Flush, Call
    <2>4. CASE Commit(t)
      BY <1>a, <2>4, PlainMove DEF Commit, Call
    <2> QED
      BY <1>1, <2>1, <2>2, <2>3, <2>4 DEF ApiCall
  <1>2. ASSUME NEW t \in Threads, AcquireRepo(t) PROVE FlagMatchesBuilder'
    <2> USE ProtocolAssumption DEF LockInv, HistoryInv, TypeOK, FlagMatchesBuilder, Backend
    <2>1. /\ repoLock[Backend(t)] = Free /\ pc[t] = "lock"
          /\ repoLock' = [repoLock EXCEPT ![Backend(t)] = t]
          /\ pc' = [pc EXCEPT ![t] = "start"] /\ UNCHANGED inProgress
      BY <1>2 DEF AcquireRepo, Goto
    <2>2. \A b \in Backends, u \in Threads : repoLock'[b] = u => Backend(u) = b
      BY <2>1
    <2>3. ASSUME NEW u \in Threads
          PROVE  pc'[u] \in Locked <=> repoLock'[Backend(u)] = u
      <3>1. CASE u = t
        BY <1>a, <2>1, <3>1
      <3>2. CASE u # t
        <4>1. pc'[u] = pc[u]
          BY <2>1, <3>2
        <4>2. repoLock'[Backend(u)] = u <=> repoLock[Backend(u)] = u
          BY <2>1, <3>2
        <4> QED
          BY <4>1, <4>2
      <3> QED
        BY <3>1, <3>2
    <2>4. ASSUME NEW b \in Backends
          PROVE  inProgress'[b] <=> \E u \in Threads : repoLock'[b] = u /\ pc'[u] \in Building
      BY <1>a, <2>1
    <2> QED
      BY <2>2, <2>3, <2>4
  <1>3. ASSUME NEW t \in Threads, Step(t) PROVE FlagMatchesBuilder'
    <2>1. CASE EndWrite(t)
      BY <1>a, <2>1, PlainMove DEF EndWrite
    <2>2. CASE CheckFlag(t)
      <3>1. Goto(t, "mark") \/ Goto(t, Idle)
        BY <1>b, <2>2 DEF CheckFlag
      <3> QED
        BY <1>a, <2>2, <3>1, PlainMove DEF CheckFlag
    <2>3. CASE MarkDirty(t)
      <3>1. Goto(t, "lock") \/ Goto(t, Idle)
        BY <1>b, <2>3 DEF MarkDirty
      <3> QED
        BY <1>a, <2>3, <3>1, PlainMove DEF MarkDirty
    <2>4. CASE StartBuild(t)
      <3> USE ProtocolAssumption DEF LockInv, HistoryInv, TypeOK, FlagMatchesBuilder, Backend
      <3>1. /\ pc[t] = "start" /\ pc' = [pc EXCEPT ![t] = "build"]
            /\ inProgress' = [inProgress EXCEPT ![Backend(t)] = TRUE] /\ UNCHANGED repoLock
        BY <2>4 DEF StartBuild, Goto
      <3>2. repoLock[Backend(t)] = t
        BY <1>a, <3>1
      <3>3. \A u \in Threads : pc'[u] \in Locked <=> repoLock'[Backend(u)] = u
        BY <1>a, <3>1
      <3>4. ASSUME NEW b \in Backends
            PROVE  inProgress'[b] <=> \E u \in Threads : repoLock'[b] = u /\ pc'[u] \in Building
        BY <1>a, <3>1, <3>2
      <3> QED
        BY <3>1, <3>3, <3>4
    <2>5. CASE VisitEntry(t)
      <3>1. UNCHANGED pc \/ Goto(t, "wbOpen")
        BY <2>5 DEF VisitEntry
      <3>2. CASE UNCHANGED pc
        BY <2>5, <3>2 DEF VisitEntry, LockInv, FlagMatchesBuilder
      <3> QED
        BY <1>a, <2>5, <3>1, <3>2, PlainMove DEF VisitEntry
    <2>6. CASE OpenWriteBack(t)
      BY <1>a, <2>6, PlainMove DEF OpenWriteBack
    <2>7. CASE FillWriteBack(t)
      BY <1>a, <2>7, PlainMove DEF FillWriteBack
    <2>8. CASE FinishBuild(t)
      <3> USE ProtocolAssumption DEF LockInv, HistoryInv, TypeOK, FlagMatchesBuilder, Backend
      <3>1. /\ pc[t] = "build" /\ pc' = [pc EXCEPT ![t] = "object"]
            /\ inProgress' = [inProgress EXCEPT ![Backend(t)] = FALSE] /\ UNCHANGED repoLock
        BY <2>8 DEF FinishBuild, ClearFlag, Goto
      <3>2. repoLock[Backend(t)] = t
        BY <1>a, <3>1
      <3>3. \A u \in Threads : pc'[u] \in Locked <=> repoLock'[Backend(u)] = u
        BY <1>a, <3>1
      <3>4. ASSUME NEW b \in Backends
            PROVE  inProgress'[b] <=> \E u \in Threads : repoLock'[b] = u /\ pc'[u] \in Building
        BY <1>a, <3>1, <3>2
      <3> QED
        BY <3>1, <3>3, <3>4
    <2>9. CASE WriteCommit(t)
      BY <1>a, <2>9, Release DEF WriteCommit
    <2>10. CASE TruncateRef(t)
      BY <1>a, <2>10, PlainMove DEF TruncateRef
    <2>11. CASE FillRef(t)
      BY <1>a, <1>b, <2>11, PlainMove DEF FillRef
    <2> QED
      BY <1>3, <2>1, <2>2, <2>3, <2>4, <2>5, <2>6, <2>7, <2>8, <2>9, <2>10, <2>11 DEF Step
  <1>4. ASSUME NEW t \in Threads, Failure(t) PROVE FlagMatchesBuilder'
    <2>1. CASE WriteFails(t)
      BY <1>a, <1>b, <2>1, PlainMove DEF WriteFails
    <2>2. CASE WriteBackFails(t)
      BY <1>a, <2>2, PlainMove DEF WriteBackFails
    <2>3. CASE BuildFails(t)
      BY <1>a, <1>b, <2>3, Release DEF BuildFails
    <2>4. CASE ObjectWriteFails(t)
      BY <1>a, <1>b, <2>4, Release DEF ObjectWriteFails
    <2>5. CASE RefWriteFails(t)
      BY <1>a, <1>b, <2>5, PlainMove DEF RefWriteFails
    <2> QED
      BY <1>4, <2>1, <2>2, <2>3, <2>4, <2>5 DEF Failure
  <1>5. ASSUME NEW b \in Backends, Crash(b) PROVE FlagMatchesBuilder'
    BY <1>a, <1>5, ProtocolAssumption
       DEF Crash, LockInv, HistoryInv, TypeOK, FlagMatchesBuilder, Backend
  <1>6. CASE UNCHANGED vars
    BY <1>6 DEF vars, LockInv, FlagMatchesBuilder
  <1> QED
    BY <1>1, <1>2, <1>3, <1>4, <1>5, <1>6 DEF Next

\* The repo mutex and commit_in_progress agree with what the threads do, on
\* every error path and across crashes (git.rs:1490-1499, 1535-1564).
THEOREM LockSafe == Spec => []FlagMatchesBuilder
  <1>1. Init => FlagMatchesBuilder
    BY ProtocolAssumption
       DEF Init, FlagMatchesBuilder, Locked, Building, Idle, Backend
  <1>2. LockInv /\ [Next]_vars => LockInv'
    BY HistoryInductive, LockStep DEF LockInv
  <1>3. LockInv => FlagMatchesBuilder
    BY DEF LockInv
  <1>4. Init => LockInv
    BY <1>1, InitHistory DEF LockInv
  <1> QED
    BY <1>2, <1>3, <1>4, PTL DEF Spec
-----------------------------------------------------------------------------
(* HeadSurvives: while nothing has failed, the branch names a reported commit *)
(* or somebody is about to fill in one.                                    *)

HeadInv ==
    faults = 0 /\ acked # {} => ref \in acked \/ \E t \in Threads : pc[t] = "refFill"

\* Only the two halves of a ref's write touch the ref, and only they come and
\* go from the place between them.
LEMMA RefUntouched ==
  ASSUME TypeOK, NEW t \in Threads,
         \/ ApiCall(t) \/ AcquireRepo(t)
         \/ Step(t) /\ ~TruncateRef(t) /\ ~FillRef(t)
  PROVE  /\ UNCHANGED <<ref, acked, faults>>
         /\ \A u \in Threads : pc[u] = "refFill" => pc'[u] = "refFill"
  <1> USE DEF objectStore, bounds, history, TypeOK, Goto, Return, Idle
  <1>1. CASE ApiCall(t)
    BY <1>1 DEF ApiCall, Call, BeginWrite, DeleteFile, Rename, Flush, Commit
  <1>2. CASE AcquireRepo(t)
    BY <1>2 DEF AcquireRepo
  <1>3. CASE EndWrite(t) \/ CheckFlag(t) \/ MarkDirty(t)
    BY <1>3 DEF EndWrite, CheckFlag, MarkDirty
  <1>4. CASE StartBuild(t) \/ VisitEntry(t) \/ OpenWriteBack(t) \/ FillWriteBack(t)
    BY <1>4, Zenon DEF StartBuild, VisitEntry, OpenWriteBack, FillWriteBack
  <1>5. CASE FinishBuild(t) \/ WriteCommit(t)
    BY <1>5 DEF FinishBuild, WriteCommit
  <1> QED
    BY <1>1, <1>2, <1>3, <1>4, <1>5 DEF Step

\* With any threads and processes and while nothing fails: once every ref update
\* has returned the branch names a commit a caller was told about (git.rs:404-421).
THEOREM HeadIsReported == Spec => []HeadSurvives
  <1> DEFINE Inv == HistoryInv /\ HeadInv
  <1>1. Init => Inv
    BY InitHistory DEF Init, HeadInv
  <1>2. Inv /\ [Next]_vars => Inv'
    <2> SUFFICES ASSUME Inv, [Next]_vars PROVE HeadInv'
      BY HistoryInductive
    <2> USE DEF HistoryInv
    <2>1. CASE UNCHANGED vars
      BY <2>1 DEF vars, HeadInv
    <2>2. ASSUME NEW t \in Threads, ApiCall(t) \/ AcquireRepo(t) \/ Step(t)
          PROVE  HeadInv'
      <3>1. CASE TruncateRef(t)
        <4>1. pc'[t] = "refFill"
          BY <3>1 DEF TruncateRef, Goto, TypeOK
        <4> QED
          BY <4>1 DEF HeadInv
      <3>2. CASE FillRef(t)
        BY <3>2 DEF FillRef, NewHead, HeadInv
      <3>3. CASE ~TruncateRef(t) /\ ~FillRef(t)
        BY <2>2, <3>3, RefUntouched DEF HeadInv
      <3> QED
        BY <3>1, <3>2, <3>3
    <2>3. ASSUME faults' = faults + 1 PROVE HeadInv'
      BY <2>3 DEF HeadInv, TypeOK
    <2>4. ASSUME NEW t \in Threads, Failure(t) PROVE HeadInv'
      BY <2>3, <2>4 DEF Failure, WriteFails, WriteBackFails, BuildFails, ObjectWriteFails,
                        RefWriteFails, Fault
    <2>5. ASSUME NEW b \in Backends, Crash(b) PROVE HeadInv'
      BY <2>3, <2>5 DEF Crash, Fault
    <2> QED
      BY <2>1, <2>2, <2>4, <2>5 DEF Next
  <1>3. Inv => HeadSurvives
    BY DEF HeadInv, HeadSurvives, Quiescent, Idle
  <1> QED
    BY <1>1, <1>2, <1>3, PTL DEF Spec

-----------------------------------------------------------------------------
(* IgnoredNotCommitted: no tree that is being built has an ignored entry, for  *)
(* one could only come from a parent that has it.                            *)

IgnoreInv ==
    /\ IgnoredNotCommitted
    /\ \A t \in Threads, p \in Ignored : job[t].tree[p] = Absent
    /\ \A t \in Threads : pc[t] \in {"wbOpen", "wbFill"} => io[t].path \notin Ignored

\* A step that only empties trees, and starts no write-back.
LEMMA NothingIgnored ==
  ASSUME IgnoreInv, commits' = commits,
         \A u \in Threads : job'[u].tree \in {job[u].tree, EmptyTree},
         \A u \in Threads : \/ pc'[u] \notin {"wbOpen", "wbFill"}
                            \/ pc'[u] = pc[u] /\ io'[u] = io[u]
  PROVE  IgnoreInv'
  <1>1. \A p \in Ignored : EmptyTree[p] = Absent
    BY ProtocolAssumption DEF EmptyTree
  <1> QED
    BY <1>1 DEF IgnoreInv, IgnoredNotCommitted

\* What is reused was in the parent, and what the ignore rules exclude was not.
LEMMA ReusedNotIgnored ==
  ASSUME HistoryInv, IgnoreInv, NEW t \in Threads, NEW p \in Ignored
  PROVE  ~Reused(t, p)
  <1>1. SUFFICES ASSUME Incremental(t) PROVE commits[job[t].parent].tree[p] = Absent
    BY DEF Reused
  <1>2. job[t].parent \in Nat \ {0} /\ job[t].parent <= Len(commits) /\ Len(commits) \in Nat
    BY <1>1 DEF Incremental, HistoryInv, HistoryWellFormed, TypeOK, JobType, NoCommit
  <1>3. job[t].parent \in DOMAIN commits
    BY <1>2 DEF HistoryInv, TypeOK
  <1> QED
    BY <1>3 DEF IgnoreInv, IgnoredNotCommitted

LEMMA IgnoreBuild ==
  ASSUME HistoryInv, IgnoreInv, NEW t \in Threads,
         VisitEntry(t) \/ OpenWriteBack(t) \/ FillWriteBack(t)
  PROVE  IgnoreInv'
  <1> USE ProtocolAssumption
  <1>0. /\ job \in [Threads -> JobType] /\ io \in [Threads -> IOType]
        /\ pc \in [Threads -> Locations]
        /\ \A u \in Threads : job[u].tree \in Trees
    BY DEF HistoryInv, TypeOK, JobType
  <1>1. commits' = commits
    BY Zenon DEF VisitEntry, OpenWriteBack, FillWriteBack, objectStore
  <1>2. CASE VisitEntry(t)
    <2>1. PICK p \in job[t].todo :
              LET next == [job[t] EXCEPT !.todo = @ \ {p}]
              IN  \/ /\ Skipped(t, p)
                     /\ job' = [job EXCEPT ![t] = next]
                     /\ UNCHANGED <<pc, io>>
                  \/ /\ ~Skipped(t, p) /\ Reused(t, p)
                     /\ job' = [job EXCEPT ![t] =
                           [next EXCEPT !.tree[p] = commits[job[t].parent].tree[p]]]
                     /\ UNCHANGED <<pc, io>>
                  \/ /\ ~Skipped(t, p) /\ ~Reused(t, p)
                     /\ job' = [job EXCEPT ![t] = next]
                     /\ io' = [io EXCEPT ![t] = [path |-> p, val |-> ReadEntry(p), fd |-> NoFile]]
                     /\ Goto(t, "wbOpen")
      BY <1>2, Zenon DEF VisitEntry
    <2> DEFINE next == [job[t] EXCEPT !.todo = @ \ {p}]
    <2>2. p \in Paths /\ next.tree = job[t].tree /\ next \in JobType
      BY <1>0 DEF JobType
    <2>3. CASE job' = [job EXCEPT ![t] = next] /\ UNCHANGED <<pc, io>>
      <3>1. \A u \in Threads : job'[u].tree = job[u].tree
        BY <1>0, <2>2, <2>3
      <3> QED
        BY <1>1, <2>3, <3>1, NothingIgnored
    <2>4. CASE /\ Reused(t, p) /\ UNCHANGED <<pc, io>>
               /\ job' = [job EXCEPT ![t] =
                            [next EXCEPT !.tree[p] = commits[job[t].parent].tree[p]]]
      <3>1. p \notin Ignored
        BY <2>4, ReusedNotIgnored
      <3>2. \A u \in Threads, q \in Ignored : job'[u].tree[q] = job[u].tree[q]
        BY <1>0, <2>2, <2>4, <3>1 DEF JobType, Trees
      <3> QED
        BY <1>1, <2>4, <3>2 DEF IgnoreInv, IgnoredNotCommitted
    <2>5. CASE /\ ~Skipped(t, p) /\ ~Reused(t, p)
               /\ job' = [job EXCEPT ![t] = next]
               /\ io' = [io EXCEPT ![t] = [path |-> p, val |-> ReadEntry(p), fd |-> NoFile]]
               /\ Goto(t, "wbOpen")
      <3>1. p \notin Ignored
        BY <2>5 DEF Skipped
      <3>2. \A u \in Threads : job'[u].tree = job[u].tree
        BY <1>0, <2>2, <2>5
      <3>3. io'[t].path = p /\ \A u \in Threads : u # t => io'[u] = io[u] /\ pc'[u] = pc[u]
        BY <1>0, <2>5 DEF Goto
      <3> QED
        BY <1>1, <3>1, <3>2, <3>3 DEF IgnoreInv, IgnoredNotCommitted
    <2> QED
      BY <2>1, <2>3, <2>4, <2>5
  <1>3. CASE OpenWriteBack(t)
    <2>1. /\ io'[t].path = io[t].path /\ pc[t] = "wbOpen" /\ job' = job
          /\ \A u \in Threads : u # t => io'[u] = io[u] /\ pc'[u] = pc[u]
      BY <1>0, <1>3 DEF OpenWriteBack, OpenTruncate, Goto
    <2> QED
      BY <1>1, <2>1 DEF IgnoreInv, IgnoredNotCommitted
  <1>4. CASE FillWriteBack(t)
    <2>1. /\ pc[t] = "wbFill" /\ pc'[t] = "build"
          /\ \A u \in Threads : u # t => io'[u] = io[u] /\ pc'[u] = pc[u]
      BY <1>0, <1>4 DEF FillWriteBack, Goto
    <2>2. io[t].path \notin Ignored
      BY <2>1 DEF IgnoreInv
    <2>3. \A u \in Threads, q \in Ignored : job'[u].tree[q] = job[u].tree[q]
      BY <1>0, <1>4, <2>2 DEF FillWriteBack, JobType, Trees
    <2> QED
      BY <1>1, <2>1, <2>3 DEF IgnoreInv, IgnoredNotCommitted
  <1> QED
    BY <1>2, <1>3, <1>4

\* Every step but those of a build and the commit of its tree.
LEMMA IgnoreOther ==
  ASSUME HistoryInv, IgnoreInv, NEW t \in Threads,
         \/ ApiCall(t) \/ AcquireRepo(t) \/ Failure(t)
         \/ EndWrite(t) \/ CheckFlag(t) \/ MarkDirty(t) \/ StartBuild(t) \/ FinishBuild(t)
         \/ TruncateRef(t) \/ FillRef(t)
  PROVE  IgnoreInv'
  <1> USE DEF objectStore
  <1>0. /\ job \in [Threads -> JobType] /\ io \in [Threads -> IOType]
        /\ pc \in [Threads -> Locations]
    BY DEF HistoryInv, TypeOK
  <1> DEFINE keeps == \A u \in Threads : job'[u].tree \in {job[u].tree, EmptyTree}
             moves == \A u \in Threads : \/ pc'[u] \notin {"wbOpen", "wbFill"}
                                         \/ pc'[u] = pc[u] /\ io'[u] = io[u]
  <1>1. SUFFICES commits' = commits /\ keeps /\ moves
    BY NothingIgnored
  <1>2. ASSUME Return(t) PROVE keeps /\ moves
    <2>1. \A u \in Threads : job'[u] = job[u] \/ job'[u].tree = EmptyTree
      BY <1>0, <1>2 DEF Return, NoJob
    <2>2. \A u \in Threads : pc'[u] = Idle \/ (pc'[u] = pc[u] /\ io'[u] = io[u])
      BY <1>0, <1>2 DEF Return, Goto
    <2> QED
      BY <2>1, <2>2 DEF Idle
  <1>3. ASSUME NEW l, l \notin {"wbOpen", "wbFill"}, Goto(t, l),
               \A u \in Threads : u # t => io'[u] = io[u]
        PROVE  moves
    BY <1>0, <1>3 DEF Goto
  <1>4. ASSUME NEW new, \/ job' = job
                        \/ job' = [job EXCEPT ![t].paths = new]
                        \/ job' = [job EXCEPT ![t].todo = new]
                        \/ job' = [job EXCEPT ![t].full = new]
                        \/ job' = [job EXCEPT ![t].parent = new]
        PROVE  keeps
    BY <1>0, <1>4 DEF JobType
  <1>5. CASE ApiCall(t)
    <2>1. CASE BeginWrite(t)
      <3>1. PICK p \in Own[t], v \in Contents : OpenTruncate(t, p, v)
        BY <2>1 DEF BeginWrite
      <3>2. \A u \in Threads : u # t => io'[u] = io[u]
        BY <1>0, <3>1 DEF OpenTruncate
      <3> QED
        BY <1>3, <1>4, <2>1, <3>2 DEF BeginWrite
    <2>2. CASE DeleteFile(t) \/ Rename(t)
      BY <2>2, <1>4 DEF DeleteFile, Rename
    <2>3. CASE Flush(t) \/ Commit(t)
      <3>1. /\ Goto(t, "lock") /\ io' = io /\ commits' = commits
            /\ \E new : \/ job' = [job EXCEPT ![t].paths = new]
                        \/ job' = [job EXCEPT ![t].full = new]
        BY <2>3 DEF Flush, Commit
      <3> QED
        BY <1>3, <1>4, <3>1
    <2> QED
      BY <1>5, <2>1, <2>2, <2>3 DEF ApiCall
  <1>6. CASE AcquireRepo(t) \/ StartBuild(t) \/ FinishBuild(t)
    <2>1. /\ \E l : l \notin {"wbOpen", "wbFill"} /\ Goto(t, l)
          /\ io' = io /\ commits' = commits
          /\ \E new : \/ job' = job
                      \/ job' = [job EXCEPT ![t].todo = new]
                      \/ job' = [job EXCEPT ![t].parent = new]
      BY <1>6 DEF AcquireRepo, StartBuild, FinishBuild
    <2> QED
      BY <1>3, <1>4, <2>1
  <1>7. CASE EndWrite(t) \/ CheckFlag(t) \/ MarkDirty(t) \/ TruncateRef(t) \/ FillRef(t)
    <2>1. commits' = commits
      BY <1>7 DEF EndWrite, CheckFlag, MarkDirty, TruncateRef, FillRef
    <2>2. \/ Return(t)
          \/ /\ \E l : l \notin {"wbOpen", "wbFill"} /\ Goto(t, l)
             /\ io' = io
             /\ \E new : job' = job \/ job' = [job EXCEPT ![t].paths = new]
      BY <1>7 DEF EndWrite, CheckFlag, MarkDirty, TruncateRef, FillRef
    <2> QED
      BY <1>2, <1>3, <1>4, <2>1, <2>2
  <1>8. CASE Failure(t)
    <2>1. commits' = commits
      BY <1>8 DEF Failure, WriteFails, WriteBackFails, BuildFails, ObjectWriteFails, RefWriteFails
    <2>2. CASE WriteBackFails(t)
      <3>1. /\ Goto(t, "build") /\ job' = job
            /\ \A u \in Threads : u # t => io'[u] = io[u]
        BY <1>0, <2>2 DEF WriteBackFails
      <3> QED
        BY <1>3, <1>4, <2>1, <3>1
    <2>3. CASE Return(t)
      BY <1>2, <2>1, <2>3
    <2> QED
      BY <1>8, <2>2, <2>3 DEF Failure, WriteFails, BuildFails, ObjectWriteFails, RefWriteFails
  <1> QED
    BY <1>5, <1>6, <1>7, <1>8

LEMMA IgnoreCommit ==
  ASSUME HistoryInv, IgnoreInv, NEW t \in Threads, WriteCommit(t)
  PROVE  IgnoreInv'
  <1> DEFINE new == [parent |-> Parent(t), tree |-> job[t].tree]
  <1>1. /\ commits' = Append(commits, new) /\ io' = io
        /\ job' = [job EXCEPT ![t].id = Len(commits')]
        /\ pc' = [pc EXCEPT ![t] = "refOpen"]
    BY DEF WriteCommit, Goto
  <1>2. commits \in Seq(CommitType) /\ job \in [Threads -> JobType] /\ pc \in [Threads -> Locations]
    BY DEF HistoryInv, TypeOK
  <1>3. \A c \in DOMAIN commits' : (c \in DOMAIN commits /\ commits'[c] = commits[c]) \/ commits'[c] = new
    <2> HIDE DEF new
    <2> QED
      BY <1>1, <1>2
  <1>4. \A p \in Ignored : new.tree[p] = Absent
    BY DEF IgnoreInv
  <1>5. IgnoredNotCommitted'
    BY <1>3, <1>4 DEF IgnoreInv, IgnoredNotCommitted
  <1>6. \A u \in Threads : job'[u].tree = job[u].tree
    BY <1>1, <1>2 DEF JobType
  <1>7. \A u \in Threads : pc'[u] \in {"wbOpen", "wbFill"} => pc'[u] = pc[u]
    BY <1>1, <1>2
  <1> QED
    BY <1>1, <1>5, <1>6, <1>7 DEF IgnoreInv

\* Whatever is built in full or incrementally, by whichever threads and processes,
\* and whatever fails, no commit has a file the ignore rules exclude
\* (git.rs:1117-1148, 1284-1320, 1396-1464).
THEOREM IgnoredStayOut == Spec => []IgnoredNotCommitted
  <1> DEFINE Inv == HistoryInv /\ IgnoreInv
  <1>1. Init => Inv
    <2>1. ASSUME Init PROVE IgnoreInv
      <3>1. commits = <<>> /\ \A t \in Threads : pc[t] = Idle /\ job[t].tree = EmptyTree
        BY <2>1 DEF Init, NoJob
      <3>2. \A p \in Ignored : EmptyTree[p] = Absent
        BY ProtocolAssumption DEF EmptyTree
      <3> QED
        BY <3>1, <3>2 DEF IgnoreInv, IgnoredNotCommitted, Idle
    <2> QED
      BY <2>1, InitHistory
  <1>2. Inv /\ [Next]_vars => Inv'
    <2> SUFFICES ASSUME Inv, [Next]_vars PROVE IgnoreInv'
      BY HistoryInductive
    <2>1. CASE UNCHANGED vars
      BY <2>1 DEF vars, IgnoreInv, IgnoredNotCommitted
    <2>2. ASSUME NEW b \in Backends, Crash(b) PROVE IgnoreInv'
      <3>1. /\ commits' = commits
            /\ \A u \in Threads : \/ pc'[u] = pc[u] /\ io'[u] = io[u] /\ job'[u] = job[u]
                                  \/ pc'[u] = Idle /\ job'[u] = NoJob
        BY <2>2 DEF Crash, objectStore
      <3>2. \A u \in Threads : job'[u].tree \in {job[u].tree, EmptyTree}
        BY <3>1 DEF NoJob
      <3> QED
        BY <3>1, <3>2, NothingIgnored DEF Idle
    <2>3. ASSUME NEW t \in Threads, Step(t) PROVE IgnoreInv'
      BY <2>3, IgnoreBuild, IgnoreOther, IgnoreCommit DEF Step
    <2> QED
      BY <2>1, <2>2, <2>3, IgnoreOther DEF Next
  <1>3. Inv => IgnoredNotCommitted
    BY DEF IgnoreInv
  <1> QED
    BY <1>1, <1>2, <1>3, PTL DEF Spec

-----------------------------------------------------------------------------
(* One thread, and no failures: the commits form one line.  The lemmas take    *)
(* the thread as a parameter.                                              *)

LEMMA NothingFails ==
  ASSUME MaxFaults = 0, TypeOK
  PROVE  /\ \A t \in Threads : ~Failure(t)
         /\ \A b \in Backends : ~Crash(b)
  <1>1. ~Fault
    BY DEF Fault, TypeOK
  <1> QED
    BY <1>1 DEF Failure, WriteFails, WriteBackFails, BuildFails, ObjectWriteFails,
                RefWriteFails, Crash

LineInv(t) ==
    /\ pc[t] \notin UpdatingRef => ref = Len(commits)
    /\ pc[t] \in UpdatingRef => job[t].id = Len(commits) /\ Len(commits) # 0
    /\ pc[t] \in Locked => job[t].parent = IF job[t].full THEN NoCommit ELSE ref
    /\ \A c \in DOMAIN commits : commits[c].parent = c - 1
    /\ acked \subseteq DOMAIN commits

\* A step within the first half of a call, or within a build.
LEMMA LineStays ==
  ASSUME NEW t \in Threads, LineInv(t), UNCHANGED <<commits, ref, acked>>,
         pc[t] \notin UpdatingRef, pc'[t] \notin UpdatingRef,
         \/ pc'[t] \notin Locked
         \/ /\ pc[t] \in Locked
            /\ job'[t].parent = job[t].parent /\ job'[t].full = job[t].full
  PROVE  LineInv(t)'
  BY DEF LineInv

LEMMA LineStep ==
  ASSUME NEW t \in Threads, HistoryInv, LineInv(t), ApiCall(t) \/ AcquireRepo(t) \/ Step(t)
  PROVE  LineInv(t)'
  <1> USE DEF objectStore, history, shared, Locked, Building, UpdatingRef, Idle
  <1>0. /\ job \in [Threads -> JobType] /\ pc \in [Threads -> Locations]
        /\ commits \in Seq(CommitType) /\ ref \in Nat /\ acked \subseteq Nat
    BY DEF HistoryInv, TypeOK
  <1>a. ASSUME Return(t) PROVE pc'[t] = "idle"
    BY <1>0, <1>a DEF Return, Goto
  <1>1. CASE ApiCall(t)
    <2>1. UNCHANGED <<commits, ref, acked>>
      BY <1>1, Zenon DEF ApiCall, BeginWrite, DeleteFile, Rename, Flush, Commit
    <2>2. pc[t] = "idle" /\ pc'[t] \in {"idle", "fill", "lock"}
      BY <1>0, <1>1 DEF ApiCall, BeginWrite, DeleteFile, Rename, Flush, Commit, Call, Goto
    <2> QED
      BY <2>1, <2>2, LineStays
  <1>2. CASE AcquireRepo(t)
    <2>1. /\ UNCHANGED <<commits, ref, acked>> /\ pc[t] = "lock" /\ pc'[t] = "start"
          /\ job' = [job EXCEPT ![t].parent = IF job[t].full THEN NoCommit ELSE ref]
      BY <1>0, <1>2 DEF AcquireRepo, Goto
    <2>2. /\ job'[t].full = job[t].full
          /\ job'[t].parent = IF job[t].full THEN NoCommit ELSE ref
      BY <1>0, <2>1 DEF JobType
    <2> QED
      BY <2>1, <2>2 DEF LineInv
  <1>3. CASE EndWrite(t) \/ CheckFlag(t) \/ MarkDirty(t)
    <2>1. /\ UNCHANGED <<commits, ref, acked>> /\ pc[t] \in {"fill", "filled", "mark"}
          /\ pc'[t] \in {"filled", "mark", "lock", "idle"}
      BY <1>0, <1>3, <1>a DEF EndWrite, CheckFlag, MarkDirty, Goto
    <2> QED
      BY <2>1, LineStays
  <1>4. CASE StartBuild(t) \/ OpenWriteBack(t) \/ FillWriteBack(t) \/ FinishBuild(t)
    <2>1. /\ UNCHANGED <<commits, ref, acked>> /\ pc[t] \in {"start", "wbOpen", "wbFill", "build"}
          /\ pc'[t] \in {"build", "wbFill", "object"}
      BY <1>0, <1>4 DEF StartBuild, OpenWriteBack, FillWriteBack, FinishBuild, Goto
    <2>2. PICK todo, tree : \/ job' = job \/ job' = [job EXCEPT ![t].todo = todo]
                            \/ job' = [job EXCEPT ![t].tree[io[t].path] = tree]
      BY <1>4 DEF StartBuild, OpenWriteBack, FillWriteBack, FinishBuild
    <2>3. job'[t].parent = job[t].parent /\ job'[t].full = job[t].full
      BY <1>0, <2>2 DEF JobType
    <2> QED
      BY <2>1, <2>3, LineStays
  <1>5. CASE VisitEntry(t)
    <2>1. /\ UNCHANGED <<commits, ref, acked>> /\ pc[t] = "build"
          /\ pc'[t] \in {"build", "wbOpen"}
      BY <1>0, <1>5 DEF VisitEntry, Goto
    <2>2. PICK p, entry : \/ job' = [job EXCEPT ![t] = [job[t] EXCEPT !.todo = @ \ {p}]]
                          \/ job' = [job EXCEPT ![t] =
                                 [[job[t] EXCEPT !.todo = @ \ {p}] EXCEPT !.tree[p] = entry]]
      BY <1>5, Zenon DEF VisitEntry
    <2>3. job'[t].parent = job[t].parent /\ job'[t].full = job[t].full
      BY <1>0, <2>2 DEF JobType
    <2> QED
      BY <2>1, <2>3, LineStays
  <1>6. CASE WriteCommit(t)
    <2> DEFINE new == [parent |-> Parent(t), tree |-> job[t].tree]
    <2>1. /\ commits' = Append(commits, new) /\ UNCHANGED <<ref, acked>>
          /\ pc[t] = "object" /\ pc'[t] = "refOpen"
          /\ job' = [job EXCEPT ![t].id = Len(commits')]
      BY <1>0, <1>6 DEF WriteCommit, Goto
    <2>2. Parent(t) = Len(commits)
      BY <2>1 DEF LineInv, Parent
    <2>3. /\ Len(commits') = Len(commits) + 1 /\ DOMAIN commits' = 1..Len(commits) + 1
          /\ DOMAIN commits = 1..Len(commits)
          /\ \A c \in DOMAIN commits : commits'[c] = commits[c]
          /\ commits'[Len(commits) + 1] = new
      <3> HIDE DEF new
      <3> QED
        BY <1>0, <2>1
    <2>4. \A c \in DOMAIN commits' : commits'[c].parent = c - 1
      <3>1. new.parent = Len(commits)
        BY <2>2
      <3>2. Len(commits) \in Nat
        BY <1>0
      <3> HIDE DEF new
      <3> QED
        BY <2>3, <3>1, <3>2 DEF LineInv
    <2>5. job'[t].id = Len(commits')
      BY <1>0, <2>1 DEF JobType
    <2> HIDE DEF new
    <2> QED
      BY <1>0, <2>1, <2>3, <2>4, <2>5 DEF LineInv
  <1>7. CASE TruncateRef(t)
    <2>1. /\ UNCHANGED <<commits, acked, job>> /\ pc[t] = "refOpen" /\ pc'[t] = "refFill"
      BY <1>0, <1>7 DEF TruncateRef, Goto
    <2> QED
      BY <2>1 DEF LineInv
  <1>8. CASE FillRef(t)
    <2>1. /\ UNCHANGED commits /\ pc[t] = "refFill" /\ pc'[t] = "idle"
          /\ ref' = job[t].id /\ acked' = acked \cup {job[t].id}
      BY <1>8, <1>a DEF FillRef, NewHead
    <2>2. job[t].id = Len(commits) /\ Len(commits) \in DOMAIN commits
      BY <1>0, <2>1 DEF LineInv
    <2> QED
      BY <2>1, <2>2 DEF LineInv
  <1> QED
    BY <1>1, <1>2, <1>3, <1>4, <1>5, <1>6, <1>7, <1>8 DEF Step

LEMMA LineInit ==
  ASSUME Init, NEW t \in Threads
  PROVE  LineInv(t)
  BY DEF Init, LineInv, UpdatingRef, Locked, Building, Idle, NoCommit

LEMMA LineInductive ==
  ASSUME NEW t, Threads = {t}, MaxFaults = 0, HistoryInv, LineInv(t), [Next]_vars
  PROVE  LineInv(t)'
  <1>1. CASE UNCHANGED vars
    BY <1>1 DEF vars, LineInv
  <1>2. CASE Next
    <2>1. ApiCall(t) \/ AcquireRepo(t) \/ Step(t)
      BY <1>2, NothingFails DEF Next, HistoryInv
    <2> QED
      BY <2>1, LineStep
  <1> QED
    BY <1>1, <1>2

\* The head is the last commit that was written.
LEMMA HeadIsLast ==
  ASSUME NEW t, Threads = {t}, LineInv(t)
  PROVE  HeadCommit = Len(commits)
  <1>1. CASE pc[t] \in UpdatingRef
    <2>1. (CHOOSE u \in Threads : pc[u] \in UpdatingRef) = t
      BY <1>1
    <2> QED
      BY <1>1, <2>1 DEF HeadCommit, LineInv
  <1>2. CASE pc[t] \notin UpdatingRef
    BY <1>2 DEF HeadCommit, LineInv
  <1> QED
    BY <1>1, <1>2

\* Commits are written by WriteCommit alone.
LEMMA CommitsUntouched ==
  ASSUME NEW t \in Threads,
         ApiCall(t) \/ AcquireRepo(t) \/ (Step(t) /\ ~WriteCommit(t))
  PROVE  UNCHANGED commits
  <1> USE DEF objectStore
  <1>1. CASE ApiCall(t) \/ AcquireRepo(t)
    BY <1>1, Zenon DEF ApiCall, BeginWrite, DeleteFile, Rename, Flush, Commit, AcquireRepo
  <1>2. CASE Step(t) /\ ~WriteCommit(t)
    BY <1>2, Zenon DEF Step, EndWrite, CheckFlag, MarkDirty, StartBuild, VisitEntry,
                OpenWriteBack, FillWriteBack, FinishBuild, TruncateRef, FillRef
  <1> QED
    BY <1>1, <1>2

\* One thread at a time and without failures, each commit has the head as its
\* parent and becomes the head, although the ref is written in two halves and
\* after the mutex was released (git.rs:404-421, 1489-1567).
THEOREM RefinesLinearHistory ==
  ASSUME NEW t, Threads = {t}, MaxFaults = 0
  PROVE  Spec => ImplementsLinearHistory
  <1> DEFINE Inv == HistoryInv /\ LineInv(t)
  <1>1. Init => Inv
    BY InitHistory, LineInit
  <1>2. Inv /\ [Next]_vars => Inv'
    BY HistoryInductive, LineInductive
  <1>3. Init => Linear!Init
    <2> SUFFICES ASSUME Init PROVE Linear!Init
      OBVIOUS
    <2>1. commits = <<>> /\ HeadCommit = Len(commits)
      BY LineInit, HeadIsLast DEF Init
    <2> QED
      BY <2>1 DEF Linear!Init
  <1>4. Inv /\ Inv' /\ [Next]_vars => [Linear!Next]_(Linear!vars)
    <2> SUFFICES ASSUME Inv, Inv', [Next]_vars
                 PROVE  Linear!Next \/ UNCHANGED <<commits, HeadCommit>>
      BY DEF Linear!vars
    <2>1. HeadCommit = Len(commits)
      BY HeadIsLast
    <2>2. HeadCommit' = Len(commits')
      <3>1. CASE pc'[t] \in UpdatingRef
        <4>1. (CHOOSE u \in Threads : pc'[u] \in UpdatingRef) = t
          BY <3>1
        <4> QED
          BY <3>1, <4>1 DEF HeadCommit, LineInv
      <3>2. CASE pc'[t] \notin UpdatingRef
        BY <3>2 DEF HeadCommit, LineInv
      <3> QED
        BY <3>1, <3>2
    <2>3. CASE WriteCommit(t)
      <3>1. commits' = Append(commits, [parent |-> Parent(t), tree |-> job[t].tree])
        BY <2>3 DEF WriteCommit
      <3>2. Parent(t) = HeadCommit
        BY <2>1, <2>3 DEF WriteCommit, Parent, LineInv, Locked, UpdatingRef, Building
      <3>3. job[t].tree \in Trees
        BY DEF HistoryInv, TypeOK, JobType
      <3>4. Linear!Commit
        BY <2>2, <3>1, <3>2, <3>3 DEF Linear!Commit
      <3> QED
        BY <3>4 DEF Linear!Next
    <2>4. CASE UNCHANGED commits
      BY <2>1, <2>2, <2>4
    <2>5. CASE Next
      <3>1. ApiCall(t) \/ AcquireRepo(t) \/ Step(t)
        BY <2>5, NothingFails DEF Next, HistoryInv
      <3> QED
        BY <2>3, <2>4, <3>1, CommitsUntouched
    <2> QED
      BY <2>4, <2>5 DEF vars
  <1> QED
    BY <1>1, <1>2, <1>3, <1>4, PTL DEF Spec, ImplementsLinearHistory, Linear!Spec

\* A set that has every number up to n whose predecessors it has, has them all.
LEMMA SegmentInduction ==
    ASSUME NEW S, NEW n \in Nat,
           \A k \in 0..n : (\A j \in 0..n : j < k => j \in S) => k \in S
    PROVE  0..n \subseteq S
<1> DEFINE Missing == 0..n \ S
           Less == OpToRel(<, Nat)
<1>1. \A T \in SUBSET Nat : T # {} => \E least \in T : \A k \in T : <<k, least>> \notin Less
  BY NatLessThanWellFounded, WFMin
<1>2. \A j, k \in Nat : j < k => <<j, k>> \in Less
  BY DEF OpToRel
<1>3. Missing \in SUBSET Nat
  OBVIOUS
<1>4. ASSUME NEW least \in Missing, \A k \in Missing : <<k, least>> \notin Less PROVE FALSE
  <2>1. ASSUME NEW j \in Missing PROVE ~(j < least)
    <3>1. j \in Nat /\ least \in Nat
      OBVIOUS
    <3> HIDE DEF Less, Missing
    <3> QED  BY <1>2, <1>4, <3>1
  <2> QED  BY <2>1
<1> HIDE DEF Missing, Less
<1>5. Missing = {}
  BY <1>1, <1>3, <1>4
<1> QED  BY <1>5 DEF Missing

\* The line of a commit is defined by recursion along the parents; in one line of
\* commits it has all that are not younger.
LEMMA LineageIsSegment ==
  ASSUME commits \in Seq(CommitType), \A c \in DOMAIN commits : commits[c].parent = c - 1,
         NEW c \in 0..Len(commits)
  PROVE  Lineage(c) = 1..c
  <1> DEFINE n == Len(commits)
             Def(line) == [k \in 0..n |-> IF k = NoCommit THEN {}
                                          ELSE {k} \cup line[commits[k].parent]]
             segments == [k \in 0..n |-> 1..k]
             chosen == CHOOSE line : line = Def(line)
  <1>1. n \in Nat /\ \A k \in 1..n : commits[k].parent = k - 1
    OBVIOUS
  <1>2. segments = Def(segments)
    <2> HIDE DEF n
    <2>1. ASSUME NEW k \in 0..n
          PROVE  1..k = IF k = NoCommit THEN {} ELSE {k} \cup segments[commits[k].parent]
      <3>1. CASE k = 0
        BY <3>1 DEF NoCommit
      <3>2. CASE k # 0
        <4>1. k \in 1..n /\ k - 1 \in 0..n /\ commits[k].parent = k - 1
          BY <1>1, <3>2
        <4>2. segments[commits[k].parent] = 1..(k - 1)
          BY <4>1
        <4>3. {k} \cup 1..(k - 1) = 1..k
          BY <1>1, <4>1
        <4> QED
          BY <3>2, <4>2, <4>3 DEF NoCommit
      <3> QED
        BY <3>1, <3>2
    <2> QED
      BY <2>1
  <1>3. chosen = Def(chosen)
    <2> HIDE DEF Def, segments
    <2> QED
      BY <1>2
  <1>4. \A k \in 0..n : chosen[k] = IF k = NoCommit THEN {} ELSE {k} \cup chosen[commits[k].parent]
    <2> HIDE DEF chosen, n
    <2> QED
      BY <1>3
  <1>5. 0..n \subseteq {k \in 0..n : chosen[k] = 1..k}
    <2> DEFINE S == {k \in 0..n : chosen[k] = 1..k}
    <2> HIDE DEF chosen, n
    <2>1. ASSUME NEW k \in 0..n, \A j \in 0..n : j < k => j \in S
          PROVE  k \in S
      <3>1. CASE k = 0
        <4>1. chosen[k] = {}
          BY <1>4, <3>1 DEF NoCommit
        <4>2. 1..k = {}
          BY <3>1
        <4> QED
          BY <4>1, <4>2
      <3>2. CASE k # 0
        <4>1. k \in 1..n /\ k - 1 \in 0..n /\ k - 1 < k
          BY <1>1, <3>2
        <4>2. chosen[k - 1] = 1..(k - 1)
          BY <2>1, <4>1
        <4>3. chosen[k] = {k} \cup chosen[k - 1]
          BY <1>1, <1>4, <4>1, <3>2 DEF NoCommit
        <4>4. {k} \cup 1..(k - 1) = 1..k
          BY <1>1, <4>1
        <4> QED
          BY <4>2, <4>3, <4>4
      <3> QED
        BY <3>1, <3>2
    <2> HIDE DEF S
    <2>2. 0..n \subseteq S
      BY <1>1, <2>1, SegmentInduction
    <2> QED
      BY <2>2 DEF S
  <1>6. Lineage(c) = chosen[c]
    BY DEF Lineage
  <1> QED
    BY <1>5, <1>6

\* One thread at a time and without failures, no commit that was reported drops
\* out of the history HEAD shows (git.rs:404-421, 1489-1567).
THEOREM ReportedCommitsStay ==
  ASSUME NEW t, Threads = {t}, MaxFaults = 0
  PROVE  Spec => []NoCommitLost
  <1> DEFINE Inv == HistoryInv /\ LineInv(t)
  <1>1. Init => Inv
    BY InitHistory, LineInit
  <1>2. Inv /\ [Next]_vars => Inv'
    BY HistoryInductive, LineInductive
  <1>3. Inv => NoCommitLost
    <2> SUFFICES ASSUME Inv, Quiescent PROVE acked \subseteq Lineage(ref)
      BY DEF NoCommitLost
    <2>1. ref = Len(commits) /\ acked \subseteq 1..Len(commits) /\ Len(commits) \in Nat
      BY DEF Quiescent, LineInv, UpdatingRef, Idle, HistoryInv, TypeOK
    <2>2. Lineage(ref) = 1..ref
      BY <2>1, LineageIsSegment DEF LineInv, HistoryInv, TypeOK
    <2> QED
      BY <2>1, <2>2
  <1> QED
    BY <1>1, <1>2, <1>3, PTL DEF Spec
-----------------------------------------------------------------------------
(* One thread, and no failures: the working tree is what the callers left.     *)

Filling == {"fill", "wbFill"}

\* No file has two names.
OneName == \A p, q \in Paths : dirent[p] = dirent[q] /\ dirent[p] # NoFile => p = q

\* Only the file that a thread has truncated and not yet filled differs from what
\* the callers put there, and what is written back is what they put there.
FilesInv(t) ==
    /\ OneName
    /\ \A p \in Paths : Content(p) = intent[p] \/ (pc[t] \in Filling /\ p = io[t].path)
    /\ pc[t] \in Filling => /\ dirent[io[t].path] = io[t].fd /\ io[t].fd # NoFile
                            /\ data[io[t].fd] = Empty
    /\ pc[t] \in {"wbOpen", "wbFill"} => io[t].val = intent[io[t].path]

\* Opening a file touches no other.
LEMMA OpenOne ==
  ASSUME TypeOK, OneName, NEW t \in Threads, NEW p \in Paths, NEW v \in FileContents,
         OpenTruncate(t, p, v)
  PROVE  /\ OneName'
         /\ \A q \in Paths : q # p => Content(q)' = Content(q)
         /\ io'[t] = [path |-> p, val |-> v, fd |-> dirent'[p]]
         /\ dirent'[p] # NoFile /\ data'[dirent'[p]] = Empty
  <1>1. PICK i \in Inodes :
            /\ i = dirent[p] \/ Unused(i)
            /\ dirent' = [dirent EXCEPT ![p] = i]
            /\ data' = [data EXCEPT ![i] = Empty]
            /\ io' = [io EXCEPT ![t] = [path |-> p, val |-> v, fd |-> i]]
    BY DEF OpenTruncate
  <1>2. /\ dirent \in [Paths -> Inodes \cup {NoFile}] /\ data \in [Inodes -> FileContents]
        /\ io \in [Threads -> IOType]
    BY DEF TypeOK
  <1>3. i # NoFile
    BY ProtocolAssumption DEF NoFile
  <1>4. \A q \in Paths : q # p => dirent[q] # i
    BY <1>1, <1>3 DEF OneName, Unused
  <1>5. dirent'[p] = i /\ \A q \in Paths : q # p => dirent'[q] = dirent[q]
    BY <1>1, <1>2
  <1>6. OneName'
    BY <1>4, <1>5 DEF OneName
  <1>7. ASSUME NEW q \in Paths, q # p PROVE Content(q)' = Content(q)
    <2>1. dirent[q] # NoFile => dirent[q] \in Inodes /\ data'[dirent[q]] = data[dirent[q]]
      BY <1>1, <1>2, <1>4, <1>7
    <2> QED
      BY <1>5, <1>7, <2>1 DEF Content
  <1> QED
    BY <1>1, <1>2, <1>3, <1>5, <1>6, <1>7

\* Writing to the file a thread has open changes the content of that path alone.
LEMMA FillOne ==
  ASSUME TypeOK, OneName, NEW t \in Threads, Fill(t), NEW p \in Paths, p = io[t].path,
         dirent[p] = io[t].fd, io[t].fd # NoFile, data[io[t].fd] = Empty
  PROVE  /\ OneName'
         /\ Content(p)' = io[t].val
         /\ \A q \in Paths : q # p => Content(q)' = Content(q)
  <1>1. /\ dirent' = dirent
        /\ data' = IF io[t].val = Empty THEN data ELSE [data EXCEPT ![io[t].fd] = io[t].val]
    BY DEF Fill
  <1>2. /\ dirent \in [Paths -> Inodes \cup {NoFile}] /\ data \in [Inodes -> FileContents]
        /\ io[t].fd \in Inodes
    BY DEF TypeOK, IOType
  <1>3. Content(p)' = io[t].val
    BY <1>1, <1>2 DEF Content
  <1>4. ASSUME NEW q \in Paths, q # p PROVE Content(q)' = Content(q)
    <2>1. dirent[q] # NoFile => dirent[q] \in Inodes /\ dirent[q] # io[t].fd
      BY <1>2, <1>4 DEF OneName
    <2> QED
      BY <1>1, <1>2, <2>1 DEF Content
  <1> QED
    BY <1>1, <1>3, <1>4 DEF OneName

LEMMA FilesStay ==
  ASSUME NEW t \in Threads, FilesInv(t), UNCHANGED <<dirent, data, intent>>,
         pc[t] \notin Filling, pc'[t] \notin Filling,
         pc'[t] # "wbOpen" \/ io'[t].val = intent[io'[t].path]
  PROVE  FilesInv(t)'
  BY DEF FilesInv, OneName, Content, Filling

LEMMA FilesStep ==
  ASSUME NEW t \in Threads, HistoryInv, FilesInv(t), ApiCall(t) \/ AcquireRepo(t) \/ Step(t)
  PROVE  FilesInv(t)'
  <1> USE DEF files, objectStore, history, shared, Idle
  <1>0. /\ TypeOK /\ pc \in [Threads -> Locations] /\ io \in [Threads -> IOType]
        /\ intent \in Trees /\ dirent \in [Paths -> Inodes \cup {NoFile}]
        /\ data \in [Inodes -> FileContents]
    BY DEF HistoryInv, TypeOK
  <1>a. ASSUME Return(t) PROVE pc'[t] = "idle"
    BY <1>0, <1>a DEF Return, Goto
  <1>1. CASE BeginWrite(t)
    <2>1. PICK p \in Own[t], v \in Contents : OpenTruncate(t, p, v)
      BY <1>1 DEF BeginWrite
    <2>2. p \in Paths /\ v \in FileContents
      BY ProtocolAssumption DEF FileContents
    <2>3. pc[t] = "idle" /\ pc'[t] = "fill" /\ intent' = intent
      BY <1>0, <1>1 DEF BeginWrite, Call, Goto
    <2>4. /\ OneName' /\ \A q \in Paths : q # p => Content(q)' = Content(q)
          /\ io'[t] = [path |-> p, val |-> v, fd |-> dirent'[p]]
          /\ dirent'[p] # NoFile /\ data'[dirent'[p]] = Empty
      BY <1>0, <2>1, <2>2, OpenOne DEF FilesInv
    <2> QED
      BY <2>3, <2>4 DEF FilesInv, Filling
  <1>2. CASE DeleteFile(t)
    <2>1. PICK p \in Own[t] : /\ dirent' = [dirent EXCEPT ![p] = NoFile]
                              /\ intent' = [intent EXCEPT ![p] = Absent]
      BY <1>2 DEF DeleteFile
    <2>2. pc[t] = "idle" /\ pc' = pc /\ data' = data /\ p \in Paths
      BY <1>2, ProtocolAssumption DEF DeleteFile, Call
    <2>3. OneName'
      BY <1>0, <2>1, <2>2 DEF FilesInv, OneName
    <2>4. \A q \in Paths : Content(q)' = intent'[q]
      BY <1>0, <2>1, <2>2 DEF FilesInv, Content, Filling, Trees
    <2> QED
      BY <2>2, <2>3, <2>4 DEF FilesInv, Filling
  <1>3. CASE Rename(t)
    <2>1. PICK from, to \in Own[t] :
              /\ from # to /\ dirent[from] # NoFile
              /\ dirent' = [dirent EXCEPT ![from] = NoFile, ![to] = dirent[from]]
              /\ intent' = [intent EXCEPT ![from] = Absent, ![to] = intent[from]]
      BY <1>3 DEF Rename
    <2>2. /\ pc[t] = "idle" /\ pc' = pc /\ data' = data /\ from \in Paths /\ to \in Paths
      BY <1>3, ProtocolAssumption DEF Rename, Call
    <2>3. /\ dirent'[from] = NoFile /\ dirent'[to] = dirent[from]
          /\ \A q \in Paths : q \notin {from, to} => dirent'[q] = dirent[q]
      BY <1>0, <2>1, <2>2
    <2>4. /\ intent'[from] = Absent /\ intent'[to] = intent[from]
          /\ \A q \in Paths : q \notin {from, to} => intent'[q] = intent[q]
      BY <1>0, <2>1, <2>2 DEF Trees
    <2>5. OneName'
      BY <2>2, <2>3 DEF FilesInv, OneName
    <2>6. \A q \in Paths : Content(q) = intent[q]
      BY <2>2 DEF FilesInv, Filling
    <2>7. \A q \in Paths : Content(q)' = intent'[q]
      BY <2>2, <2>3, <2>4, <2>6 DEF Content
    <2> QED
      BY <2>2, <2>5, <2>7 DEF FilesInv, Filling
  <1>4. CASE Flush(t) \/ Commit(t) \/ AcquireRepo(t) \/ CheckFlag(t) \/ MarkDirty(t)
             \/ StartBuild(t) \/ FinishBuild(t) \/ WriteCommit(t) \/ TruncateRef(t) \/ FillRef(t)
    <2>1. UNCHANGED <<dirent, data, intent>>
      BY <1>4, Zenon DEF Flush, Commit, AcquireRepo, CheckFlag, MarkDirty, StartBuild, FinishBuild,
                  WriteCommit, TruncateRef, FillRef
    <2>2. pc[t] \notin Filling /\ pc'[t] \notin Filling /\ pc'[t] # "wbOpen"
      <3>1. CASE Flush(t) \/ Commit(t) \/ AcquireRepo(t) \/ StartBuild(t) \/ FinishBuild(t)
                 \/ WriteCommit(t) \/ TruncateRef(t)
        BY <1>0, <3>1 DEF Flush, Commit, AcquireRepo, StartBuild, FinishBuild, WriteCommit,
                          TruncateRef, Call, Goto, Filling
      <3>2. CASE CheckFlag(t) \/ MarkDirty(t) \/ FillRef(t)
        BY <1>0, <1>a, <3>2 DEF CheckFlag, MarkDirty, FillRef, Goto, Filling
      <3> QED
        BY <1>4, <3>1, <3>2
    <2> QED
      BY <2>1, <2>2, FilesStay
  <1>5. CASE EndWrite(t)
    <2>1. /\ Fill(t) /\ pc[t] = "fill" /\ pc'[t] = "filled" /\ io' = io
          /\ intent' = [intent EXCEPT ![io[t].path] = io[t].val]
      BY <1>0, <1>5 DEF EndWrite, Goto
    <2>p. PICK p \in Paths : p = io[t].path
      BY <1>0 DEF IOType
    <2>2. /\ OneName' /\ Content(p)' = io[t].val
          /\ \A q \in Paths : q # p => Content(q)' = Content(q)
      BY <1>0, <2>1, <2>p, FillOne DEF FilesInv, Filling
    <2>3. \A q \in Paths : Content(q)' = intent'[q]
      BY <1>0, <2>1, <2>p, <2>2 DEF FilesInv, Trees
    <2> QED
      BY <2>1, <2>2, <2>3 DEF FilesInv, Filling
  <1>6. CASE VisitEntry(t)
    <2>1. UNCHANGED <<dirent, data, intent>> /\ pc[t] = "build"
      BY <1>6 DEF VisitEntry
    <2>2. \/ pc' = pc
          \/ \E p \in Paths : /\ pc'[t] = "wbOpen"
                              /\ io'[t].path = p /\ io'[t].val = Content(p)
      <3>1. PICK p \in job[t].todo :
                \/ pc' = pc
                \/ /\ Goto(t, "wbOpen")
                   /\ io' = [io EXCEPT ![t] = [path |-> p, val |-> Content(p), fd |-> NoFile]]
        BY <1>6, Zenon DEF VisitEntry, ReadEntry
      <3>2. p \in Paths
        BY <1>0 DEF TypeOK, JobType
      <3> QED
        BY <1>0, <3>1, <3>2 DEF Goto
    <2>3. \A p \in Paths : Content(p) = intent[p]
      BY <2>1 DEF FilesInv, Filling
    <2> QED
      BY <2>1, <2>2, <2>3, FilesStay DEF Filling
  <1>7. CASE OpenWriteBack(t)
    <2>1. /\ OpenTruncate(t, io[t].path, io[t].val) /\ intent' = intent
          /\ pc[t] = "wbOpen" /\ pc'[t] = "wbFill"
      BY <1>0, <1>7 DEF OpenWriteBack, Goto
    <2>2. io[t].path \in Paths /\ io[t].val \in FileContents
      BY <1>0 DEF IOType
    <2>3. /\ OneName' /\ \A q \in Paths : q # io[t].path => Content(q)' = Content(q)
          /\ io'[t] = [path |-> io[t].path, val |-> io[t].val, fd |-> dirent'[io[t].path]]
          /\ dirent'[io[t].path] # NoFile /\ data'[dirent'[io[t].path]] = Empty
      BY <1>0, <2>1, <2>2, OpenOne DEF FilesInv
    <2> QED
      BY <2>1, <2>3 DEF FilesInv, Filling
  <1>8. CASE FillWriteBack(t)
    <2>1. /\ Fill(t) /\ pc[t] = "wbFill" /\ pc'[t] = "build" /\ intent' = intent
      BY <1>0, <1>8 DEF FillWriteBack, Goto
    <2>p. PICK p \in Paths : p = io[t].path
      BY <1>0 DEF IOType
    <2>2. /\ OneName' /\ Content(p)' = io[t].val
          /\ \A q \in Paths : q # p => Content(q)' = Content(q)
      BY <1>0, <2>1, <2>p, FillOne DEF FilesInv, Filling
    <2> QED
      BY <2>1, <2>p, <2>2 DEF FilesInv, Filling
  <1> QED
    BY <1>1, <1>2, <1>3, <1>4, <1>5, <1>6, <1>7, <1>8 DEF ApiCall, Step

LEMMA FilesInit ==
  ASSUME Init, NEW t \in Threads
  PROVE  FilesInv(t)
  BY DEF Init, FilesInv, OneName, Content, EmptyTree, Idle, Filling

LEMMA FilesInductive ==
  ASSUME NEW t, Threads = {t}, MaxFaults = 0, HistoryInv, FilesInv(t), [Next]_vars
  PROVE  FilesInv(t)'
  <1>1. CASE UNCHANGED vars
    BY <1>1 DEF vars, FilesInv, OneName, Content
  <1>2. CASE Next
    <2>1. ApiCall(t) \/ AcquireRepo(t) \/ Step(t)
      BY <1>2, NothingFails DEF Next, HistoryInv
    <2> QED
      BY <2>1, FilesStep
  <1> QED
    BY <1>1, <1>2

\* One thread at a time and without failures, no call - not even a commit, which
\* writes every file it reads back - leaves the working tree other than the callers
\* made it (git.rs:1171-1179, 1425-1433, 1489-1567).
THEOREM FilesAreTheCallers ==
  ASSUME NEW t, Threads = {t}, MaxFaults = 0
  PROVE  Spec => []DataIntegrity
  <1> DEFINE Inv == HistoryInv /\ FilesInv(t)
  <1>1. Init => Inv
    BY InitHistory, FilesInit
  <1>2. Inv /\ [Next]_vars => Inv'
    BY HistoryInductive, FilesInductive
  <1>3. Inv => DataIntegrity
    <2> SUFFICES ASSUME Inv, Quiescent PROVE Workdir = intent
      BY DEF DataIntegrity
    <2>1. \A p \in Paths : Content(p) = intent[p]
      BY DEF Quiescent, FilesInv, Filling, Idle
    <2>2. intent \in [Paths -> FileContents \cup {Absent}]
      BY DEF HistoryInv, TypeOK, Trees
    <2> QED
      BY <2>1, <2>2 DEF Workdir
  <1> QED
    BY <1>1, <1>2, <1>3, PTL DEF Spec
-----------------------------------------------------------------------------
(* One thread, no failures, auto-commit on: every acknowledged write is        *)
(* committed or remembered.                                                *)

Marked(p) == \E b \in Backends : \E i \in DOMAIN dirty[b] : dirty[b][i] = p
Known(p) == HeadTree[p] = intent[p] \/ Marked(p)
Built(t, p) == job[t].tree[p] = intent[p] \/ Marked(p)

\* Where the last acknowledged write of a path is, at each place of the thread: in
\* HEAD's tree or a dirty list; in the call that is about to mark it; among the
\* paths the commit drained; in the tree being built, unless the scan has still to
\* come to it or is writing it back; in the commit that HEAD will name.
TrackedAt(t, p) ==
    /\ pc[t] \in {Idle, "fill"} => Known(p)
    /\ pc[t] \in {"filled", "mark"} => Known(p) \/ p = io[t].path
    /\ pc[t] \in {"lock", "start"} => Known(p) \/ p \in job[t].paths
    /\ pc[t] \in Building =>
         \/ p \in job[t].todo /\ (Known(p) \/ p \in job[t].paths)
         \/ p \notin job[t].todo /\ (Built(t, p) \/ (pc[t] # "build" /\ p = io[t].path))
    /\ pc[t] = "object" => Built(t, p)
    /\ pc[t] \in UpdatingRef => commits[job[t].id].tree[p] = intent[p] \/ Marked(p)

TrackInv(t) ==
    /\ \A p \in written : intent[p] # Absent
    /\ \A p \in written \ Ignored : TrackedAt(t, p)

\* The calls: what they change is no longer an acknowledged write.
LEMMA TrackCall ==
  ASSUME NEW t \in Threads, HistoryInv, TrackInv(t), ApiCall(t)
  PROVE  TrackInv(t)'
  <1> USE DEF files, objectStore, history, shared, Idle
  <1>0. /\ pc \in [Threads -> Locations] /\ job \in [Threads -> JobType]
        /\ intent \in Trees /\ dirty \in [Backends -> Seq(Paths)] /\ Backend(t) \in Backends
    BY ProtocolAssumption DEF HistoryInv, TypeOK, Backend
  <1>1. pc[t] = "idle" /\ commits' = commits /\ ref' = ref /\ HeadTree' = HeadTree
    BY DEF ApiCall, BeginWrite, DeleteFile, Rename, Flush, Commit, Call, HeadTree
  <1>2. \A p \in written \ Ignored : Known(p)
    BY <1>1 DEF TrackInv, TrackedAt
  <1>3. CASE BeginWrite(t) \/ Commit(t)
    <2>1. /\ UNCHANGED <<dirty, intent, written>> /\ pc'[t] \in {"fill", "lock"}
      BY <1>0, <1>3 DEF BeginWrite, Commit, Goto
    <2>2. \A p \in written \ Ignored : Known(p)'
      BY <1>1, <1>2, <2>1 DEF Known, Marked
    <2> QED
      BY <2>1, <2>2 DEF TrackInv, TrackedAt, Building, UpdatingRef
  <1>4. CASE DeleteFile(t) \/ Rename(t)
    <2>1. PICK changed \in SUBSET Paths :
              /\ written' = written \ changed
              /\ \A p \in Paths \ changed : intent'[p] = intent[p]
      <3>1. CASE DeleteFile(t)
        <4>1. PICK p \in Own[t] : /\ intent' = [intent EXCEPT ![p] = Absent]
                                  /\ written' = written \ {p}
          BY <3>1 DEF DeleteFile
        <4>2. {p} \subseteq Paths /\ \A q \in Paths \ {p} : intent'[q] = intent[q]
          BY <1>0, <4>1, ProtocolAssumption DEF Trees
        <4> QED
          BY <4>1, <4>2
      <3>2. CASE Rename(t)
        <4>1. PICK from, to \in Own[t] :
                  /\ intent' = [intent EXCEPT ![from] = Absent, ![to] = intent[from]]
                  /\ written' = written \ {from, to}
          BY <3>2 DEF Rename
        <4>2. /\ {from, to} \subseteq Paths
              /\ \A q \in Paths \ {from, to} : intent'[q] = intent[q]
          BY <1>0, <4>1, ProtocolAssumption DEF Trees
        <4> QED
          BY <4>1, <4>2
      <3> QED
        BY <1>4, <3>1, <3>2
    <2>2. dirty' = dirty /\ pc' = pc
      BY <1>4 DEF DeleteFile, Rename
    <2>3. written \subseteq Paths
      BY DEF HistoryInv, TypeOK
    <2>4. \A p \in written' : intent'[p] = intent[p]
      BY <2>1, <2>3
    <2>5. \A p \in written' \ Ignored : Known(p)'
      BY <1>1, <1>2, <2>1, <2>2, <2>4 DEF Known, Marked
    <2> QED
      BY <1>1, <2>1, <2>2, <2>4, <2>5 DEF TrackInv, TrackedAt, Building, UpdatingRef
  <1>5. CASE Flush(t)
    <2> DEFINE b == Backend(t)
               drained == {dirty[b][i] : i \in DOMAIN dirty[b]}
    <2>1. /\ UNCHANGED <<intent, written>> /\ pc'[t] = "lock"
          /\ job' = [job EXCEPT ![t].paths = drained]
          /\ dirty' = [dirty EXCEPT ![b] = <<>>]
      BY <1>0, <1>5 DEF Flush, Goto
    <2>2. job'[t].paths = drained
      BY <1>0, <2>1 DEF JobType
    <2>3. \A c \in Backends : c # b => dirty'[c] = dirty[c]
      BY <1>0, <2>1
    <2>4. ASSUME NEW p, Marked(p) PROVE Marked(p)' \/ p \in drained
      <3>1. PICK c \in Backends : \E i \in DOMAIN dirty[c] : dirty[c][i] = p
        BY <2>4 DEF Marked
      <3>2. CASE c = b
        BY <3>1, <3>2
      <3>3. CASE c # b
        BY <2>3, <3>1, <3>3 DEF Marked
      <3> QED
        BY <3>2, <3>3
    <2>5. \A p \in written \ Ignored : Known(p)' \/ p \in job'[t].paths
      BY <1>1, <1>2, <2>1, <2>2, <2>4 DEF Known
    <2> QED
      BY <2>1, <2>5 DEF TrackInv, TrackedAt, Building, UpdatingRef
  <1> QED
    BY <1>3, <1>4, <1>5 DEF ApiCall

\* write_file: from the write to the mark.  The flag is down, because nobody builds.
LEMMA TrackWrite ==
  ASSUME NEW t, Threads = {t}, HistoryInv, FlagMatchesBuilder, TrackInv(t), AutoCommit,
         EndWrite(t) \/ CheckFlag(t) \/ MarkDirty(t)
  PROVE  TrackInv(t)'
  <1> USE DEF files, objectStore, history, shared, Idle
  <1>0. /\ pc \in [Threads -> Locations] /\ job \in [Threads -> JobType]
        /\ io \in [Threads -> IOType] /\ io[t].path \in Paths /\ io[t].val \in FileContents
        /\ intent \in Trees /\ dirty \in [Backends -> Seq(Paths)] /\ Backend(t) \in Backends
        /\ written \subseteq Paths
    BY ProtocolAssumption DEF HistoryInv, TypeOK, Backend, IOType
  <1>1. commits' = commits /\ ref' = ref /\ HeadTree' = HeadTree
    BY DEF EndWrite, CheckFlag, MarkDirty, HeadTree
  <1>2. CASE EndWrite(t)
    <2>1. /\ pc[t] = "fill" /\ pc'[t] = "filled" /\ UNCHANGED <<io, dirty>>
          /\ intent' = [intent EXCEPT ![io[t].path] = io[t].val]
          /\ written' = written \cup {io[t].path}
      BY <1>0, <1>2 DEF EndWrite, Goto
    <2>2. /\ intent'[io[t].path] = io[t].val
          /\ \A p \in Paths : p # io[t].path => intent'[p] = intent[p]
      BY <1>0, <2>1 DEF Trees
    <2>3. \A p \in written' : intent'[p] # Absent
      BY <1>0, <2>1, <2>2, ProtocolAssumption DEF TrackInv, FileContents
    <2>4. \A p \in written' \ Ignored : Known(p)' \/ p = io[t].path
      BY <1>0, <1>1, <2>1, <2>2 DEF TrackInv, TrackedAt, Known, Marked
    <2> QED
      BY <2>1, <2>3, <2>4 DEF TrackInv, TrackedAt, Building, UpdatingRef
  <1>3. CASE CheckFlag(t)
    <2>1. UNCHANGED <<intent, written, dirty>> /\ pc[t] = "filled"
      BY <1>3 DEF CheckFlag
    <2>2. ~inProgress[Backend(t)]
      BY <1>0, <2>1 DEF FlagMatchesBuilder, Building
    <2>3. \A p \in written \ Ignored : Known(p)' \/ p = io[t].path
      BY <1>1, <2>1 DEF TrackInv, TrackedAt, Known, Marked
    <2>4. CASE io[t].path \in Ignored
      <3>1. pc'[t] = "idle"
        BY <1>0, <1>3, <2>4 DEF CheckFlag, Return, Goto
      <3> QED
        BY <2>1, <2>3, <2>4, <3>1 DEF TrackInv, TrackedAt, Building, UpdatingRef
    <2>5. CASE io[t].path \notin Ignored
      <3>1. pc'[t] = "mark" /\ io' = io
        BY <1>0, <1>3, <2>2, <2>5 DEF CheckFlag, Goto
      <3> QED
        BY <2>1, <2>3, <3>1 DEF TrackInv, TrackedAt, Building, UpdatingRef
    <2> QED
      BY <2>4, <2>5
  <1>4. CASE MarkDirty(t)
    <2> DEFINE b == Backend(t)
               marked == Append(dirty[b], io[t].path)
               drained == {marked[i] : i \in DOMAIN marked}
    <2>1. UNCHANGED <<intent, written>> /\ pc[t] = "mark"
      BY <1>4 DEF MarkDirty
    <2>2. \A p \in written \ Ignored : Known(p) \/ p = io[t].path
      BY <2>1 DEF TrackInv, TrackedAt
    <2>3. /\ DOMAIN marked = 1..Len(dirty[b]) + 1 /\ marked[Len(dirty[b]) + 1] = io[t].path
          /\ DOMAIN dirty[b] = 1..Len(dirty[b]) /\ Len(dirty[b]) \in Nat
          /\ \A i \in DOMAIN dirty[b] : marked[i] = dirty[b][i]
      BY <1>0
    <2>4. \E i \in DOMAIN marked : marked[i] = io[t].path
      BY <2>3
    <2>5. \A i \in DOMAIN dirty[b] : i \in DOMAIN marked /\ marked[i] = dirty[b][i]
      BY <2>3
    <2> HIDE DEF marked
    <2>6. CASE dirty' = [dirty EXCEPT ![b] = marked] /\ Return(t)
      <3>1. /\ pc'[t] = "idle" /\ dirty'[b] = marked
            /\ \A c \in Backends : c # b => dirty'[c] = dirty[c]
        BY <1>0, <2>6 DEF Return, Goto
      <3>2. ASSUME NEW p, Marked(p) \/ p = io[t].path PROVE Marked(p)'
        <4>1. CASE p = io[t].path
          BY <1>0, <2>4, <3>1, <4>1 DEF Marked
        <4>2. CASE Marked(p)
          <5>1. PICK c \in Backends : \E i \in DOMAIN dirty[c] : dirty[c][i] = p
            BY <4>2 DEF Marked
          <5>2. CASE c = b
            BY <2>5, <3>1, <5>1, <5>2 DEF Marked
          <5>3. CASE c # b
            BY <3>1, <5>1, <5>3 DEF Marked
          <5> QED
            BY <5>2, <5>3
        <4> QED
          BY <3>2, <4>1, <4>2
      <3>3. \A p \in written \ Ignored : Known(p)'
        BY <1>1, <2>1, <2>2, <3>2 DEF Known
      <3> QED
        BY <2>1, <3>1, <3>3 DEF TrackInv, TrackedAt, Building, UpdatingRef
    <2>7. CASE /\ dirty' = [dirty EXCEPT ![b] = <<>>]
               /\ job' = [job EXCEPT ![t].paths = drained] /\ Goto(t, "lock")
      <3>1. /\ pc'[t] = "lock"
            /\ \A c \in Backends : c # b => dirty'[c] = dirty[c]
        BY <1>0, <2>7 DEF Goto
      <3>2. job'[t].paths = drained
        BY <1>0, <2>7 DEF JobType
      <3>3. ASSUME NEW p, Marked(p) \/ p = io[t].path PROVE Marked(p)' \/ p \in drained
        <4>1. CASE p = io[t].path
          BY <2>4, <4>1
        <4>2. CASE Marked(p)
          <5>1. PICK c \in Backends : \E i \in DOMAIN dirty[c] : dirty[c][i] = p
            BY <4>2 DEF Marked
          <5>2. CASE c = b
            BY <2>5, <5>1, <5>2
          <5>3. CASE c # b
            BY <3>1, <5>1, <5>3 DEF Marked
          <5> QED
            BY <5>2, <5>3
        <4> QED
          BY <3>3, <4>1, <4>2
      <3>4. \A p \in written \ Ignored : Known(p)' \/ p \in job'[t].paths
        BY <1>1, <2>1, <2>2, <3>2, <3>3 DEF Known
      <3> QED
        BY <2>1, <3>1, <3>4 DEF TrackInv, TrackedAt, Building, UpdatingRef
    <2>8. \/ dirty' = [dirty EXCEPT ![b] = marked] /\ Return(t)
          \/ /\ dirty' = [dirty EXCEPT ![b] = <<>>]
             /\ job' = [job EXCEPT ![t].paths = drained] /\ Goto(t, "lock")
      BY <1>4 DEF MarkDirty, marked
    <2> QED
      BY <2>6, <2>7, <2>8
  <1> QED
    BY <1>2, <1>3, <1>4
\* A path of an acknowledged write that the scan meets is not skipped; it is reused
\* only if the parent has it as it was written.
LEMMA VisitTracked ==
  ASSUME NEW t, Threads = {t}, HistoryInv, LineInv(t), FilesInv(t), TrackInv(t), pc[t] = "build",
         NEW p \in written \ Ignored, p \in job[t].todo, ~Marked(p)
  PROVE  /\ ~Skipped(t, p)
         /\ Reused(t, p) => commits[job[t].parent].tree[p] = intent[p]
  <1>1. p \in Paths
    BY DEF HistoryInv, TypeOK
  <1>2. Content(p) = intent[p] /\ intent[p] # Absent
    BY <1>1 DEF FilesInv, TrackInv, Filling
  <1>3. ~Skipped(t, p)
    BY <1>2 DEF Skipped, Content
  <1>4. HeadTree[p] = intent[p] \/ p \in job[t].paths
    BY DEF TrackInv, TrackedAt, Building, Known
  <1>5. ASSUME Reused(t, p) PROVE commits[job[t].parent].tree[p] = intent[p]
    <2>1. p \notin job[t].paths /\ job[t].parent # NoCommit
      BY <1>5 DEF Reused, Incremental
    <2>2. job[t].parent = ref
      BY <2>1 DEF LineInv, Locked, Building
    <2> QED
      BY <1>4, <2>1, <2>2 DEF HeadTree
  <1> QED
    BY <1>3, <1>5

\* The commit: what was drained or known is read into the tree or reused.
LEMMA TrackVisit ==
  ASSUME NEW t, Threads = {t}, HistoryInv, LineInv(t), FilesInv(t), TrackInv(t), VisitEntry(t)
  PROVE  TrackInv(t)'
  <1> USE DEF files, objectStore, history, shared
  <1>0. /\ pc \in [Threads -> Locations] /\ job \in [Threads -> JobType] /\ t \in Threads
        /\ io \in [Threads -> IOType] /\ job[t] \in JobType
    BY DEF HistoryInv, TypeOK
  <1>1. /\ UNCHANGED <<commits, ref, intent, written, dirty>> /\ HeadTree' = HeadTree
        /\ pc[t] = "build"
    BY DEF VisitEntry, HeadTree
  <1>2. /\ \A p : Known(p)' <=> Known(p)
        /\ \A p : Marked(p)' <=> Marked(p)
    BY <1>1 DEF Known, Marked
  <1>3. \A p \in written \ Ignored :
            \/ p \in job[t].todo /\ (Known(p) \/ p \in job[t].paths)
            \/ p \notin job[t].todo /\ Built(t, p)
    BY <1>1 DEF TrackInv, TrackedAt, Building
  <1>p. PICK p \in job[t].todo :
           LET next == [job[t] EXCEPT !.todo = @ \ {p}]
           IN  \/ /\ Skipped(t, p)
                  /\ job' = [job EXCEPT ![t] = next]
                  /\ UNCHANGED <<pc, io>>
               \/ /\ ~Skipped(t, p) /\ Reused(t, p)
                  /\ job' = [job EXCEPT ![t] =
                        [next EXCEPT !.tree[p] = commits[job[t].parent].tree[p]]]
                  /\ UNCHANGED <<pc, io>>
               \/ /\ ~Skipped(t, p) /\ ~Reused(t, p)
                  /\ job' = [job EXCEPT ![t] = next]
                  /\ io' = [io EXCEPT ![t] = [path |-> p, val |-> ReadEntry(p), fd |-> NoFile]]
                  /\ Goto(t, "wbOpen")
    BY Zenon DEF VisitEntry
  <1>4. p \in Paths
    BY <1>0 DEF JobType
  <1>5. p \in written \ Ignored =>
            Marked(p) \/ (~Skipped(t, p) /\ (Reused(t, p) => commits[job[t].parent].tree[p] = intent[p]))
    BY <1>1, VisitTracked
  <1>6. CASE /\ ~Skipped(t, p) /\ Reused(t, p) /\ pc' = pc
             /\ job' = [job EXCEPT ![t] = [[job[t] EXCEPT !.todo = @ \ {p}]
                            EXCEPT !.tree[p] = commits[job[t].parent].tree[p]]]
    <2>1. /\ job'[t].todo = job[t].todo \ {p} /\ job'[t].paths = job[t].paths
          /\ job'[t].tree[p] = commits[job[t].parent].tree[p]
          /\ \A q \in Paths : q # p => job'[t].tree[q] = job[t].tree[q]
      BY <1>0, <1>4, <1>6 DEF JobType, Trees
    <2>2. \A q \in written \ Ignored :
              \/ q \in job'[t].todo /\ (Known(q) \/ q \in job'[t].paths)
              \/ q \notin job'[t].todo /\ (job'[t].tree[q] = intent[q] \/ Marked(q))
      <3>1. written \subseteq Paths
        BY DEF HistoryInv, TypeOK
      <3> QED
        BY <1>3, <1>5, <1>6, <2>1, <3>1 DEF Built
    <2> QED
      BY <1>1, <1>2, <1>6, <2>2 DEF TrackInv, TrackedAt, Built, Building, UpdatingRef, Idle
  <1>7. CASE Skipped(t, p) /\ pc' = pc /\ job' = [job EXCEPT ![t] = [job[t] EXCEPT !.todo = @ \ {p}]]
    <2>1. /\ job'[t].todo = job[t].todo \ {p} /\ job'[t].paths = job[t].paths
          /\ job'[t].tree = job[t].tree
      BY <1>0, <1>7 DEF JobType
    <2>2. \A q \in written \ Ignored :
              \/ q \in job'[t].todo /\ (Known(q) \/ q \in job'[t].paths)
              \/ q \notin job'[t].todo /\ (job'[t].tree[q] = intent[q] \/ Marked(q))
      BY <1>3, <1>5, <1>7, <2>1 DEF Built
    <2> QED
      BY <1>1, <1>2, <1>7, <2>2 DEF TrackInv, TrackedAt, Built, Building, UpdatingRef, Idle
  <1>8. CASE /\ ~Reused(t, p) /\ Goto(t, "wbOpen")
             /\ job' = [job EXCEPT ![t] = [job[t] EXCEPT !.todo = @ \ {p}]]
             /\ io' = [io EXCEPT ![t] = [path |-> p, val |-> ReadEntry(p), fd |-> NoFile]]
    <2>1. /\ job'[t].todo = job[t].todo \ {p} /\ job'[t].paths = job[t].paths
          /\ job'[t].tree = job[t].tree
      BY <1>0, <1>8 DEF JobType
    <2>2. pc'[t] = "wbOpen" /\ io'[t].path = p
      BY <1>0, <1>8 DEF Goto
    <2>3. \A q \in written \ Ignored :
              \/ q \in job'[t].todo /\ (Known(q) \/ q \in job'[t].paths)
              \/ q \notin job'[t].todo /\ (job'[t].tree[q] = intent[q] \/ Marked(q) \/ q = p)
      BY <1>3, <2>1 DEF Built
    <2> QED
      BY <1>1, <1>2, <2>2, <2>3 DEF TrackInv, TrackedAt, Built, Building, UpdatingRef, Idle
  <1> QED
    BY <1>p, <1>6, <1>7, <1>8, Zenon

LEMMA TrackCommit ==
  ASSUME NEW t, Threads = {t}, HistoryInv, LineInv(t), FilesInv(t), TrackInv(t),
         \/ AcquireRepo(t) \/ StartBuild(t) \/ OpenWriteBack(t) \/ FillWriteBack(t)
         \/ FinishBuild(t) \/ WriteCommit(t) \/ TruncateRef(t) \/ FillRef(t)
  PROVE  TrackInv(t)'
  <1> USE DEF files, objectStore, history, shared
  <1>0. /\ pc \in [Threads -> Locations] /\ job \in [Threads -> JobType] /\ t \in Threads
        /\ io \in [Threads -> IOType] /\ job[t] \in JobType /\ io[t].path \in Paths
        /\ commits \in Seq(CommitType) /\ ref \in Nat /\ written \subseteq Paths
    BY DEF HistoryInv, TypeOK, IOType
  <1>1. /\ UNCHANGED <<intent, written, dirty>>
        /\ \A p : Marked(p)' <=> Marked(p)
    BY DEF AcquireRepo, StartBuild, OpenWriteBack, FillWriteBack, FinishBuild, WriteCommit,
           TruncateRef, FillRef, Marked
  <1>2. ASSUME UNCHANGED <<commits, ref>> PROVE \A p : Known(p)' <=> Known(p)
    BY <1>1, <1>2 DEF Known, HeadTree
  <1>3. CASE AcquireRepo(t)
    <2>1. /\ UNCHANGED <<commits, ref>> /\ pc[t] = "lock" /\ pc'[t] = "start"
          /\ job' = [job EXCEPT ![t].parent = IF job[t].full THEN NoCommit ELSE ref]
      BY <1>0, <1>3 DEF AcquireRepo, Goto
    <2>2. job'[t].paths = job[t].paths
      BY <1>0, <2>1 DEF JobType
    <2> QED
      BY <1>1, <1>2, <2>1, <2>2 DEF TrackInv, TrackedAt, Building, UpdatingRef, Idle
  <1>4. CASE StartBuild(t)
    <2>1. /\ UNCHANGED <<commits, ref>> /\ pc[t] = "start" /\ pc'[t] = "build"
          /\ job' = [job EXCEPT ![t].todo = Paths]
      BY <1>0, <1>4 DEF StartBuild, Goto
    <2>2. job'[t].paths = job[t].paths /\ job'[t].todo = Paths
      BY <1>0, <2>1 DEF JobType
    <2> QED
      BY <1>0, <1>1, <1>2, <2>1, <2>2 DEF TrackInv, TrackedAt, Building, UpdatingRef, Idle
  <1>5. CASE OpenWriteBack(t)
    <2>1. /\ UNCHANGED <<commits, ref, job>> /\ pc[t] = "wbOpen" /\ pc'[t] = "wbFill"
          /\ io'[t].path = io[t].path
      BY <1>0, <1>5 DEF OpenWriteBack, OpenTruncate, Goto
    <2> QED
      BY <1>1, <1>2, <2>1 DEF TrackInv, TrackedAt, Built, Building, UpdatingRef, Idle
  <1>6. CASE FillWriteBack(t)
    <2>1. /\ UNCHANGED <<commits, ref>> /\ pc[t] = "wbFill" /\ pc'[t] = "build"
          /\ dirent[io[t].path] # NoFile =>
                 job' = [job EXCEPT ![t].tree[io[t].path] = io[t].val]
      BY <1>0, <1>6 DEF FillWriteBack, Goto
    <2>2. dirent[io[t].path] # NoFile /\ io[t].val = intent[io[t].path]
      BY <2>1 DEF FilesInv, Filling
    <2>3. /\ job'[t].todo = job[t].todo /\ job'[t].paths = job[t].paths
          /\ job'[t].tree[io[t].path] = intent[io[t].path]
          /\ \A q \in Paths : q # io[t].path => job'[t].tree[q] = job[t].tree[q]
      BY <1>0, <2>1, <2>2 DEF JobType, Trees
    <2>4. \A q \in written \ Ignored :
              \/ q \in job[t].todo /\ (Known(q) \/ q \in job[t].paths)
              \/ q \notin job[t].todo /\ (job'[t].tree[q] = intent[q] \/ Marked(q))
      <3>1. \A q \in written \ Ignored :
                \/ q \in job[t].todo /\ (Known(q) \/ q \in job[t].paths)
                \/ q \notin job[t].todo /\ (Built(t, q) \/ q = io[t].path)
        BY <2>1 DEF TrackInv, TrackedAt, Building
      <3> QED
        BY <1>0, <2>3, <3>1 DEF Built
    <2> QED
      BY <1>1, <1>2, <2>1, <2>3, <2>4 DEF TrackInv, TrackedAt, Built, Building, UpdatingRef, Idle
  <1>7. CASE FinishBuild(t)
    <2>1. /\ UNCHANGED <<commits, ref, job>> /\ pc[t] = "build" /\ pc'[t] = "object"
          /\ job[t].todo = {}
      BY <1>0, <1>7 DEF FinishBuild, Goto
    <2> QED
      BY <1>1, <2>1 DEF TrackInv, TrackedAt, Built, Building, UpdatingRef, Idle
  <1>8. CASE WriteCommit(t)
    <2> DEFINE new == [parent |-> Parent(t), tree |-> job[t].tree]
    <2>1. /\ commits' = Append(commits, new) /\ pc[t] = "object" /\ pc'[t] = "refOpen"
          /\ job' = [job EXCEPT ![t].id = Len(commits')]
      BY <1>0, <1>8 DEF WriteCommit, Goto
    <2>2. job'[t].id = Len(commits')
      BY <1>0, <2>1 DEF JobType
    <2>3. commits'[Len(commits')] = new
      <3> HIDE DEF new
      <3> QED
        BY <1>0, <2>1
    <2>4. commits'[job'[t].id].tree = job[t].tree
      BY <2>2, <2>3
    <2> QED
      BY <1>1, <2>1, <2>4 DEF TrackInv, TrackedAt, Built, Building, UpdatingRef, Idle
  <1>9. CASE TruncateRef(t)
    <2>1. /\ UNCHANGED <<commits, job>> /\ pc[t] = "refOpen" /\ pc'[t] = "refFill"
      BY <1>0, <1>9 DEF TruncateRef, Goto
    <2> QED
      BY <1>1, <2>1 DEF TrackInv, TrackedAt, Built, Building, UpdatingRef, Idle
  <1>10. CASE FillRef(t)
    <2>1. /\ UNCHANGED commits /\ pc[t] = "refFill" /\ pc'[t] = "idle" /\ ref' = job[t].id
      BY <1>0, <1>10 DEF FillRef, NewHead, Return, Goto, Idle
    <2>2. ref' # NoCommit
      BY <1>0, <2>1 DEF LineInv, UpdatingRef, NoCommit
    <2>3. \A p \in written \ Ignored : Known(p)'
      BY <1>1, <2>1, <2>2 DEF TrackInv, TrackedAt, Known, HeadTree, UpdatingRef
    <2> QED
      BY <1>1, <2>1, <2>3 DEF TrackInv, TrackedAt, Building, UpdatingRef, Idle
  <1> QED
    BY <1>3, <1>4, <1>5, <1>6, <1>7, <1>8, <1>9, <1>10

\* One thread at a time, with auto-commit on and without failures, no acknowledged
\* write of a path that is not ignored is forgotten: HEAD has it or the next flush
\* commits it, however batches fill, flushes and full commits follow each other
\* (git.rs:627-656, 662-684, 1489-1567).
THEOREM WritesAreTracked ==
  ASSUME NEW t, Threads = {t}, MaxFaults = 0, AutoCommit
  PROVE  Spec => []WritesTracked
  <1>1. Init => HistoryInv /\ LineInv(t) /\ FilesInv(t) /\ TrackInv(t)
    <2>1. ASSUME Init PROVE TrackInv(t)
      BY <2>1 DEF Init, TrackInv
    <2> QED
      BY <2>1, InitHistory, LineInit, FilesInit
  <1>2. HistoryInv /\ LineInv(t) /\ FilesInv(t) /\ TrackInv(t) /\ FlagMatchesBuilder /\ [Next]_vars
            => HistoryInv' /\ LineInv(t)' /\ FilesInv(t)' /\ TrackInv(t)'
    <2> SUFFICES ASSUME HistoryInv, LineInv(t), FilesInv(t), TrackInv(t), FlagMatchesBuilder,
                        [Next]_vars
                 PROVE  TrackInv(t)'
      BY HistoryInductive, LineInductive, FilesInductive
    <2>1. CASE UNCHANGED vars
      BY <2>1 DEF vars, TrackInv, TrackedAt, Known, Built, Marked, HeadTree
    <2>2. CASE Next
      <3>1. ApiCall(t) \/ AcquireRepo(t) \/ Step(t)
        BY <2>2, NothingFails DEF Next, HistoryInv
      <3> QED
        BY <3>1, TrackCall, TrackWrite, TrackVisit, TrackCommit DEF Step
    <2> QED
      BY <2>1, <2>2
  <1>3. HistoryInv /\ FilesInv(t) /\ TrackInv(t) => WritesTracked
    <2> SUFFICES ASSUME HistoryInv, FilesInv(t), TrackInv(t), Quiescent,
                        NEW p \in written \ Ignored
                 PROVE  HeadTree[p] = Content(p) \/ Marked(p)
      BY DEF WritesTracked, Marked
    <2>1. Known(p) /\ Content(p) = intent[p]
      BY DEF Quiescent, TrackInv, TrackedAt, FilesInv, Filling, Idle, HistoryInv, TypeOK
    <2> QED
      BY <2>1 DEF Known
  <1> QED
    BY <1>1, <1>2, <1>3, LockSafe, PTL DEF Spec
=============================================================================
