----------------------------- MODULE ForkManager -----------------------------
(***************************************************************************)
(* ForkManager (src/src/fork.rs): forks are branches with a record in a map  *)
(* that every operation saves to .gitoxide-fs/forks.json.                   *)
(*                                                                         *)
(* Callers use a manager - a process with its own map, loaded when it starts *)
(* - and all managers share the repository: commits, branch refs, HEAD and   *)
(* the one working tree.  forks.json lies in that working tree and no ignore *)
(* rule covers it, so it is committed, merged and written back like any file. *)
(*                                                                         *)
(* An operation is cut where another caller can come between: at every lock  *)
(* region of the map, and at every file it reads or writes.  That goes for the *)
(* tree builder too: it reads each file and writes it back (git.rs:1172-1179), *)
(* forks.json included, so a commit can undo what another thread saved.  In one *)
(* step are a merge's writing of its result (Apply), what callers do to files   *)
(* (Edit) and the moving of a ref; CommitProtocol takes those apart, and there *)
(* a write-back may fail.  A rollback is not modelled.                       *)
(***************************************************************************)
EXTENDS Naturals, Sequences, FiniteSets, ThreeWayMerge

CONSTANTS
    Callers,        \* the threads that call
    Managers,       \* the ForkManager instances, one to a process
    ManagerOf,      \* the manager each caller uses
    Names,          \* fork names, which are branch names too
    Main,           \* the branch the repository starts with
    Files,          \* the users' files
    ForksJson,      \* .gitoxide-fs/forks.json
    Contents,       \* contents of the users' files
    InitialFiles,   \* what the first commit may hold of them
    Empty,          \* a file truncated and not yet written
    Torn,           \* a file two writers wrote over each other
    Dangling,       \* a commit id that no object has
    NoFork,         \* the map has no entry
    MaxCommits,     \* bound: commits in the repository
    MaxPlain,       \* bound: commits in it after one that is not a merge
    MaxCalls,       \* bound: calls of a manager and faults in a behaviour
    MaxFaults       \* bound: crashes and I/O errors in a behaviour

Branches == Names \cup {Main}
Paths == Files \cup {ForksJson}
NoCommit == 0

\* The maps whose fork points are among ids.
ForkMaps(ids) ==
    [Names -> [parent : Branches, point : ids, merged : BOOLEAN] \cup {NoFork}]
NoForks == [n \in Names |-> NoFork]

ASSUME ForkAssumption ==
    /\ ManagerOf \in [Callers -> Managers]
    /\ Main \notin Names /\ ForksJson \notin Files /\ Empty # Absent
    /\ {Absent, Empty, Torn} \cap (Contents \cup ForkMaps(Nat \cup {Dangling})) = {}
    /\ InitialFiles \subseteq [Files -> Contents \cup {Absent}]
    /\ Dangling \notin Nat
    /\ MaxCommits \in Nat /\ MaxPlain \in Nat /\ MaxCalls \in Nat /\ MaxFaults \in Nat

ASSUME RecordAssumption ==
    NoFork \notin [parent : Branches, point : Nat \cup {Dangling}, merged : BOOLEAN]

VARIABLES
    forks,          \* the map of each manager
    work,           \* the working tree
    commits,        \* the commit objects, in the order they were written
    branches,       \* branch refs
    headBranch,     \* the branch HEAD names
    pc,             \* where each caller is
    job,            \* the operation each caller is in
    calls, faults,  \* how much of the bounds is used
    landed,         \* history: merges of each fork that were reported without conflict
    rewritten       \* history: a commit or a merge wrote forks.json after the last
                    \* save of the map had begun

repository == <<work, commits, branches, headBranch>>
bounds == <<calls, faults>>
history == <<landed, rewritten>>
vars == <<forks, work, commits, branches, headBranch, pc, job, calls, faults, landed, rewritten>>

EmptyTree == [p \in Paths |-> Absent]
TreeAt(id) == commits[id].tree

\* What may be written where a commit id stands: create_branch_at parses the
\* forty digits it is given and asks for no object.
Ids == DOMAIN commits \cup {Dangling}

\* The forks of the caller's manager.
Mine(c) == forks[ManagerOf[c]]

Idle == "idle"
\* tip: where the new branch will point, NoCommit for the HEAD of the moment;
\* ours, theirs: the tips a merge starts from; merged: its result; found: the
\* working tree it writes it to.  todo, tree: the build so far; file, text: what
\* is being written back; id: the commit that was made.
NoJob == [name |-> Main, parent |-> Main, point |-> NoCommit,
          tip |-> NoCommit, ours |-> NoCommit, theirs |-> NoCommit,
          strategy |-> "ThreeWay", merged |-> EmptyTree, found |-> EmptyTree,
          todo |-> {}, tree |-> EmptyTree, file |-> ForksJson, text |-> Absent,
          id |-> NoCommit, saved |-> NoForks]

\* A repository with one commit and no forks: forks.json is missing, or was
\* committed when all forks had been abandoned.
Init ==
    /\ forks = [m \in Managers |-> NoForks]
    /\ \E content \in InitialFiles, saved \in {Absent, NoForks} :
           work = [p \in Paths |-> IF p \in Files THEN content[p] ELSE saved]
    /\ commits = <<[parents |-> <<>>, tree |-> work]>>
    /\ branches = [b \in Branches |-> IF b = Main THEN 1 ELSE NoCommit]
    /\ headBranch = Main
    /\ pc = [c \in Callers |-> Idle]
    /\ job = [c \in Callers |-> NoJob]
    /\ calls = 0 /\ faults = 0
    /\ landed = [n \in Names |-> 0]
    /\ rewritten = FALSE
-----------------------------------------------------------------------------
At(c, l) == pc[c] = l
Goto(c, l) == pc' = [pc EXCEPT ![c] = l]
Begin(c, l, j) ==
    /\ At(c, Idle) /\ calls < MaxCalls /\ calls' = calls + 1
    /\ Goto(c, l) /\ job' = [job EXCEPT ![c] = j]
Return(c) == Goto(c, Idle) /\ job' = [job EXCEPT ![c] = NoJob]

\* A fault is counted with the calls too, which keeps the two bounds from multiplying.
Fault ==
    /\ faults < MaxFaults /\ faults' = faults + 1
    /\ calls < MaxCalls /\ calls' = calls + 1

\* Room for the commit this caller and those in a call may add.
Room == Len(commits) + Cardinality({c \in Callers : ~At(c, Idle)}) < MaxCommits

HeadTip == branches[headBranch]

\* The write lock of the map is not to be had while another thread saves the
\* map under the read lock.
MutantCanLock(c) == TRUE
CanLock(c) == \A d \in Callers : At(d, "store") => ManagerOf[d] # ManagerOf[c]

\* The backend's repo mutex, held by the thread of the process that builds a tree.
Building == {"build", "open", "fill"}
RepoFree(c) == \A d \in Callers : pc[d] \in Building => ManagerOf[d] # ManagerOf[c]

SetFork(c, n, meta) ==
    /\ CanLock(c)
    /\ forks' = [forks EXCEPT ![ManagerOf[c]][n] = meta]
-----------------------------------------------------------------------------
(* persist: the map is serialised and written with the read lock held; the   *)
(* file is truncated and then filled.  Filling a file after another writer -   *)
(* who had the same text, or was a commit, a merge or another process -      *)
(* overwrites as much of the other's text as there is of this one - nothing   *)
(* if it was read empty - and one that was removed in between stays removed.  *)

Fill(p, text) ==
    \E left \in {text, Torn} :
        /\ left = Torn => work[p] \notin {Absent, Empty, text}
        /\ work' = [work EXCEPT ![p] = IF @ = Absent \/ text = Empty THEN @ ELSE left]

Persist(c) ==
    /\ At(c, "persist")
    /\ job' = [job EXCEPT ![c].saved = Mine(c)]
    /\ work' = [work EXCEPT ![ForksJson] = Empty]
    /\ rewritten' = FALSE
    /\ Goto(c, "store")
    /\ UNCHANGED <<forks, commits, branches, headBranch, bounds, landed>>

Store(c) ==
    /\ At(c, "store")
    /\ Fill(ForksJson, job[c].saved)
    /\ landed' = IF job[c].id # NoCommit THEN [landed EXCEPT ![job[c].name] = @ + 1]
                                         ELSE landed
    /\ Return(c)
    /\ UNCHANGED <<forks, commits, branches, headBranch, bounds, rewritten>>
-----------------------------------------------------------------------------
(* create_fork, create_fork_at, create_nested_fork                          *)

CreateFork(c, n) ==
    /\ Begin(c, "point", [NoJob EXCEPT !.name = n, !.parent = headBranch])
    /\ UNCHANGED <<forks, repository, faults, history>>

\* HEAD may name another branch by now.
MutantReadForkPoint(c) ==       \* the branch is taken for the commit it names
    /\ At(c, "point")
    /\ Goto(c, "check") /\ job' = [job EXCEPT ![c].point = headBranch]
    /\ UNCHANGED <<forks, repository, bounds, history>>
ReadForkPoint(c) ==
    /\ At(c, "point")
    /\ IF HeadTip = NoCommit THEN Return(c)
       ELSE Goto(c, "check") /\ job' = [job EXCEPT ![c].point = HeadTip]
    /\ UNCHANGED <<forks, repository, bounds, history>>

CreateForkAt(c, n, id) ==
    /\ Begin(c, "check", [NoJob EXCEPT !.name = n, !.parent = headBranch,
                                       !.point = id, !.tip = id])
    /\ UNCHANGED <<forks, repository, faults, history>>

CreateNestedFork(c, parent, n) ==
    /\ Mine(c)[parent] # NoFork /\ ~Mine(c)[parent].merged
    /\ branches[parent] # NoCommit
    /\ Begin(c, "check", [NoJob EXCEPT !.name = n, !.parent = parent,
                          !.point = branches[parent], !.tip = branches[parent]])
    /\ UNCHANGED <<forks, repository, faults, history>>

CheckName(c) ==
    /\ At(c, "check")
    /\ IF Mine(c)[job[c].name] # NoFork THEN Return(c)
       ELSE Goto(c, "checkBranch") /\ UNCHANGED job
    /\ UNCHANGED <<forks, repository, bounds, history>>

MutantCheckBranch(c) ==         \* every fork starts at HEAD
    /\ At(c, "checkBranch")
    /\ IF HeadTip = NoCommit \/ branches[job[c].name] # NoCommit THEN Return(c)
       ELSE Goto(c, "branch") /\ job' = [job EXCEPT ![c].tip = HeadTip]
    /\ UNCHANGED <<forks, repository, bounds, history>>
CheckBranch(c) ==
    LET tip == IF job[c].tip = NoCommit THEN HeadTip ELSE job[c].tip
    IN  /\ At(c, "checkBranch")
        /\ IF tip = NoCommit \/ branches[job[c].name] # NoCommit THEN Return(c)
           ELSE Goto(c, "branch") /\ job' = [job EXCEPT ![c].tip = tip]
        /\ UNCHANGED <<forks, repository, bounds, history>>

WriteBranch(c) ==
    /\ At(c, "branch")
    /\ branches' = [branches EXCEPT ![job[c].name] = job[c].tip]
    /\ Goto(c, "insert")
    /\ UNCHANGED <<forks, work, commits, headBranch, job, bounds, history>>

Insert(c) ==
    /\ At(c, "insert")
    /\ SetFork(c, job[c].name,
               [parent |-> job[c].parent, point |-> job[c].point, merged |-> FALSE])
    /\ landed' = [landed EXCEPT ![job[c].name] = 0]
    /\ Goto(c, "persist")
    /\ UNCHANGED <<repository, job, bounds, rewritten>>
-----------------------------------------------------------------------------
(* abandon_fork                                                             *)

AbandonFork(c, n) ==
    /\ Mine(c)[n] # NoFork
    /\ Begin(c, "delete", [NoJob EXCEPT !.name = n])
    /\ UNCHANGED <<forks, repository, faults, history>>

DeleteBranch(c) ==
    /\ At(c, "delete")
    /\ IF branches[job[c].name] = NoCommit THEN Return(c) /\ UNCHANGED branches
       ELSE /\ branches' = [branches EXCEPT ![job[c].name] = NoCommit]
            /\ Goto(c, "remove") /\ UNCHANGED job
    /\ UNCHANGED <<forks, work, commits, headBranch, bounds, history>>

Remove(c) ==
    /\ At(c, "remove")
    /\ SetFork(c, job[c].name, NoFork)
    /\ Goto(c, "persist")
    /\ UNCHANGED <<repository, job, bounds, history>>
-----------------------------------------------------------------------------
(* merge_fork_with_strategy                                                 *)

MutantMergeFork(c, n, strategy) ==      \* a merged fork is merged again
    /\ Mine(c)[n] # NoFork
    /\ Room
    /\ Begin(c, "ours", [NoJob EXCEPT !.name = n, !.parent = Mine(c)[n].parent,
                         !.point = Mine(c)[n].point, !.strategy = strategy])
    /\ UNCHANGED <<forks, repository, faults, history>>
MergeFork(c, n, strategy) ==
    /\ Mine(c)[n] # NoFork /\ ~Mine(c)[n].merged
    /\ Room
    /\ Begin(c, "ours", [NoJob EXCEPT !.name = n, !.parent = Mine(c)[n].parent,
                         !.point = Mine(c)[n].point, !.strategy = strategy])
    /\ UNCHANGED <<forks, repository, faults, history>>

ReadOurs(c) ==
    /\ At(c, "ours")
    /\ IF branches[job[c].parent] = NoCommit THEN Return(c)
       ELSE Goto(c, "theirs") /\ job' = [job EXCEPT ![c].ours = branches[job[c].parent]]
    /\ UNCHANGED <<forks, repository, bounds, history>>

ReadTheirs(c) ==
    /\ At(c, "theirs")
    /\ IF branches[job[c].name] = NoCommit THEN Return(c)
       ELSE Goto(c, "trees") /\ job' = [job EXCEPT ![c].theirs = branches[job[c].name]]
    /\ UNCHANGED <<forks, repository, bounds, history>>

\* Reads the three trees, each under the repo mutex, and merges; an id without
\* an object is an error.  Conflicts end a three-way merge here: the fork is
\* marked merged and nothing else is done.  Rebase goes on with them.
MergeTrees(c) ==
    LET j == job[c]
        base == TreeAt(j.point)
        ours == TreeAt(j.ours)
        theirs == TreeAt(j.theirs)
    IN  /\ At(c, "trees") /\ RepoFree(c)
        /\ IF Dangling \in {j.point, j.ours, j.theirs} THEN Return(c)
           ELSE IF j.strategy = "ThreeWay" /\ Conflicts(base, ours, theirs, j.strategy) # {}
             THEN Goto(c, "mark") /\ UNCHANGED job
             ELSE /\ Goto(c, "checkout")
                  /\ job' = [job EXCEPT ![c].merged = Merged(base, ours, theirs, j.strategy)]
        /\ UNCHANGED <<forks, repository, bounds, history>>

MutantCheckoutParent(c) ==      \* HEAD stays where it is
    /\ At(c, "checkout")
    /\ Goto(c, "apply")
    /\ UNCHANGED <<forks, repository, job, bounds, history>>
CheckoutParent(c) ==
    /\ At(c, "checkout")
    /\ IF branches[job[c].parent] = NoCommit THEN Return(c) /\ UNCHANGED headBranch
       ELSE /\ headBranch' = job[c].parent
            /\ Goto(c, "apply") /\ UNCHANGED job
    /\ UNCHANGED <<forks, work, commits, branches, bounds, history>>

\* The merged files are written, then what the parent had and the result has
\* not is removed.  Any other file of the working tree stays.
Apply(c) ==
    /\ At(c, "apply")
    /\ job' = [job EXCEPT ![c].found = work]
    /\ work' = [p \in Paths |->
                   IF job[c].merged[p] # Absent \/ TreeAt(job[c].ours)[p] # Absent
                     THEN job[c].merged[p]
                     ELSE work[p]]
    /\ rewritten' = TRUE
    /\ Goto(c, "commit")
    /\ UNCHANGED <<forks, commits, branches, headBranch, bounds, landed>>

\* A write fails: some of the files are written, HEAD stays on the parent.
ApplyFails(c) ==
    /\ At(c, "apply") /\ Fault
    /\ \E S \in SUBSET {p \in Paths : job[c].merged[p] # Absent} :
           work' = [p \in Paths |-> IF p \in S THEN job[c].merged[p] ELSE work[p]]
    /\ rewritten' = TRUE
    /\ Return(c)
    /\ UNCHANGED <<forks, commits, branches, headBranch, landed>>

\* create_merge_commit commits the working tree.
MergeCommit(c) ==
    /\ At(c, "commit") /\ RepoFree(c)
    /\ job' = [job EXCEPT ![c].todo = Paths]
    /\ Goto(c, "build")
    /\ UNCHANGED <<forks, repository, bounds, history>>

\* The fork may have been abandoned in the meantime.
MutantMark(c) ==                \* the save is forgotten
    /\ At(c, "mark")
    /\ SetFork(c, job[c].name, [Mine(c)[job[c].name] EXCEPT !.merged = TRUE])
    /\ Return(c)
    /\ UNCHANGED <<repository, bounds, history>>
Mark(c) ==
    LET n == job[c].name
    IN  /\ At(c, "mark")
        /\ IF Mine(c)[n] = NoFork THEN CanLock(c) /\ UNCHANGED forks
           ELSE SetFork(c, n, [Mine(c)[n] EXCEPT !.merged = TRUE])
        /\ Goto(c, "persist")
        /\ UNCHANGED <<repository, job, bounds, history>>
-----------------------------------------------------------------------------
(* commit and create_merge_commit: build_tree_from_workdir meets the files in *)
(* any order and writes each back, then the commit is written and HEAD's     *)
(* branch moved.                                                            *)

Merging(c) == job[c].theirs # NoCommit

Commit(c) ==
    /\ At(c, Idle) /\ Room /\ Len(commits) < MaxPlain /\ RepoFree(c)
    /\ Goto(c, "build") /\ job' = [job EXCEPT ![c].todo = Paths]
    /\ UNCHANGED <<forks, repository, bounds, history>>

ReadFile(c) ==
    /\ At(c, "build")
    /\ \E p \in job[c].todo :
           IF work[p] = Absent
             THEN job' = [job EXCEPT ![c].todo = @ \ {p}] /\ UNCHANGED pc
             ELSE /\ job' = [job EXCEPT ![c].todo = @ \ {p}, ![c].file = p, ![c].text = work[p]]
                  /\ Goto(c, "open")
    /\ UNCHANGED <<forks, repository, bounds, history>>

OpenWriteBack(c) ==
    /\ At(c, "open")
    /\ work' = [work EXCEPT ![job[c].file] = Empty]
    /\ Goto(c, "fill")
    /\ UNCHANGED <<forks, commits, branches, headBranch, job, bounds, history>>

\* A file that is gone by now gets no entry.
FillWriteBack(c) ==
    LET p == job[c].file
    IN  /\ At(c, "fill")
        /\ Fill(p, job[c].text)
        /\ job' = [job EXCEPT ![c].file = ForksJson, ![c].text = Absent,
                      ![c].tree[p] = IF work[p] = Absent THEN Absent ELSE job[c].text]
        /\ rewritten' = (rewritten \/ p = ForksJson)
        /\ Goto(c, "build")
        /\ UNCHANGED <<forks, commits, branches, headBranch, bounds, landed>>

\* commit reads HEAD now, whatever its branch names.  Without a branch under HEAD
\* - its fork was abandoned - the commit has no parent and the branch comes back.
WriteCommit(c) ==
    /\ At(c, "build") /\ job[c].todo = {}
    /\ commits' = Append(commits,
          [parents |-> IF Merging(c) THEN <<job[c].ours, job[c].theirs>>
                       ELSE IF HeadTip = NoCommit THEN <<>> ELSE <<HeadTip>>,
           tree |-> job[c].tree])
    /\ job' = [job EXCEPT ![c].id = Len(commits'), ![c].tree = EmptyTree]
    /\ Goto(c, "head")
    /\ UNCHANGED <<forks, work, branches, headBranch, bounds, history>>

MoveHead(c) ==
    /\ At(c, "head")
    /\ branches' = [branches EXCEPT ![headBranch] = job[c].id]
    /\ IF Merging(c) THEN Goto(c, "mark") /\ UNCHANGED job ELSE Return(c)
    /\ UNCHANGED <<forks, work, commits, headBranch, bounds, history>>
-----------------------------------------------------------------------------
(* What callers do with the backend between operations on forks              *)

Checkout(c, b) ==
    /\ At(c, Idle)
    /\ b # headBranch /\ branches[b] # NoCommit
    /\ headBranch' = b
    /\ UNCHANGED <<forks, work, commits, branches, pc, job, bounds, history>>

Edit(c, f, content) ==
    /\ At(c, Idle)
    /\ work[f] # content
    /\ work' = [work EXCEPT ![f] = content]
    /\ UNCHANGED <<forks, commits, branches, headBranch, pc, job, bounds, history>>

-----------------------------------------------------------------------------
\* new: a file that is missing or does not parse is no forks.
Loaded == IF work[ForksJson] \in {Absent, Empty, Torn} THEN NoForks ELSE work[ForksJson]

\* The process ends and another one starts.  It is a crash if it ends in a call.
Restart(m) ==
    LET mine == {c \in Callers : ManagerOf[c] = m}
    IN  /\ IF \A c \in mine : At(c, Idle) THEN UNCHANGED bounds ELSE Fault
        /\ forks' = [forks EXCEPT ![m] = Loaded]
        /\ pc' = [c \in Callers |-> IF c \in mine THEN Idle ELSE pc[c]]
        /\ job' = [c \in Callers |-> IF c \in mine THEN NoJob ELSE job[c]]
        /\ UNCHANGED <<repository, history>>

Call(c) ==
    \/ \E n \in Names : \/ CreateFork(c, n) \/ AbandonFork(c, n)
                        \/ \E id \in Ids : CreateForkAt(c, n, id)
                        \/ \E parent \in Names : CreateNestedFork(c, parent, n)
                        \/ \E strategy \in Strategies : MergeFork(c, n, strategy)
    \/ \E b \in Branches : Checkout(c, b)
    \/ \E f \in Files, content \in Contents \cup {Absent} : Edit(c, f, content)
    \/ Commit(c)

Step(c) ==
    \/ ReadForkPoint(c) \/ CheckName(c) \/ CheckBranch(c) \/ WriteBranch(c) \/ Insert(c)
    \/ DeleteBranch(c) \/ Remove(c)
    \/ ReadOurs(c) \/ ReadTheirs(c) \/ MergeTrees(c) \/ CheckoutParent(c) \/ Apply(c)
    \/ MergeCommit(c) \/ Mark(c)
    \/ ReadFile(c) \/ OpenWriteBack(c) \/ FillWriteBack(c) \/ WriteCommit(c) \/ MoveHead(c)
    \/ Persist(c) \/ Store(c)

Next ==
    \/ \E c \in Callers : Call(c) \/ Step(c) \/ ApplyFails(c)
    \/ \E m \in Managers : Restart(m)

Spec == Init /\ [][Next]_vars
-----------------------------------------------------------------------------
(* Properties                                                               *)

\* What forks.json, a tree and a job may hold when these are the ids there are.
Texts(ids) == {Absent, Empty, Torn} \cup ForkMaps(ids)
Trees(ids) == {tree \in [Paths -> Contents \cup Texts(ids)] : tree[ForksJson] \in Texts(ids)}
Jobs(ids) ==
    LET orNone == ids \cup {NoCommit}
    IN  [name : Branches, parent : Branches, point : orNone, tip : orNone, ours : orNone,
         theirs : orNone, strategy : Strategies, merged : Trees(ids), found : Trees(ids),
         todo : SUBSET Paths, tree : Trees(ids), file : Paths,
         text : Contents \cup Texts(ids), id : orNone, saved : ForkMaps(ids)]

Locations == Building \cup
    {Idle, "point", "check", "checkBranch", "branch", "insert", "delete", "remove", "ours",
     "theirs", "trees", "checkout", "apply", "commit", "head", "mark", "persist", "store"}

\* What the place of a caller says of its job.
JobFits(l, j) ==
    /\ j.name \in Names \/ (l \in Building \cup {Idle, "head"} /\ j.theirs = NoCommit)
    /\ l \in {"check", "checkBranch", "branch", "insert", "ours", "theirs", "trees"}
           => j.point # NoCommit
    /\ l \in {"theirs", "trees"} \/ j.theirs # NoCommit => j.ours # NoCommit
    /\ l \in {"point", "ours", "theirs"} => j.theirs = NoCommit
    /\ l \in {"trees", "checkout", "apply", "commit"} => j.theirs # NoCommit
    /\ l # "trees" /\ j.theirs # NoCommit => {j.point, j.ours, j.theirs} \subseteq DOMAIN commits
    /\ j.file = ForksJson => j.text \in Texts(Ids)

\* An id on record - of a fork point, a branch, a parent - is a commit that was
\* written or one that never was, and a merge that has read its trees works on
\* commits that exist (fork.rs:219-242, 418-430, git.rs:2061-2073, 2119-2134).

TypeOK ==
    /\ forks \in [Managers -> ForkMaps(Ids)]
    /\ work \in Trees(Ids)
    /\ commits \in Seq([parents : Seq(Ids), tree : Trees(Ids)])
    /\ branches \in [Branches -> Ids \cup {NoCommit}]
    /\ headBranch \in Branches
    /\ pc \in [Callers -> Locations]
    /\ job \in [Callers -> Jobs(Ids)]
    /\ \A c \in Callers : JobFits(pc[c], job[c])
    /\ calls \in 0..MaxCalls /\ faults \in 0..MaxFaults
    /\ landed \in [Names -> Nat] /\ rewritten \in BOOLEAN

Quiescent == \A c \in Callers : At(c, Idle)

\* Saves do not undo each other: whenever nobody is in a call, a manager started
\* now would know the forks the running one knows - unless a commit or a merge
\* wrote forks.json since the last save began.  The map is serialised and stored
\* under one read lock, so no save stores a map that has changed (fork.rs:594-607).
\* Without the last condition, as fork.rs:94 has it ("ensuring fork state survives
\* across process restarts"), this is false of threads: a tree builder that read
\* forks.json before a save writes the old text back after it (git.rs:1172-1179).
ForksSurvive ==
    Quiescent /\ ~rewritten => \A m \in Managers : forks[m] = Loaded

\* The commit with all its ancestors.
Ancestors(id) ==
    LET line[n \in DOMAIN commits] ==
            {n} \cup UNION {IF p \in DOMAIN commits THEN line[p] ELSE {p} :
                              p \in {commits[n].parents[i] : i \in DOMAIN commits[n].parents}}
    IN  IF id \in DOMAIN commits THEN line[id] ELSE {id} \ {NoCommit}

\* Every fork on record has its branch, and the fork point lies in that
\* branch's history, so it is a base for a three-way merge - whatever forks were
\* made of forks or of ids without a commit, merged, abandoned and made again
\* (fork.rs:176-304, 506-529).
ForkPointInHistory ==
    Quiescent /\ faults = 0 =>
        \A m \in Managers, n \in Names :
            forks[m][n] # NoFork => forks[m][n].point \in Ancestors(branches[n])

\* The tree of a merge commit has what only one side changed, the fork's
\* deletions included, and a three-way merge commits nothing both sides changed
\* differently (fork.rs:434-488, 684-826).  A path the parent's side has not - it
\* deleted it, and the fork left it alone - is in the commit as the merge found
\* it in the working tree: only paths of the parent's tree are removed
\* (fork.rs:473-480).  So where a checkout or an edit left the file there, the
\* deletion is undone, against fork.rs:773 "Ours deleted, theirs unchanged - honor
\* deletion".
MergeKeepsBothSides ==
    \A c \in Callers : Merging(c) /\ job[c].id # NoCommit =>
        LET base == TreeAt(job[c].point)
            ours == TreeAt(job[c].ours)
            theirs == TreeAt(job[c].theirs)
            tree == TreeAt(job[c].id)
        IN  \A p \in Paths :
                /\ theirs[p] = base[p]
                       => tree[p] = IF ours[p] # Absent THEN ours[p] ELSE job[c].found[p]
                /\ ours[p] = base[p] /\ (theirs[p] # Absent \/ ours[p] # Absent)
                       => tree[p] = theirs[p]
                /\ job[c].strategy = "ThreeWay"
                       => base[p] \in {ours[p], theirs[p]} \/ ours[p] = theirs[p]

\* When a merge is reported its commit is the tip of the fork's parent branch,
\* wherever HEAD was before (fork.rs:454-488).
MergeLandsOnParent ==
    \A c \in Callers :
        Merging(c) /\ job[c].id # NoCommit /\ pc[c] \in {"mark", "persist", "store"}
            => branches[job[c].parent] = job[c].id

\* fork.rs:365 "After merging, the fork is marked as merged and cannot be merged
\* again" - also by a process started later.
MergedOnce == faults = 0 => \A n \in Names : landed[n] <= 1

\* With one caller, forks are created, merged once and abandoned and otherwise left
\* as they are: what a step found free is free when the record is inserted, what
\* was not merged is marked once, and a process that starts goes on where the last
\* one ended, whatever forks.json a merge has written (fork.rs:94, 183-216,
\* 411-503, 591-607).
Fates == INSTANCE ForkFates WITH records <- forks
ImplementsForkFates == Fates!Spec
=============================================================================
