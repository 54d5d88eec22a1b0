-------------------------- MODULE ForkManagerProofs --------------------------
(***************************************************************************)
(* ForkTypeCorrect for everybody, ForksAreSaved for one process with any      *)
(* number of threads, the fates, merges and fork points for one caller.  After  *)
(* the types come lemmas on how callers move (Begins, StaysOrReturns) and on what *)
(* each group of steps does to a job (ForkMoves, MergeMoves, BuildMoves,       *)
(* EndMoves); each property then has an invariant of its own (SaveInv, MergeInv, *)
(* FateInv, LandInv, OnceInv, RecordsRooted), and SerialInv says what one caller *)
(* may rely on of forks.json, which the builder empties and fills again.      *)
(***************************************************************************)
EXTENDS ForkManager, WellFoundedInduction, TLAPS
-----------------------------------------------------------------------------
(* three_way_merge, for every three trees: entry by entry, then whole trees   *)

\* What only one side changed is taken, deletions included, whatever the
\* strategy (fork.rs:697-709, 734-742, 770-775, 797-801).
LEMMA OneSided ==
    ASSUME NEW b, NEW o, NEW t, NEW strategy
    PROVE  /\ t = b => MergedEntry(b, o, t, strategy) = o
           /\ o = b => MergedEntry(b, o, t, strategy) = t
BY DEF MergedEntry, Conflicting

\* Without a conflict every change of either side is in the result.
LEMMA BothKept ==
    ASSUME NEW b, NEW o, NEW t, NEW strategy, ~Conflicting(b, o, t)
    PROVE  /\ o # b => MergedEntry(b, o, t, strategy) = o
           /\ t # b => MergedEntry(b, o, t, strategy) = t
BY DEF MergedEntry, Conflicting

\* A file of the result is one side's: nothing is made up, and where neither
\* side has a file there is none.
LEMMA FromOneSide ==
    ASSUME NEW b, NEW o, NEW t, NEW strategy
    PROVE  MergedEntry(b, o, t, strategy) \in {o, t, Absent}
BY DEF MergedEntry, Resolution

\* A side that deleted a file gets its way, or the change to the file is a
\* conflict (fork.rs:770-822).
LEMMA DeletionsReported ==
    ASSUME NEW b, NEW o, NEW t, NEW strategy,
           b # Absent, o = Absent \/ t = Absent,
           MergedEntry(b, o, t, strategy) # Absent
    PROVE  Conflicting(b, o, t)
BY DEF MergedEntry, Conflicting

\* Merging with Theirs is merging with Ours from the other side.
LEMMA Mirrored ==
    ASSUME NEW b, NEW o, NEW t
    PROVE  MergedEntry(b, o, t, "Theirs") = MergedEntry(b, t, o, "Ours")
<1>1. Conflicting(b, o, t) <=> Conflicting(b, t, o)
  BY DEF Conflicting
<1>2. CASE Conflicting(b, o, t)
  BY <1>1, <1>2 DEF MergedEntry, Resolution
<1>3. CASE ~Conflicting(b, o, t)
  BY <1>1, <1>3 DEF MergedEntry, Conflicting
<1> QED  BY <1>2, <1>3
-----------------------------------------------------------------------------
\* A three-way merge that reports no conflict has every change of both sides in
\* its result and nothing else, so it does not matter which side is merged into
\* which (fork.rs:690-829).
THEOREM CleanMergeIsBothSides ==
    ASSUME NEW P, NEW V, NEW base \in [P -> V], NEW ours \in [P -> V], NEW theirs \in [P -> V],
           Conflicts(base, ours, theirs, "ThreeWay") = {}
    PROVE  /\ \A p \in P :
                  LET entry == Merged(base, ours, theirs, "ThreeWay")[p]
                  IN  /\ ours[p] # base[p] => entry = ours[p]
                      /\ theirs[p] # base[p] => entry = theirs[p]
                      /\ ours[p] = base[p] /\ theirs[p] = base[p] => entry = base[p]
           /\ Merged(base, ours, theirs, "ThreeWay") = Merged(base, theirs, ours, "ThreeWay")
<1>1. \A p \in P : ~Conflicting(base[p], ours[p], theirs[p])
  BY DEF Conflicts
<1>2. ASSUME NEW p \in P
      PROVE  LET entry == MergedEntry(base[p], ours[p], theirs[p], "ThreeWay")
             IN  /\ ours[p] # base[p] => entry = ours[p]
                 /\ theirs[p] # base[p] => entry = theirs[p]
                 /\ ours[p] = base[p] /\ theirs[p] = base[p] => entry = base[p]
                 /\ entry = MergedEntry(base[p], theirs[p], ours[p], "ThreeWay")
  <2>1. ~Conflicting(base[p], ours[p], theirs[p])
    BY <1>1
  <2>2. ~Conflicting(base[p], theirs[p], ours[p])
    BY <2>1 DEF Conflicting
  <2> QED  BY <2>1, <2>2, BothKept, OneSided
<1>3. DOMAIN base = P /\ DOMAIN theirs = P
  OBVIOUS
<1> QED  BY <1>2, <1>3 DEF Merged

\* Theirs gives what Ours gives with the sides exchanged, and neither leaves a
\* conflict to report (fork.rs:713-720, 748-756, 779-784, 805-810).
THEOREM SidesMirror ==
    ASSUME NEW P, NEW V, NEW base \in [P -> V], NEW ours \in [P -> V], NEW theirs \in [P -> V]
    PROVE  /\ Merged(base, ours, theirs, "Theirs") = Merged(base, theirs, ours, "Ours")
           /\ Conflicts(base, ours, theirs, "Theirs") = {}
           /\ Conflicts(base, ours, theirs, "Ours") = {}
<1>1. \A p \in P : MergedEntry(base[p], ours[p], theirs[p], "Theirs")
                      = MergedEntry(base[p], theirs[p], ours[p], "Ours")
  BY Mirrored
<1>2. DOMAIN base = P
  OBVIOUS
<1> QED  BY <1>1, <1>2 DEF Merged, Conflicts
-----------------------------------------------------------------------------
(* Updates of the data, whatever the ids I there are                         *)

Record(I) == [parent : Branches, point : I, merged : BOOLEAN]

LEMMA ForkUpdate ==
    ASSUME NEW I, NEW f \in ForkMaps(I), NEW x \in Names, NEW r \in Record(I) \cup {NoFork}
    PROVE  [f EXCEPT ![x] = r] \in ForkMaps(I)
BY DEF ForkMaps, Record

\* What may be written to a file.
LEMMA TreeUpdate ==
    ASSUME NEW I, NEW tree \in Trees(I), NEW p \in Paths, NEW text \in Contents \cup Texts(I),
           p = ForksJson => text \in Texts(I)
    PROVE  [tree EXCEPT ![p] = text] \in Trees(I)
<1> DEFINE V == Contents \cup Texts(I)
           new == [tree EXCEPT ![p] = text]
<1>1. tree \in [Paths -> V] /\ tree[ForksJson] \in Texts(I) /\ text \in V
  BY DEF Trees
<1> HIDE DEF V
<1>2. new \in [Paths -> V] /\ new[ForksJson] \in Texts(I)
  BY <1>1 DEF Paths
<1> HIDE DEF new
<1>3. new \in Trees(I)
  BY <1>2 DEF Trees, V
<1> QED  BY <1>3 DEF new

LEMMA Marks == \A I : {Absent, Empty, Torn} \subseteq Texts(I) /\ ForkMaps(I) \subseteq Texts(I)
BY DEF Texts

LEMMA IdsAreIds == ASSUME TypeOK PROVE Ids \subseteq Nat \cup {Dangling} /\ NoCommit \notin Ids
<1>1. DOMAIN commits = 1..Len(commits) /\ Len(commits) \in Nat
  BY DEF TypeOK
<1> QED  BY <1>1, ForkAssumption DEF Ids, NoCommit

\* A map of forks is none of the marks for files that hold none.
LEMMA MapsAreNoMarks ==
    ASSUME NEW I, I \subseteq Nat \cup {Dangling}, NEW f \in ForkMaps(I)
    PROVE  f \notin {Absent, Empty, Torn}
<1> DEFINE J == Nat \cup {Dangling}
<1>1. I \subseteq J
  OBVIOUS
<1>2. {Absent, Empty, Torn} \cap (Contents \cup ForkMaps(J)) = {}
  BY ForkAssumption
<1> HIDE DEF J
<1>3. ForkMaps(I) \subseteq ForkMaps(J)
  BY <1>1 DEF ForkMaps
<1> QED  BY <1>2, <1>3

LEMMA NoForksTyped == ASSUME NEW I PROVE NoForks \in ForkMaps(I)
BY DEF ForkMaps, NoForks

LEMMA NoJobTyped == ASSUME NEW I PROVE NoJob \in Jobs(I)
<1>1. EmptyTree \in Trees(I)
  BY DEF EmptyTree, Trees, Paths, Texts
<1>2. NoForks \in ForkMaps(I) /\ Absent \in Texts(I) /\ ForksJson \in Paths
  BY NoForksTyped DEF Texts, Paths
<1>3. Main \in Branches /\ "ThreeWay" \in Strategies
  BY DEF Branches, Strategies
<1> QED  BY <1>1, <1>2, <1>3 DEF NoJob, Jobs

\* Further ids leave every record and file meaningful.
LEMMA Grows ==
    ASSUME NEW I, NEW J, I \subseteq J
    PROVE  /\ ForkMaps(I) \subseteq ForkMaps(J)
           /\ Texts(I) \subseteq Texts(J)
           /\ Trees(I) \subseteq Trees(J)
           /\ Jobs(I) \subseteq Jobs(J)
<1>1. ForkMaps(I) \subseteq ForkMaps(J)
  BY DEF ForkMaps
<1>2. Texts(I) \subseteq Texts(J)
  BY <1>1 DEF Texts
<1>3. Trees(I) \subseteq Trees(J)
  BY <1>2 DEF Trees
<1>4. ASSUME NEW j \in Jobs(I)
      PROVE  j \in Jobs(J)
  <2> DEFINE A == I \cup {NoCommit}
             B == J \cup {NoCommit}
             C == Contents \cup Texts(I)
             D == Contents \cup Texts(J)
             S == SUBSET Paths
  <2>1. A \subseteq B /\ C \subseteq D
    BY <1>2
  <2>2. Jobs(I) = [name : Branches, parent : Branches, point : A, tip : A, ours : A,
                   theirs : A, strategy : Strategies, merged : Trees(I), found : Trees(I),
                   todo : S, tree : Trees(I), file : Paths, text : C, id : A,
                   saved : ForkMaps(I)]
    BY DEF Jobs
  <2>3. Jobs(J) = [name : Branches, parent : Branches, point : B, tip : B, ours : B,
                   theirs : B, strategy : Strategies, merged : Trees(J), found : Trees(J),
                   todo : S, tree : Trees(J), file : Paths, text : D, id : B,
                   saved : ForkMaps(J)]
    BY DEF Jobs
  <2> HIDE DEF A, B, C, D, S
  <2> QED  BY <1>1, <1>3, <2>1, <2>2, <2>3
<1> QED  BY <1>1, <1>2, <1>3, <1>4

\* The result of a merge is made of files the three trees have.
LEMMA MergedTyped ==
    ASSUME NEW I, NEW base \in Trees(I), NEW ours \in Trees(I), NEW theirs \in Trees(I),
           NEW strategy
    PROVE  Merged(base, ours, theirs, strategy) \in Trees(I)
<1> DEFINE T == Texts(I)
           V == Contents \cup T
<1>1. Trees(I) = {tree \in [Paths -> V] : tree[ForksJson] \in T} /\ Absent \in T
  BY DEF Trees, Texts
<1>2. T \subseteq V
  OBVIOUS
<1> HIDE DEF T, V
<1>3. ASSUME NEW p \in Paths
      PROVE  MergedEntry(base[p], ours[p], theirs[p], strategy) \in V
  <2>1. base[p] \in V /\ ours[p] \in V /\ theirs[p] \in V
    BY <1>1
  <2> QED  BY <1>1, <1>2, <2>1 DEF MergedEntry, Resolution
<1>4. DOMAIN base = Paths /\ ForksJson \in Paths
  BY <1>1 DEF Paths
<1>5. MergedEntry(base[ForksJson], ours[ForksJson], theirs[ForksJson], strategy) \in T
  BY <1>1 DEF MergedEntry, Resolution
<1> QED  BY <1>1, <1>3, <1>4, <1>5 DEF Merged
-----------------------------------------------------------------------------
(* Steps of a caller                                                        *)

\* What TypeOK says of where the callers are and of their jobs.
JobsTyped ==
    /\ pc \in [Callers -> Locations]
    /\ job \in [Callers -> Jobs(Ids)]
    /\ \A c \in Callers : JobFits(pc[c], job[c])

RestTyped ==
    /\ forks \in [Managers -> ForkMaps(Ids)]
    /\ work \in Trees(Ids)
    /\ commits \in Seq([parents : Seq(Ids), tree : Trees(Ids)])
    /\ branches \in [Branches -> Ids \cup {NoCommit}]
    /\ headBranch \in Branches
    /\ calls \in 0..MaxCalls /\ faults \in 0..MaxFaults
    /\ landed \in [Names -> Nat] /\ rewritten \in BOOLEAN

LEMMA TypeParts ==
    /\ JobsTyped /\ RestTyped => TypeOK
    /\ JobsTyped' /\ RestTyped' => TypeOK'
BY DEF TypeOK, JobsTyped, RestTyped

LEMMA JobFields ==
    ASSUME NEW I, NEW j \in Jobs(I)
    PROVE  /\ j.name \in Branches /\ j.parent \in Branches
           /\ {j.point, j.tip, j.ours, j.theirs, j.id} \subseteq I \cup {NoCommit}
           /\ j.saved \in ForkMaps(I) /\ {j.merged, j.found, j.tree} \subseteq Trees(I)
           /\ j.todo \subseteq Paths /\ j.file \in Paths /\ j.text \in Contents \cup Texts(I)
           /\ j.strategy \in Strategies
BY DEF Jobs

\* Every label is a location.
LEMMA Labels ==
    \A l \in {Idle, "point", "check", "checkBranch", "branch", "insert", "delete", "remove",
              "ours", "theirs", "trees", "checkout", "apply", "commit", "build", "open", "fill",
              "head", "mark", "persist", "store"} : l \in Locations
BY DEF Locations, Building

\* A step that moves caller c to l with job j.
LEMMA JobStep ==
    ASSUME TypeOK, UNCHANGED commits, NEW c \in Callers,
           NEW l \in Locations, NEW j \in Jobs(Ids),
           pc' = [pc EXCEPT ![c] = l], job' = [job EXCEPT ![c] = j],
           JobFits(l, j)
    PROVE  JobsTyped'
<1>1. /\ pc \in [Callers -> Locations] /\ job \in [Callers -> Jobs(Ids)]
      /\ \A d \in Callers : JobFits(pc[d], job[d])
  BY DEF TypeOK
<1>2. Ids' = Ids
  BY DEF Ids
<1>3. pc' \in [Callers -> Locations] /\ job' \in [Callers -> Jobs(Ids)']
  BY <1>1, <1>2
<1>4. ASSUME NEW d \in Callers PROVE JobFits(pc[d], job[d])'
  <2>1. JobFits(pc'[d], job'[d])
    BY <1>1
  <2> QED  BY <1>2, <2>1 DEF JobFits
<1> QED  BY <1>3, <1>4 DEF JobsTyped

\* A step that moves caller c to l, further in the same job.
LEMMA PlaceStep ==
    ASSUME TypeOK, UNCHANGED <<commits, job>>, NEW c \in Callers, NEW l \in Locations,
           pc' = [pc EXCEPT ![c] = l], JobFits(l, job[c])
    PROVE  JobsTyped'
<1>1. job' = [job EXCEPT ![c] = job[c]] /\ job[c] \in Jobs(Ids)
  BY DEF TypeOK
<1> QED  BY <1>1, JobStep

LEMMA NoJobFits == JobFits(Idle, NoJob)
BY DEF JobFits, NoJob, Building, Idle, NoCommit, Texts

LEMMA ReturnStep ==
    ASSUME TypeOK, UNCHANGED commits, NEW c \in Callers, Return(c)
    PROVE  JobsTyped'
<1>1. pc' = [pc EXCEPT ![c] = Idle] /\ job' = [job EXCEPT ![c] = NoJob]
  BY DEF Return, Goto
<1> QED  BY <1>1, NoJobTyped, NoJobFits, JobStep, Labels

LEMMA RestStep ==
    ASSUME TypeOK, UNCHANGED commits,
           forks' \in [Managers -> ForkMaps(Ids)],
           work' \in Trees(Ids),
           branches' \in [Branches -> Ids \cup {NoCommit}],
           headBranch' \in Branches,
           calls' \in 0..MaxCalls, faults' \in 0..MaxFaults,
           landed' \in [Names -> Nat], rewritten' \in BOOLEAN
    PROVE  RestTyped'
<1>1. Ids' = Ids
  BY DEF Ids
<1> QED  BY <1>1 DEF TypeOK, RestTyped

\* What every step may use of the types.
LEMMA Known ==
    ASSUME TypeOK, NEW c \in Callers
    PROVE  /\ job[c] \in Jobs(Ids) /\ JobFits(pc[c], job[c])
           /\ job[c].name \in Branches /\ job[c].parent \in Branches
           /\ job[c].saved \in ForkMaps(Ids)
           /\ {job[c].merged, job[c].found, job[c].tree, work} \subseteq Trees(Ids)
           /\ {job[c].point, job[c].tip, job[c].id, job[c].ours, job[c].theirs, HeadTip}
                  \subseteq Ids \cup {NoCommit}
           /\ job[c].todo \subseteq Paths /\ job[c].file \in Paths
           /\ job[c].text \in Contents \cup Texts(Ids)
           /\ job[c].strategy \in Strategies
           /\ ManagerOf[c] \in Managers /\ Mine(c) \in ForkMaps(Ids)
           /\ \A id \in DOMAIN commits : TreeAt(id) \in Trees(Ids)
<1>1. job[c] \in Jobs(Ids) /\ JobFits(pc[c], job[c]) /\ work \in Trees(Ids)
  BY DEF TypeOK
<1>2. ManagerOf[c] \in Managers /\ Mine(c) \in ForkMaps(Ids) /\ HeadTip \in Ids \cup {NoCommit}
  BY ForkAssumption DEF TypeOK, Mine, HeadTip
<1>3. \A id \in DOMAIN commits : TreeAt(id) \in Trees(Ids)
  <2> DEFINE Parents == Seq(Ids)
             Objects == [parents : Parents, tree : Trees(Ids)]
  <2>1. commits \in Seq(Objects)
    BY DEF TypeOK
  <2>2. \A o \in Objects : o.tree \in Trees(Ids)
    <3> HIDE DEF Parents
    <3> QED  OBVIOUS
  <2> HIDE DEF Objects
  <2>3. \A id \in DOMAIN commits : commits[id] \in Objects
    BY <2>1
  <2> QED  BY <2>2, <2>3 DEF TreeAt
<1>4. /\ job[c].name \in Branches /\ job[c].parent \in Branches
      /\ job[c].saved \in ForkMaps(Ids) /\ job[c].strategy \in Strategies
      /\ {job[c].merged, job[c].found, job[c].tree} \subseteq Trees(Ids)
      /\ {job[c].point, job[c].tip, job[c].ours, job[c].theirs, job[c].id}
             \subseteq Ids \cup {NoCommit}
      /\ job[c].todo \subseteq Paths /\ job[c].file \in Paths
      /\ job[c].text \in Contents \cup Texts(Ids)
  BY <1>1, JobFields
<1> QED  BY <1>1, <1>2, <1>3, <1>4

\* A caller in an operation on a fork.
LEMMA OnFork ==
    ASSUME TypeOK, NEW c \in Callers, pc[c] \notin Building \cup {Idle, "head"}
    PROVE  job[c].name \in Names
BY Known DEF JobFits

LEMMA PersistTyped == ASSUME TypeOK, NEW c \in Callers, Persist(c) PROVE TypeOK'
<1>1. job[c] \in Jobs(Ids) /\ JobFits("persist", job[c]) /\ Mine(c) \in ForkMaps(Ids)
  BY Known DEF Persist, At
<1>2. PICK j : j = [job[c] EXCEPT !.saved = Mine(c)]
  OBVIOUS
<1>3. j \in Jobs(Ids)
  BY <1>1, <1>2 DEF Jobs
<1>4. JobFits("store", j)
  BY <1>1, <1>2 DEF JobFits, Jobs, Building, Idle
<1>5. JobsTyped'
  BY <1>2, <1>3, <1>4, JobStep, Labels DEF Persist, Goto
<1>6. work' \in Trees(Ids)
  <2>1. ForksJson \in Paths /\ Empty \in Texts(Ids) /\ work \in Trees(Ids)
    BY Marks, Known DEF Paths
  <2> QED  BY <2>1, TreeUpdate DEF Persist
<1>7. RestTyped'
  BY <1>6, RestStep DEF Persist, TypeOK, bounds
<1> QED  BY <1>5, <1>7, TypeParts

\* What a file holds when it has been filled.
LEMMA FillTyped ==
    ASSUME TypeOK, NEW p \in Paths, NEW text \in Contents \cup Texts(Ids),
           p = ForksJson => text \in Texts(Ids), Fill(p, text)
    PROVE  work' \in Trees(Ids)
<1>1. PICK left \in {text, Torn} :
         work' = [work EXCEPT ![p] = IF @ = Absent \/ text = Empty THEN @ ELSE left]
  BY DEF Fill
<1>2. PICK new : new = IF work[p] = Absent \/ text = Empty THEN work[p] ELSE left
  OBVIOUS
<1>3. {Absent, Torn} \subseteq Texts(Ids) /\ work \in Trees(Ids)
  BY Marks DEF TypeOK
<1>6. work[p] \in Contents \cup Texts(Ids) /\ (p = ForksJson => work[p] \in Texts(Ids))
  BY <1>3 DEF Trees
<1>4. new \in Contents \cup Texts(Ids) /\ (p = ForksJson => new \in Texts(Ids))
  BY <1>1, <1>2, <1>3, <1>6
<1>5. work' = [work EXCEPT ![p] = new]
  BY <1>1, <1>2
<1> QED  BY <1>3, <1>4, <1>5, TreeUpdate

LEMMA StoreTyped == ASSUME TypeOK, NEW c \in Callers, Store(c) PROVE TypeOK'
<1>1. /\ job[c].saved \in Texts(Ids) /\ ForksJson \in Paths
      /\ pc[c] \notin Building \cup {Idle, "head"}
  BY Known, Marks DEF Store, At, Paths, Building, Idle
<1>2. JobsTyped'
  BY ReturnStep DEF Store
<1>3. work' \in Trees(Ids)
  BY <1>1, FillTyped DEF Store
<1>4. landed' \in [Names -> Nat]
  BY <1>1, OnFork DEF Store, TypeOK
<1>5. RestTyped'
  BY <1>3, <1>4, RestStep DEF Store, TypeOK, bounds
<1> QED  BY <1>2, <1>5, TypeParts

LEMMA BeginTyped ==
    ASSUME TypeOK, NEW c \in Callers, NEW l \in Locations, NEW j \in Jobs(Ids),
           Begin(c, l, j), UNCHANGED <<forks, repository, faults, history>>,
           JobFits(l, j)
    PROVE  TypeOK'
<1>1. JobsTyped'
  BY JobStep DEF Begin, Goto, repository
<1>2. calls' \in 0..MaxCalls
  BY ForkAssumption DEF Begin, TypeOK
<1>3. RestTyped'
  BY <1>2, RestStep DEF TypeOK, repository, history
<1> QED  BY <1>1, <1>3, TypeParts

LEMMA CreateForkTyped ==
    ASSUME TypeOK, NEW c \in Callers, NEW x \in Names, CreateFork(c, x)
    PROVE  TypeOK'
<1> DEFINE j == [NoJob EXCEPT !.name = x, !.parent = headBranch]
<1>1. headBranch \in Branches /\ x \in Branches
  BY DEF TypeOK, Branches
<1>2. j \in Jobs(Ids)
  BY <1>1, NoJobTyped DEF Jobs
<1>3. JobFits("point", j)
  BY <1>1, Marks DEF JobFits, NoJob, Building, Idle, NoCommit
<1>4. Begin(c, "point", j) /\ UNCHANGED <<forks, repository, faults, history>>
  BY DEF CreateFork
<1> HIDE DEF j
<1> QED  BY <1>2, <1>3, <1>4, BeginTyped, Labels

LEMMA CreateForkAtTyped ==
    ASSUME TypeOK, NEW c \in Callers, NEW x \in Names, NEW id \in Ids, CreateForkAt(c, x, id)
    PROVE  TypeOK'
<1> DEFINE j == [NoJob EXCEPT !.name = x, !.parent = headBranch, !.point = id, !.tip = id]
<1>1. headBranch \in Branches /\ x \in Branches /\ id # NoCommit
  BY IdsAreIds DEF TypeOK, Branches
<1>2. j \in Jobs(Ids)
  BY <1>1, NoJobTyped DEF Jobs
<1>3. JobFits("check", j)
  BY <1>1, Marks DEF JobFits, NoJob, Building, Idle, NoCommit
<1>4. Begin(c, "check", j) /\ UNCHANGED <<forks, repository, faults, history>>
  BY DEF CreateForkAt
<1> HIDE DEF j
<1> QED  BY <1>2, <1>3, <1>4, BeginTyped, Labels

LEMMA CreateNestedForkTyped ==
    ASSUME TypeOK, NEW c \in Callers, NEW x \in Names, NEW parent \in Names,
           CreateNestedFork(c, parent, x)
    PROVE  TypeOK'
<1> DEFINE tip == branches[parent]
           j == [NoJob EXCEPT !.name = x, !.parent = parent, !.point = tip, !.tip = tip]
<1>1. x \in Branches /\ parent \in Branches /\ tip \in Ids /\ tip # NoCommit
  BY DEF TypeOK, Branches, CreateNestedFork
<1>2. Begin(c, "check", j) /\ UNCHANGED <<forks, repository, faults, history>>
  BY DEF CreateNestedFork
<1> HIDE DEF tip
<1>3. j \in Jobs(Ids)
  BY <1>1, NoJobTyped DEF Jobs
<1>4. JobFits("check", j)
  BY <1>1, Marks DEF JobFits, NoJob, Building, Idle, NoCommit
<1> HIDE DEF j
<1> QED  BY <1>2, <1>3, <1>4, BeginTyped, Labels

LEMMA AbandonForkTyped ==
    ASSUME TypeOK, NEW c \in Callers, NEW x \in Names, AbandonFork(c, x)
    PROVE  TypeOK'
<1> DEFINE j == [NoJob EXCEPT !.name = x]
<1>1. x \in Branches
  BY DEF Branches
<1>2. j \in Jobs(Ids)
  BY <1>1, NoJobTyped DEF Jobs
<1>3. JobFits("delete", j)
  BY Marks DEF JobFits, NoJob, Building, Idle, NoCommit
<1>4. Begin(c, "delete", j) /\ UNCHANGED <<forks, repository, faults, history>>
  BY DEF AbandonFork
<1> HIDE DEF j
<1> QED  BY <1>2, <1>3, <1>4, BeginTyped, Labels

LEMMA MergeForkTyped ==
    ASSUME TypeOK, NEW c \in Callers, NEW x \in Names, NEW strategy \in Strategies,
           MergeFork(c, x, strategy)
    PROVE  TypeOK'
<1> DEFINE r == Mine(c)[x]
           j == [NoJob EXCEPT !.name = x, !.parent = r.parent, !.point = r.point,
                              !.strategy = strategy]
<1>1. x \in Branches /\ Mine(c) \in ForkMaps(Ids) /\ r # NoFork
  BY Known DEF Branches, MergeFork
<1>2. r.parent \in Branches /\ r.point \in Ids /\ r.point # NoCommit
  BY <1>1, IdsAreIds DEF ForkMaps
<1>3. Begin(c, "ours", j) /\ UNCHANGED <<forks, repository, faults, history>>
  BY DEF MergeFork
<1> HIDE DEF r
<1>4. j \in Jobs(Ids)
  BY <1>1, <1>2, NoJobTyped DEF Jobs
<1>5. JobFits("ours", j)
  BY <1>2, Marks DEF JobFits, NoJob, Building, Idle, NoCommit
<1> HIDE DEF j
<1> QED  BY <1>3, <1>4, <1>5, BeginTyped, Labels

LEMMA ReadForkPointTyped == ASSUME TypeOK, NEW c \in Callers, ReadForkPoint(c) PROVE TypeOK'
<1>1. JobsTyped'
  <2>1. CASE HeadTip = NoCommit
    BY <2>1, ReturnStep DEF ReadForkPoint, repository
  <2>2. CASE HeadTip # NoCommit
    <3>1. job[c] \in Jobs(Ids) /\ JobFits("point", job[c]) /\ HeadTip \in Ids
      BY <2>2, Known DEF ReadForkPoint, At
    <3>2. PICK j : j = [job[c] EXCEPT !.point = HeadTip]
      OBVIOUS
    <3>3. j \in Jobs(Ids)
      BY <3>1, <3>2 DEF Jobs
    <3>4. JobFits("check", j)
      BY <2>2, <3>1, <3>2 DEF JobFits, Jobs, Building, Idle
    <3> QED  BY <2>2, <3>2, <3>3, <3>4, JobStep, Labels DEF ReadForkPoint, Goto, repository
  <2> QED  BY <2>1, <2>2
<1>2. RestTyped'
  BY RestStep DEF ReadForkPoint, TypeOK, bounds, repository, history
<1> QED  BY <1>1, <1>2, TypeParts

LEMMA CheckNameTyped == ASSUME TypeOK, NEW c \in Callers, CheckName(c) PROVE TypeOK'
<1>1. JobsTyped'
  <2>1. CASE Mine(c)[job[c].name] # NoFork
    BY <2>1, ReturnStep DEF CheckName, repository
  <2>2. CASE Mine(c)[job[c].name] = NoFork
    <3>1. JobFits("checkBranch", job[c])
      BY Known DEF CheckName, At, JobFits, Building, Idle
    <3> QED  BY <2>2, <3>1, PlaceStep, Labels DEF CheckName, repository, Goto
  <2> QED  BY <2>1, <2>2
<1>2. RestTyped'
  BY RestStep DEF CheckName, TypeOK, bounds, repository, history
<1> QED  BY <1>1, <1>2, TypeParts

LEMMA CheckBranchTyped == ASSUME TypeOK, NEW c \in Callers, CheckBranch(c) PROVE TypeOK'
<1> DEFINE tip == IF job[c].tip = NoCommit THEN HeadTip ELSE job[c].tip
           none == tip = NoCommit \/ branches[job[c].name] # NoCommit
<1>1. JobsTyped'
  <2>1. CASE none
    BY <2>1, ReturnStep DEF CheckBranch, repository
  <2>2. CASE ~none
    <3>1. job[c] \in Jobs(Ids) /\ JobFits("checkBranch", job[c]) /\ tip \in Ids \cup {NoCommit}
      BY Known DEF CheckBranch, At
    <3>2. PICK j : j = [job[c] EXCEPT !.tip = tip]
      OBVIOUS
    <3>3. j \in Jobs(Ids)
      BY <3>1, <3>2 DEF Jobs
    <3>4. JobFits("branch", j)
      BY <3>1, <3>2 DEF JobFits, Jobs, Building, Idle
    <3>5. pc' = [pc EXCEPT ![c] = "branch"] /\ job' = [job EXCEPT ![c] = j]
      BY <2>2, <3>2 DEF CheckBranch, Goto
    <3> QED  BY <3>3, <3>4, <3>5, JobStep, Labels DEF CheckBranch, repository
  <2> QED  BY <2>1, <2>2
<1>2. RestTyped'
  BY RestStep DEF CheckBranch, TypeOK, bounds, repository, history
<1> QED  BY <1>1, <1>2, TypeParts

LEMMA WriteBranchTyped == ASSUME TypeOK, NEW c \in Callers, WriteBranch(c) PROVE TypeOK'
<1>1. JobFits("insert", job[c])
  BY Known DEF WriteBranch, At, JobFits, Building, Idle
<1>2. JobsTyped'
  BY <1>1, PlaceStep, Labels DEF WriteBranch, Goto
<1>3. job[c].tip \in Ids \cup {NoCommit}
  BY Known
<1>4. branches' \in [Branches -> Ids \cup {NoCommit}]
  BY <1>3 DEF WriteBranch, TypeOK
<1>5. RestTyped'
  BY <1>4, RestStep DEF WriteBranch, TypeOK, bounds, history
<1> QED  BY <1>2, <1>5, TypeParts

LEMMA SetForkTyped ==
    ASSUME TypeOK, NEW c \in Callers, NEW x \in Names,
           NEW r \in Record(Ids) \cup {NoFork}, SetFork(c, x, r)
    PROVE  forks' \in [Managers -> ForkMaps(Ids)]
<1>1. Mine(c) \in ForkMaps(Ids) /\ ManagerOf[c] \in Managers
  BY Known
<1>2. PICK f : f = [Mine(c) EXCEPT ![x] = r]
  OBVIOUS
<1>3. f \in ForkMaps(Ids)
  BY <1>1, <1>2, ForkUpdate
<1>4. forks' = [forks EXCEPT ![ManagerOf[c]] = f]
  BY <1>2 DEF SetFork, Mine
<1> QED  BY <1>3, <1>4 DEF TypeOK

LEMMA InsertTyped == ASSUME TypeOK, NEW c \in Callers, Insert(c) PROVE TypeOK'
<1> DEFINE r == [parent |-> job[c].parent, point |-> job[c].point, merged |-> FALSE]
<1>1. JobFits("persist", job[c]) /\ job[c].name \in Names /\ job[c].point # NoCommit
  BY Known DEF Insert, At, JobFits, Building, Idle
<1>2. JobsTyped'
  BY <1>1, PlaceStep, Labels DEF Insert, Goto, repository
<1>3. job[c].parent \in Branches /\ job[c].point \in Ids
  BY <1>1, Known
<1>4. r \in Record(Ids)
  BY <1>3 DEF Record
<1>5. forks' \in [Managers -> ForkMaps(Ids)]
  BY <1>1, <1>4, SetForkTyped DEF Insert
<1>6. landed' \in [Names -> Nat]
  BY DEF Insert, TypeOK
<1>7. RestTyped'
  BY <1>5, <1>6, RestStep DEF Insert, TypeOK, bounds, repository
<1> QED  BY <1>2, <1>7, TypeParts

LEMMA DeleteBranchTyped == ASSUME TypeOK, NEW c \in Callers, DeleteBranch(c) PROVE TypeOK'
<1> DEFINE gone == branches[job[c].name] = NoCommit
<1>1. JobsTyped'
  <2>1. CASE gone
    BY <2>1, ReturnStep DEF DeleteBranch
  <2>2. CASE ~gone
    <3>1. JobFits("remove", job[c])
      BY Known DEF DeleteBranch, At, JobFits, Building, Idle
    <3> QED  BY <2>2, <3>1, PlaceStep, Labels DEF DeleteBranch, Goto
  <2> QED  BY <2>1, <2>2
<1>2. branches' \in [Branches -> Ids \cup {NoCommit}]
  <2>1. branches \in [Branches -> Ids \cup {NoCommit}]
    BY DEF TypeOK
  <2>2. branches' = branches \/ branches' = [branches EXCEPT ![job[c].name] = NoCommit]
    BY DEF DeleteBranch
  <2> QED  BY <2>1, <2>2
<1>3. RestTyped'
  BY <1>2, RestStep DEF DeleteBranch, TypeOK, bounds, history
<1> QED  BY <1>1, <1>3, TypeParts

LEMMA RemoveTyped == ASSUME TypeOK, NEW c \in Callers, Remove(c) PROVE TypeOK'
<1>1. JobFits("persist", job[c]) /\ job[c].name \in Names
  BY Known DEF Remove, At, JobFits, Building, Idle
<1>2. JobsTyped'
  BY <1>1, PlaceStep, Labels DEF Remove, Goto, repository
<1>3. forks' \in [Managers -> ForkMaps(Ids)]
  BY <1>1, SetForkTyped DEF Remove
<1>4. RestTyped'
  BY <1>3, RestStep DEF Remove, TypeOK, bounds, repository, history
<1> QED  BY <1>2, <1>4, TypeParts

LEMMA ReadOursTyped == ASSUME TypeOK, NEW c \in Callers, ReadOurs(c) PROVE TypeOK'
<1> DEFINE tip == branches[job[c].parent]
<1>1. JobsTyped'
  <2>1. CASE tip = NoCommit
    BY <2>1, ReturnStep DEF ReadOurs, repository
  <2>2. CASE tip # NoCommit
    <3>1. job[c] \in Jobs(Ids) /\ JobFits("ours", job[c]) /\ tip \in Ids
      BY <2>2, Known DEF ReadOurs, At, TypeOK
    <3>2. PICK j : j = [job[c] EXCEPT !.ours = tip]
      OBVIOUS
    <3>3. j \in Jobs(Ids)
      BY <3>1, <3>2 DEF Jobs
    <3>4. JobFits("theirs", j)
      BY <2>2, <3>1, <3>2 DEF JobFits, Jobs, Building, Idle
    <3>5. pc' = [pc EXCEPT ![c] = "theirs"] /\ job' = [job EXCEPT ![c] = j]
      BY <2>2, <3>2 DEF ReadOurs, Goto
    <3> QED  BY <3>3, <3>4, <3>5, JobStep, Labels DEF ReadOurs, repository
  <2> QED  BY <2>1, <2>2
<1>2. RestTyped'
  BY RestStep DEF ReadOurs, TypeOK, bounds, repository, history
<1> QED  BY <1>1, <1>2, TypeParts

LEMMA ReadTheirsTyped == ASSUME TypeOK, NEW c \in Callers, ReadTheirs(c) PROVE TypeOK'
<1> DEFINE tip == branches[job[c].name]
<1>1. JobsTyped'
  <2>1. CASE tip = NoCommit
    BY <2>1, ReturnStep DEF ReadTheirs, repository
  <2>2. CASE tip # NoCommit
    <3>1. job[c] \in Jobs(Ids) /\ JobFits("theirs", job[c]) /\ tip \in Ids
      BY <2>2, Known DEF ReadTheirs, At, TypeOK
    <3>2. PICK j : j = [job[c] EXCEPT !.theirs = tip]
      OBVIOUS
    <3>3. j \in Jobs(Ids)
      BY <3>1, <3>2 DEF Jobs
    <3>4. JobFits("trees", j)
      BY <2>2, <3>1, <3>2 DEF JobFits, Jobs, Building, Idle
    <3>5. pc' = [pc EXCEPT ![c] = "trees"] /\ job' = [job EXCEPT ![c] = j]
      BY <2>2, <3>2 DEF ReadTheirs, Goto
    <3> QED  BY <3>3, <3>4, <3>5, JobStep, Labels DEF ReadTheirs, repository
  <2> QED  BY <2>1, <2>2
<1>2. RestTyped'
  BY RestStep DEF ReadTheirs, TypeOK, bounds, repository, history
<1> QED  BY <1>1, <1>2, TypeParts

LEMMA MergeTreesTyped == ASSUME TypeOK, NEW c \in Callers, MergeTrees(c) PROVE TypeOK'
<1> DEFINE base == TreeAt(job[c].point)
           ours == TreeAt(job[c].ours)
           theirs == TreeAt(job[c].theirs)
           strategy == job[c].strategy
           result == Merged(base, ours, theirs, strategy)
           tips == {job[c].point, job[c].ours, job[c].theirs}
           stops == strategy = "ThreeWay" /\ Conflicts(base, ours, theirs, strategy) # {}
<1>1. /\ job[c] \in Jobs(Ids) /\ JobFits("trees", job[c])
      /\ job[c].theirs # NoCommit /\ tips \subseteq Ids
  BY Known DEF MergeTrees, At, JobFits
<1>2. JobsTyped'
  <2>1. CASE Dangling \in tips
    BY <2>1, ReturnStep DEF MergeTrees, repository
  <2>2. ASSUME Dangling \notin tips
        PROVE  tips \subseteq DOMAIN commits
    BY <1>1, <2>2 DEF Ids
  <2>3. CASE Dangling \notin tips /\ stops
    <3>1. JobFits("mark", job[c])
      BY <1>1, <2>2, <2>3 DEF JobFits, Building, Idle
    <3>2. pc' = [pc EXCEPT ![c] = "mark"] /\ UNCHANGED job
      BY <2>3 DEF MergeTrees, Goto
    <3> QED  BY <3>1, <3>2, PlaceStep, Labels DEF MergeTrees, repository
  <2>4. CASE Dangling \notin tips /\ ~stops
    <3>1. tips \subseteq DOMAIN commits
      BY <2>2, <2>4
    <3>2. base \in Trees(Ids) /\ ours \in Trees(Ids) /\ theirs \in Trees(Ids)
      BY <3>1, Known
    <3>3. result \in Trees(Ids)
      BY <3>2, MergedTyped
    <3>4. PICK j : j = [job[c] EXCEPT !.merged = result]
      OBVIOUS
    <3>5. pc' = [pc EXCEPT ![c] = "checkout"] /\ job' = [job EXCEPT ![c] = j]
      BY <2>4, <3>4 DEF MergeTrees, Goto
    <3> HIDE DEF result
    <3>6. j \in Jobs(Ids)
      BY <1>1, <3>3, <3>4 DEF Jobs
    <3>7. JobFits("checkout", j)
      BY <1>1, <3>1, <3>4 DEF JobFits, Jobs, Building, Idle
    <3> QED  BY <3>5, <3>6, <3>7, JobStep, Labels DEF MergeTrees, repository
  <2> QED  BY <2>1, <2>3, <2>4
<1>3. RestTyped'
  BY RestStep DEF MergeTrees, TypeOK, bounds, repository, history
<1> QED  BY <1>2, <1>3, TypeParts

LEMMA CheckoutParentTyped ==
    ASSUME TypeOK, NEW c \in Callers, CheckoutParent(c)
    PROVE  TypeOK'
<1>1. JobsTyped'
  <2>1. CASE branches[job[c].parent] = NoCommit
    BY <2>1, ReturnStep DEF CheckoutParent
  <2>2. CASE branches[job[c].parent] # NoCommit
    <3>1. JobFits("apply", job[c])
      BY Known DEF CheckoutParent, At, JobFits, Building, Idle
    <3> QED  BY <2>2, <3>1, PlaceStep, Labels DEF CheckoutParent, Goto
  <2> QED  BY <2>1, <2>2
<1>2. headBranch' \in Branches
  BY Known DEF CheckoutParent, TypeOK
<1>3. RestTyped'
  BY <1>2, RestStep DEF CheckoutParent, TypeOK, bounds, history
<1> QED  BY <1>1, <1>3, TypeParts

\* Files of a merge result and of the working tree mixed.
LEMMA MixedTyped ==
    ASSUME NEW I, NEW one \in Trees(I), NEW other \in Trees(I),
           NEW tree, tree = [p \in Paths |-> tree[p]],
           \A p \in Paths : tree[p] \in {one[p], other[p]}
    PROVE  tree \in Trees(I)
BY DEF Trees, Paths

LEMMA ApplyTyped == ASSUME TypeOK, NEW c \in Callers, Apply(c) PROVE TypeOK'
<1>1. /\ job[c] \in Jobs(Ids) /\ JobFits("apply", job[c])
      /\ job[c].merged \in Trees(Ids) /\ work \in Trees(Ids)
  BY Known DEF Apply, At
<1>2. PICK j : j = [job[c] EXCEPT !.found = work]
  OBVIOUS
<1>3. j \in Jobs(Ids)
  BY <1>1, <1>2 DEF Jobs
<1>4. JobFits("commit", j)
  BY <1>1, <1>2 DEF JobFits, Jobs, Building, Idle
<1>5. JobsTyped'
  BY <1>2, <1>3, <1>4, JobStep, Labels DEF Apply, Goto
<1>6. /\ work' = [p \in Paths |-> work'[p]]
      /\ \A p \in Paths : work'[p] \in {job[c].merged[p], work[p]}
  BY DEF Apply
<1>7. work' \in Trees(Ids)
  BY <1>1, <1>6, MixedTyped
<1>8. RestTyped'
  BY <1>7, RestStep DEF Apply, TypeOK, bounds
<1> QED  BY <1>5, <1>8, TypeParts

LEMMA ApplyFailsTyped == ASSUME TypeOK, NEW c \in Callers, ApplyFails(c) PROVE TypeOK'
<1>1. JobsTyped'
  BY ReturnStep DEF ApplyFails
<1>2. job[c].merged \in Trees(Ids) /\ work \in Trees(Ids)
  BY Known
<1>3. /\ work' = [p \in Paths |-> work'[p]]
      /\ \A p \in Paths : work'[p] \in {job[c].merged[p], work[p]}
  BY DEF ApplyFails
<1>4. work' \in Trees(Ids)
  BY <1>2, <1>3, MixedTyped
<1>5. calls' \in 0..MaxCalls /\ faults' \in 0..MaxFaults
  BY ForkAssumption DEF ApplyFails, Fault, TypeOK
<1>6. RestTyped'
  BY <1>4, <1>5, RestStep DEF ApplyFails, TypeOK
<1> QED  BY <1>1, <1>6, TypeParts

LEMMA MarkTyped == ASSUME TypeOK, NEW c \in Callers, Mark(c) PROVE TypeOK'
<1> DEFINE x == job[c].name
           r == [Mine(c)[x] EXCEPT !.merged = TRUE]
<1>1. JobFits("persist", job[c]) /\ x \in Names
  BY Known DEF Mark, At, JobFits, Building, Idle
<1>2. JobsTyped'
  BY <1>1, PlaceStep, Labels DEF Mark, Goto, repository
<1>3. forks' \in [Managers -> ForkMaps(Ids)]
  <2>1. CASE Mine(c)[x] = NoFork
    BY <2>1 DEF Mark, TypeOK
  <2>2. CASE Mine(c)[x] # NoFork
    <3>1. Mine(c)[x] \in Record(Ids)
      BY <1>1, <2>2, Known DEF ForkMaps, Record
    <3>2. r \in Record(Ids)
      BY <3>1 DEF Record
    <3>3. SetFork(c, x, r)
      BY <2>2 DEF Mark
    <3> HIDE DEF r
    <3> QED  BY <1>1, <3>2, <3>3, SetForkTyped
  <2> QED  BY <2>1, <2>2
<1>4. RestTyped'
  BY <1>3, RestStep DEF Mark, TypeOK, bounds, repository, history
<1> QED  BY <1>2, <1>4, TypeParts
-----------------------------------------------------------------------------
(* Commits                                                                  *)

LEMMA BuildStarts ==
    ASSUME TypeOK, NEW c \in Callers, pc[c] \in {Idle, "commit"},
           Goto(c, "build"), job' = [job EXCEPT ![c].todo = Paths],
           UNCHANGED <<forks, repository, bounds, history>>
    PROVE  TypeOK'
<1>1. job[c] \in Jobs(Ids) /\ JobFits(pc[c], job[c])
  BY Known
<1>2. PICK j : j = [job[c] EXCEPT !.todo = Paths]
  OBVIOUS
<1>3. j \in Jobs(Ids)
  BY <1>1, <1>2 DEF Jobs
<1>4. JobFits("build", j)
  BY <1>1, <1>2 DEF JobFits, Jobs, Building, Idle
<1>5. JobsTyped'
  BY <1>2, <1>3, <1>4, JobStep, Labels DEF Goto, repository
<1>6. RestTyped'
  BY RestStep DEF TypeOK, bounds, repository, history
<1> QED  BY <1>5, <1>6, TypeParts

LEMMA CommitTyped == ASSUME TypeOK, NEW c \in Callers, Commit(c) PROVE TypeOK'
BY BuildStarts DEF Commit, At

LEMMA MergeCommitTyped == ASSUME TypeOK, NEW c \in Callers, MergeCommit(c) PROVE TypeOK'
BY BuildStarts DEF MergeCommit, At

LEMMA ReadFileTyped == ASSUME TypeOK, NEW c \in Callers, ReadFile(c) PROVE TypeOK'
<1>1. job[c] \in Jobs(Ids) /\ JobFits("build", job[c]) /\ work \in Trees(Ids)
  BY Known DEF ReadFile, At
<1>2. PICK p \in job[c].todo :
         IF work[p] = Absent
           THEN job' = [job EXCEPT ![c].todo = @ \ {p}] /\ UNCHANGED pc
           ELSE /\ job' = [job EXCEPT ![c].todo = @ \ {p}, ![c].file = p, ![c].text = work[p]]
                /\ Goto(c, "open")
  BY Zenon DEF ReadFile
<1>3. job[c].todo \subseteq Paths /\ p \in Paths
  <2>1. job[c].todo \subseteq Paths
    BY <1>1, JobFields
  <2> QED  BY <2>1
<1>4. JobsTyped'
  <2>1. CASE work[p] = Absent
    <3>1. PICK j : j = [job[c] EXCEPT !.todo = @ \ {p}]
      OBVIOUS
    <3>2. j \in Jobs(Ids)
      BY <1>1, <1>3, <3>1 DEF Jobs
    <3>3. JobFits("build", j)
      BY <1>1, <3>1 DEF JobFits, Jobs, Building, Idle
    <3>4. pc' = [pc EXCEPT ![c] = "build"] /\ job' = [job EXCEPT ![c] = j]
      BY <1>2, <2>1, <3>1 DEF ReadFile, At, TypeOK
    <3> QED  BY <3>2, <3>3, <3>4, JobStep, Labels DEF ReadFile, repository
  <2>2. CASE work[p] # Absent
    <3>1. PICK j : j = [job[c] EXCEPT !.todo = @ \ {p}, !.file = p, !.text = work[p]]
      OBVIOUS
    <3>2. work[p] \in Contents \cup Texts(Ids) /\ (p = ForksJson => work[p] \in Texts(Ids))
      BY <1>1, <1>3 DEF Trees
    <3>3. j \in Jobs(Ids)
      BY <1>1, <1>3, <3>1, <3>2 DEF Jobs
    <3>4. JobFits("open", j)
      BY <1>1, <3>1, <3>2 DEF JobFits, Jobs, Building, Idle
    <3>5. pc' = [pc EXCEPT ![c] = "open"] /\ job' = [job EXCEPT ![c] = j]
      BY <1>2, <2>2, <3>1 DEF Goto
    <3> QED  BY <3>3, <3>4, <3>5, JobStep, Labels DEF ReadFile, repository
  <2> QED  BY <2>1, <2>2
<1>5. RestTyped'
  BY RestStep DEF ReadFile, TypeOK, bounds, repository, history
<1> QED  BY <1>4, <1>5, TypeParts

LEMMA OpenWriteBackTyped == ASSUME TypeOK, NEW c \in Callers, OpenWriteBack(c) PROVE TypeOK'
<1>1. JobFits("fill", job[c])
  BY Known DEF OpenWriteBack, At, JobFits, Building, Idle
<1>2. JobsTyped'
  BY <1>1, PlaceStep, Labels DEF OpenWriteBack, Goto
<1>3. work' \in Trees(Ids)
  <2>1. job[c].file \in Paths /\ Empty \in Texts(Ids) /\ work \in Trees(Ids)
    BY Marks, Known
  <2> QED  BY <2>1, TreeUpdate DEF OpenWriteBack
<1>4. RestTyped'
  BY <1>3, RestStep DEF OpenWriteBack, TypeOK, bounds, history
<1> QED  BY <1>2, <1>4, TypeParts

LEMMA FillWriteBackTyped == ASSUME TypeOK, NEW c \in Callers, FillWriteBack(c) PROVE TypeOK'
<1> DEFINE p == job[c].file
           entry == IF work[p] = Absent THEN Absent ELSE job[c].text
<1>1. /\ job[c] \in Jobs(Ids) /\ JobFits("fill", job[c]) /\ job[c].tree \in Trees(Ids)
      /\ p \in Paths /\ job[c].text \in Contents \cup Texts(Ids)
  BY Known DEF FillWriteBack, At
<1>2. p = ForksJson => job[c].text \in Texts(Ids)
  BY <1>1 DEF JobFits
<1>3. entry \in Contents \cup Texts(Ids) /\ (p = ForksJson => entry \in Texts(Ids))
  BY <1>1, <1>2, Marks
<1>4. PICK t : t = [job[c].tree EXCEPT ![p] = entry]
  OBVIOUS
<1>5. t \in Trees(Ids)
  BY <1>1, <1>3, <1>4, TreeUpdate
<1>6. PICK j : j = [job[c] EXCEPT !.file = ForksJson, !.text = Absent, !.tree = t]
  OBVIOUS
<1>7. job' = [job EXCEPT ![c] = j] /\ pc' = [pc EXCEPT ![c] = "build"]
  BY <1>1, <1>4, <1>6 DEF FillWriteBack, Goto, Jobs
<1>8. j \in Jobs(Ids)
  BY <1>1, <1>5, <1>6, Marks DEF Jobs, Paths
<1>9. JobFits("build", j)
  BY <1>1, <1>6, Marks DEF JobFits, Jobs, Building, Idle
<1>10. JobsTyped'
  BY <1>7, <1>8, <1>9, JobStep, Labels DEF FillWriteBack
<1>11. work' \in Trees(Ids)
  BY <1>1, <1>2, FillTyped DEF FillWriteBack
<1>12. rewritten' \in BOOLEAN
  BY DEF FillWriteBack, TypeOK
<1>13. RestTyped'
  BY <1>11, <1>12, RestStep DEF FillWriteBack, TypeOK, bounds
<1> QED  BY <1>10, <1>13, TypeParts

Object(I) == [parents : Seq(I), tree : Trees(I)]

LEMMA ObjectsGrow == ASSUME NEW I, NEW J, I \subseteq J PROVE Object(I) \subseteq Object(J)
<1> DEFINE A == Seq(I)
           B == Seq(J)
           T == Trees(I)
           U == Trees(J)
<1>1. A \subseteq B
  OBVIOUS
<1>2. T \subseteq U
  BY Grows
<1>3. Object(I) = [parents : A, tree : T] /\ Object(J) = [parents : B, tree : U]
  BY DEF Object
<1> HIDE DEF A, B, T, U
<1>4. ASSUME NEW o \in Object(I)
      PROVE  o \in Object(J)
  <2>1. o.parents \in A /\ o.tree \in T /\ o = [parents |-> o.parents, tree |-> o.tree]
    BY <1>3
  <2>2. o.parents \in B /\ o.tree \in U
    BY <1>1, <1>2, <2>1
  <2> QED  BY <1>3, <2>1, <2>2
<1> QED  BY <1>4

LEMMA Appended ==
    ASSUME NEW A, NEW B, A \subseteq B, NEW s \in Seq(A), NEW o \in B
    PROVE  /\ Append(s, o) \in Seq(B) /\ Len(Append(s, o)) = Len(s) + 1
           /\ DOMAIN Append(s, o) = DOMAIN s \cup {Len(s) + 1}
           /\ Append(s, o)[Len(s) + 1] = o
           /\ \A i \in DOMAIN s : Append(s, o)[i] = s[i]
<1>1. s \in Seq(B) /\ Len(s) \in Nat /\ DOMAIN s = 1..Len(s)
  OBVIOUS
<1>2. Append(s, o) \in Seq(B) /\ Len(Append(s, o)) = Len(s) + 1
  BY <1>1
<1>3. DOMAIN Append(s, o) = 1..(Len(s) + 1)
  BY <1>2
<1> QED  BY <1>1, <1>2, <1>3

LEMMA WriteCommitTyped == ASSUME TypeOK, NEW c \in Callers, WriteCommit(c) PROVE TypeOK'
<1> DEFINE above == IF Merging(c) THEN <<job[c].ours, job[c].theirs>>
                    ELSE IF HeadTip = NoCommit THEN <<>> ELSE <<HeadTip>>
           o == [parents |-> above, tree |-> job[c].tree]
           A == Object(Ids)
           B == Object(Ids')
<1>1. /\ job[c] \in Jobs(Ids) /\ JobFits("build", job[c]) /\ job[c].tree \in Trees(Ids)
      /\ HeadTip \in Ids \cup {NoCommit}
  BY Known DEF WriteCommit, At
<1>2. commits' = Append(commits, o)
  BY DEF WriteCommit
<1>3. o \in A
  <2>1. Merging(c) => {job[c].ours, job[c].theirs} \subseteq Ids
    BY <1>1 DEF JobFits, Merging, Ids
  <2>2. above \in Seq(Ids)
    <3>1. CASE Merging(c)
      BY <2>1, <3>1
    <3>2. CASE ~Merging(c) /\ HeadTip = NoCommit
      BY <3>2
    <3>3. CASE ~Merging(c) /\ HeadTip # NoCommit
      BY <1>1, <3>3
    <3> QED  BY <3>1, <3>2, <3>3
  <2> HIDE DEF above
  <2> QED  BY <1>1, <2>2 DEF Object
<1>4. commits \in Seq(A)
  BY DEF TypeOK, Object
<1> HIDE DEF o, A
<1>5. Len(commits') = Len(commits) + 1 /\ DOMAIN commits' = DOMAIN commits \cup {Len(commits')}
  BY <1>2, <1>3, <1>4, Appended
<1>6. Ids \subseteq Ids' /\ Len(commits') \in Ids' /\ DOMAIN commits \subseteq DOMAIN commits'
  BY <1>5 DEF Ids
<1>7. commits' \in Seq(B)
  <2>1. A \subseteq B
    BY <1>6, ObjectsGrow DEF A
  <2> HIDE DEF B
  <2> QED  BY <1>2, <1>3, <1>4, <2>1, Appended
<1>8. /\ ForkMaps(Ids) \subseteq ForkMaps(Ids') /\ Trees(Ids) \subseteq Trees(Ids')
      /\ Texts(Ids) \subseteq Texts(Ids') /\ Jobs(Ids) \subseteq Jobs(Ids')
  BY <1>6, Grows
<1>9. PICK j : j = [job[c] EXCEPT !.id = Len(commits'), !.tree = EmptyTree]
  OBVIOUS
<1>10. j \in Jobs(Ids')
  <2>1. job[c] \in Jobs(Ids') /\ EmptyTree \in Trees(Ids')
    BY <1>1, <1>8 DEF EmptyTree, Trees, Paths, Texts
  <2> QED  BY <1>6, <1>9, <2>1 DEF Jobs
<1>11. pc' = [pc EXCEPT ![c] = "head"] /\ job' = [job EXCEPT ![c] = j]
  BY <1>9 DEF WriteCommit, Goto
<1>12. JobsTyped'
  <2>1. pc' \in [Callers -> Locations] /\ job' \in [Callers -> Jobs(Ids')]
    BY <1>8, <1>10, <1>11, Labels DEF TypeOK
  <2>2. JobFits("head", j)
    BY <1>1, <1>9 DEF JobFits, Jobs, Building, Idle
  <2>3. \A d \in Callers : JobFits(pc'[d], job'[d])
    BY <1>11, <2>2 DEF TypeOK
  <2>4. \A d \in Callers : JobFits(pc[d], job[d])'
    BY <1>6, <1>8, <2>3 DEF JobFits
  <2> QED  BY <2>1, <2>4 DEF JobsTyped
<1>13. RestTyped'
  <2>1. /\ forks \in [Managers -> ForkMaps(Ids)] /\ branches \in [Branches -> Ids \cup {NoCommit}]
        /\ work \in Trees(Ids)
    BY DEF TypeOK
  <2>2. forks \in [Managers -> ForkMaps(Ids')] /\ branches \in [Branches -> Ids' \cup {NoCommit}]
    BY <1>6, <1>8, <2>1
  <2> QED  BY <1>7, <1>8, <2>1, <2>2 DEF RestTyped, WriteCommit, TypeOK, bounds, history, Object
<1> QED  BY <1>12, <1>13, TypeParts

LEMMA MoveHeadTyped == ASSUME TypeOK, NEW c \in Callers, MoveHead(c) PROVE TypeOK'
<1>1. JobFits("head", job[c]) /\ job[c].id \in Ids \cup {NoCommit}
  BY Known DEF MoveHead, At
<1>2. JobsTyped'
  <2>1. CASE Merging(c)
    <3>1. JobFits("mark", job[c])
      BY <1>1, <2>1 DEF JobFits, Merging, Building, Idle
    <3> QED  BY <2>1, <3>1, PlaceStep, Labels DEF MoveHead, Goto
  <2>2. CASE ~Merging(c)
    BY <2>2, ReturnStep DEF MoveHead
  <2> QED  BY <2>1, <2>2
<1>3. branches' \in [Branches -> Ids \cup {NoCommit}]
  BY <1>1 DEF MoveHead, TypeOK
<1>4. RestTyped'
  BY <1>3, RestStep DEF MoveHead, TypeOK, bounds, history
<1> QED  BY <1>2, <1>4, TypeParts
-----------------------------------------------------------------------------
LEMMA SameJobs == ASSUME TypeOK, UNCHANGED <<commits, pc, job>> PROVE JobsTyped'
<1>1. Ids' = Ids
  BY DEF Ids
<1>2. \A c \in Callers : JobFits(pc[c], job[c])'
  BY <1>1 DEF TypeOK, JobFits
<1> QED  BY <1>1, <1>2 DEF TypeOK, JobsTyped

LEMMA CheckoutTyped ==
    ASSUME TypeOK, NEW c \in Callers, NEW b \in Branches, Checkout(c, b)
    PROVE  TypeOK'
<1>1. JobsTyped'
  BY SameJobs DEF Checkout
<1>2. RestTyped'
  BY RestStep DEF TypeOK, Checkout, bounds, history
<1> QED  BY <1>1, <1>2, TypeParts

LEMMA EditTyped ==
    ASSUME TypeOK, NEW c \in Callers, NEW f \in Files, NEW content \in Contents \cup {Absent},
           Edit(c, f, content)
    PROVE  TypeOK'
<1>1. f \in Paths /\ f # ForksJson /\ content \in Contents \cup Texts(Ids) /\ work \in Trees(Ids)
  BY ForkAssumption, Marks DEF TypeOK, Paths
<1>2. work' \in Trees(Ids)
  BY <1>1, TreeUpdate DEF Edit
<1>3. JobsTyped'
  BY SameJobs DEF Edit
<1>4. RestTyped'
  BY <1>2, RestStep DEF TypeOK, Edit, bounds, history
<1> QED  BY <1>3, <1>4, TypeParts

LEMMA LoadedTyped == ASSUME TypeOK PROVE Loaded \in ForkMaps(Ids)
<1>1. work[ForksJson] \in {Absent, Empty, Torn} \cup ForkMaps(Ids)
  BY DEF TypeOK, Trees, Texts
<1> QED  BY <1>1, NoForksTyped DEF Loaded

LEMMA RestartTyped == ASSUME TypeOK, NEW m \in Managers, Restart(m) PROVE TypeOK'
<1>1. Loaded \in ForkMaps(Ids) /\ NoJob \in Jobs(Ids) /\ JobFits(Idle, NoJob)
  BY LoadedTyped, NoJobTyped, NoJobFits
<1>2. Ids' = Ids
  BY DEF Ids, Restart, repository
<1>3. JobsTyped'
  <2>1. pc' \in [Callers -> Locations] /\ job' \in [Callers -> Jobs(Ids)]
    BY <1>1, Labels DEF Restart, TypeOK
  <2>2. ASSUME NEW c \in Callers PROVE JobFits(pc'[c], job'[c])
    <3>1. \/ pc'[c] = Idle /\ job'[c] = NoJob
          \/ pc'[c] = pc[c] /\ job'[c] = job[c]
      BY DEF Restart
    <3> QED  BY <1>1, <3>1 DEF TypeOK
  <2>3. \A c \in Callers : JobFits(pc[c], job[c])'
    BY <1>2, <2>2 DEF JobFits, Restart, repository
  <2> QED  BY <1>2, <2>1, <2>3 DEF JobsTyped
<1>4. forks' \in [Managers -> ForkMaps(Ids)]
  BY <1>1 DEF Restart, TypeOK
<1>5. calls' \in 0..MaxCalls /\ faults' \in 0..MaxFaults
  BY ForkAssumption DEF Restart, Fault, bounds, TypeOK
<1>6. RestTyped'
  BY <1>4, <1>5, RestStep DEF Restart, TypeOK, repository, history
<1> QED  BY <1>3, <1>6, TypeParts
-----------------------------------------------------------------------------
LEMMA InitTyped == Init => TypeOK
<1> SUFFICES ASSUME Init PROVE TypeOK
  OBVIOUS
<1>1. PICK content \in InitialFiles, saved \in {Absent, NoForks} :
          work = [p \in Paths |-> IF p \in Files THEN content[p] ELSE saved]
  BY DEF Init
<1>2. commits = <<[parents |-> <<>>, tree |-> work]>> /\ DOMAIN commits = {1}
  BY DEF Init
<1>3. NoForks \in ForkMaps(Ids) /\ NoJob \in Jobs(Ids) /\ JobFits(Idle, NoJob)
  BY NoForksTyped, NoJobTyped, NoJobFits
<1>4. work \in Trees(Ids)
  BY <1>1, <1>3, ForkAssumption DEF Trees, Paths, Texts
<1>5. commits \in Seq(Object(Ids))
  <2>1. [parents |-> <<>>, tree |-> work] \in Object(Ids)
    <3>1. <<>> \in Seq(Ids)
      OBVIOUS
    <3> QED  BY <1>4, <3>1 DEF Object
  <2> HIDE DEF Object
  <2> QED  BY <1>2, <2>1
<1>6. JobsTyped
  BY <1>3, Labels DEF JobsTyped, Init
<1>7. 1 \in Ids
  BY <1>2 DEF Ids
<1>8. RestTyped
  <2>1. forks \in [Managers -> ForkMaps(Ids)]
    <3>1. forks = [m \in Managers |-> NoForks]
      BY DEF Init
    <3> QED  BY <1>3, <3>1
  <2>4. headBranch \in Branches
    BY DEF Init, Branches
  <2>3. branches \in [Branches -> Ids \cup {NoCommit}]
    <3>1. branches = [b \in Branches |-> IF b = Main THEN 1 ELSE NoCommit]
      BY DEF Init
    <3> QED  BY <1>7, <3>1
  <2>2. /\ calls \in 0..MaxCalls /\ faults \in 0..MaxFaults
        /\ landed \in [Names -> Nat] /\ rewritten \in BOOLEAN
    <3>1. MaxCalls \in Nat /\ MaxFaults \in Nat
      BY ForkAssumption
    <3>2. calls = 0 /\ faults = 0 /\ landed = [n \in Names |-> 0] /\ rewritten = FALSE
      BY DEF Init
    <3>3. 0 \in 0..MaxCalls /\ 0 \in 0..MaxFaults
      BY <3>1
    <3>4. landed \in [Names -> Nat]
      BY <3>2
    <3> QED  BY <3>2, <3>3, <3>4
  <2> QED  BY <1>4, <1>5, <2>1, <2>2, <2>3, <2>4 DEF RestTyped, Object
<1> QED  BY <1>6, <1>8, TypeParts

LEMMA NextTyped == TypeOK /\ [Next]_vars => TypeOK'
<1> SUFFICES ASSUME TypeOK, [Next]_vars PROVE TypeOK'
  OBVIOUS
<1>1. CASE UNCHANGED vars
  <2>1. JobsTyped'
    BY <1>1, SameJobs DEF vars
  <2>2. RestTyped'
    BY <1>1, RestStep DEF vars, TypeOK
  <2> QED  BY <2>1, <2>2, TypeParts
<1>2. ASSUME NEW c \in Callers, Call(c) PROVE TypeOK'
  BY <1>2, CreateForkTyped, AbandonForkTyped, CreateForkAtTyped, CreateNestedForkTyped,
     MergeForkTyped, CheckoutTyped, EditTyped, CommitTyped DEF Call
<1>3. ASSUME NEW c \in Callers, Step(c) PROVE TypeOK'
  BY <1>3, ReadForkPointTyped, CheckNameTyped, CheckBranchTyped, WriteBranchTyped, InsertTyped,
     DeleteBranchTyped, RemoveTyped, ReadOursTyped, ReadTheirsTyped, MergeTreesTyped,
     CheckoutParentTyped, ApplyTyped, MergeCommitTyped, MarkTyped, ReadFileTyped,
     OpenWriteBackTyped, FillWriteBackTyped, WriteCommitTyped, MoveHeadTyped, PersistTyped,
     StoreTyped DEF Step
<1> QED  BY <1>1, <1>2, <1>3, ApplyFailsTyped, RestartTyped DEF Next

\* Every id a record, a branch or a parent names is a commit that was written or the
\* id of none - create_fork_at takes forty digits as they are - and a merge that
\* gets past reading its trees has its fork point and both tips among the commits;
\* for any number of managers, callers, faults and crashes (fork.rs:219-242,
\* 398-430, git.rs:2061-2073, 2119-2134).
THEOREM ForkTypeCorrect == Spec => []TypeOK
BY InitTyped, NextTyped, PTL DEF Spec
-----------------------------------------------------------------------------
(* How callers move                                                         *)

\* The operations begin at these places; the rest of what is called is one step.
LEMMA Begins ==
    ASSUME TypeOK, NEW c \in Callers, Call(c)
    PROVE  /\ pc[c] = Idle
           /\ UNCHANGED <<forks, faults, history, commits, branches>>
           /\ \A d \in Callers \ {c} : pc'[d] = pc[d] /\ job'[d] = job[d]
           /\ \/ pc' = pc /\ job' = job
              \/ pc'[c] \in {"point", "check", "delete", "ours"}
              \/ Commit(c) /\ pc'[c] = "build"
           /\ work'[ForksJson] = work[ForksJson]
<1>0. pc \in [Callers -> Locations] /\ job \in [Callers -> Jobs(Ids)] /\ work \in Trees(Ids)
  BY DEF TypeOK
<1>1. ASSUME NEW l \in {"point", "check", "delete", "ours"}, NEW j, Begin(c, l, j)
      PROVE  /\ pc[c] = Idle /\ pc'[c] = l
             /\ \A d \in Callers \ {c} : pc'[d] = pc[d] /\ job'[d] = job[d]
  BY <1>0, <1>1 DEF Begin, At, Goto
<1>2. ASSUME NEW x \in Names, NEW id, NEW parent, NEW strategy,
             \/ CreateFork(c, x) \/ AbandonFork(c, x) \/ CreateForkAt(c, x, id)
             \/ CreateNestedFork(c, parent, x) \/ MergeFork(c, x, strategy)
      PROVE  /\ pc[c] = Idle /\ pc'[c] \in {"point", "check", "delete", "ours"}
             /\ \A d \in Callers \ {c} : pc'[d] = pc[d] /\ job'[d] = job[d]
             /\ UNCHANGED <<forks, repository, faults, history>>
  <2>1. CASE CreateFork(c, x) \/ AbandonFork(c, x)
    BY <1>1, <2>1 DEF CreateFork, AbandonFork
  <2>2. CASE CreateForkAt(c, x, id) \/ CreateNestedFork(c, parent, x) \/ MergeFork(c, x, strategy)
    BY <1>1, <2>2 DEF CreateForkAt, CreateNestedFork, MergeFork
  <2> QED  BY <1>2, <2>1, <2>2
<1>3. ASSUME NEW b, Checkout(c, b)
      PROVE  /\ pc[c] = Idle /\ pc' = pc /\ job' = job
             /\ UNCHANGED <<forks, work, faults, history, commits, branches>>
  BY <1>3 DEF Checkout, At, bounds
<1>4. ASSUME NEW f \in Files, NEW content, Edit(c, f, content)
      PROVE  /\ pc[c] = Idle /\ pc' = pc /\ job' = job
             /\ UNCHANGED <<forks, faults, history, commits, branches>>
             /\ work'[ForksJson] = work[ForksJson]
  <2>1. work'[ForksJson] = work[ForksJson]
    BY <1>0, <1>4, ForkAssumption DEF Edit, Trees, Paths
  <2> QED  BY <1>4, <2>1 DEF Edit, At, bounds
<1>5. ASSUME Commit(c)
      PROVE  /\ pc[c] = Idle /\ pc'[c] = "build"
             /\ \A d \in Callers \ {c} : pc'[d] = pc[d] /\ job'[d] = job[d]
             /\ UNCHANGED <<forks, repository, faults, history>>
  BY <1>0, <1>5 DEF Commit, At, Goto, bounds
<1> USE DEF repository
<1>6. CASE \E x \in Names : \/ CreateFork(c, x) \/ AbandonFork(c, x)
                            \/ \E id \in Ids : CreateForkAt(c, x, id)
                            \/ \E parent \in Names : CreateNestedFork(c, parent, x)
                            \/ \E strategy \in Strategies : MergeFork(c, x, strategy)
  <2>1. PICK x, id, parent, strategy : x \in Names /\
               \/ CreateFork(c, x) \/ AbandonFork(c, x) \/ CreateForkAt(c, x, id)
               \/ CreateNestedFork(c, parent, x) \/ MergeFork(c, x, strategy)
    BY <1>6, Zenon
  <2> QED  BY <1>2, <2>1
<1> QED  BY <1>3, <1>4, <1>5, <1>6 DEF Call

\* A caller that is in no call has no job.
IdleJobs == \A c \in Callers : At(c, Idle) => job[c] = NoJob

\* A step in a call ends it or stays in it.
LEMMA StaysOrReturns ==
    ASSUME TypeOK, NEW c \in Callers, Step(c) \/ ApplyFails(c)
    PROVE  /\ \A d \in Callers \ {c} : pc'[d] = pc[d] /\ job'[d] = job[d]
           /\ pc[c] # Idle
           /\ pc'[c] # Idle \/ job'[c] = NoJob
<1> USE DEF Idle
<1>0. pc \in [Callers -> Locations] /\ job \in [Callers -> Jobs(Ids)]
  BY DEF TypeOK
<1>1. ASSUME Return(c)
      PROVE  /\ job'[c] = NoJob
             /\ \A d \in Callers \ {c} : pc'[d] = pc[d] /\ job'[d] = job[d]
  BY <1>0, <1>1 DEF Return, Goto
<1>2. CASE ReadForkPoint(c) \/ CheckName(c) \/ CheckBranch(c) \/ WriteBranch(c) \/ Insert(c)
  BY <1>0, <1>1, <1>2 DEF ReadForkPoint, CheckName, CheckBranch, WriteBranch, Insert, At, Goto,
                          repository
<1>3. CASE DeleteBranch(c) \/ Remove(c) \/ ReadOurs(c) \/ ReadTheirs(c) \/ MergeTrees(c)
  BY <1>0, <1>1, <1>3 DEF DeleteBranch, Remove, ReadOurs, ReadTheirs, MergeTrees, At, Goto, repository
<1>4. CASE CheckoutParent(c) \/ Apply(c) \/ MergeCommit(c) \/ Mark(c)
  BY <1>0, <1>1, <1>4 DEF CheckoutParent, Apply, MergeCommit, Mark, At, Goto, repository
<1>5. CASE ReadFile(c)
  BY <1>0, <1>5 DEF ReadFile, At, Goto
<1>6. CASE OpenWriteBack(c) \/ FillWriteBack(c) \/ WriteCommit(c) \/ MoveHead(c)
  BY <1>0, <1>1, <1>6 DEF OpenWriteBack, FillWriteBack, WriteCommit, MoveHead, At, Goto
<1>7. CASE Persist(c) \/ Store(c) \/ ApplyFails(c)
  BY <1>0, <1>1, <1>7 DEF Persist, Store, ApplyFails, At, Goto
<1> QED  BY <1>2, <1>3, <1>4, <1>5, <1>6, <1>7 DEF Step

\* A process starts.
LEMMA Restarted ==
    ASSUME TypeOK, NEW m \in Managers, Restart(m), NEW c \in Callers
    PROVE  \/ ManagerOf[c] = m /\ pc'[c] = Idle /\ job'[c] = NoJob
           \/ ManagerOf[c] # m /\ pc'[c] = pc[c] /\ job'[c] = job[c]
BY DEF Restart

LEMMA IdleInductive == TypeOK /\ IdleJobs /\ [Next]_vars => IdleJobs'
<1> SUFFICES ASSUME TypeOK, IdleJobs, [Next]_vars PROVE IdleJobs'
  OBVIOUS
<1>1. CASE UNCHANGED vars
  BY <1>1 DEF vars, IdleJobs, At
<1>2. ASSUME NEW c \in Callers, Call(c) PROVE IdleJobs'
  BY <1>2, Begins DEF IdleJobs, At, Idle
<1>3. ASSUME NEW c \in Callers, Step(c) \/ ApplyFails(c) PROVE IdleJobs'
  BY <1>3, StaysOrReturns DEF IdleJobs, At
<1>4. ASSUME NEW m \in Managers, Restart(m) PROVE IdleJobs'
  BY <1>4, Restarted DEF IdleJobs, At
<1> QED  BY <1>1, <1>2, <1>3, <1>4 DEF Next
-----------------------------------------------------------------------------
(* ForksSurvive, for one process with any number of threads.  The file and    *)
(* the map may differ only while somebody is on the way to saving the map, or  *)
(* once a commit or a merge has written the file after the last save began.   *)

OneProcess == \A m1, m2 \in Managers : m1 = m2

SavedIsMine == \A c \in Callers : At(c, "store") => job[c].saved = Mine(c)

FileIsMine == \A c \in Callers : At(c, "store") => work[ForksJson] \in {Empty, Mine(c)}

\* The caller is about to write forks.json.
Writing(c) == pc[c] \in {"persist", "store"} \/ (pc[c] = "fill" /\ job[c].file = ForksJson)

SomebodyWrites == \A m \in Managers : forks[m] = Loaded \/ \E c \in Callers : Writing(c)

SaveInv == SavedIsMine /\ (~rewritten => FileIsMine /\ SomebodyWrites)

LEMMA SaveInit == Init => SaveInv
<1> SUFFICES ASSUME Init PROVE SaveInv
  OBVIOUS
<1>1. PICK content \in InitialFiles, saved \in {Absent, NoForks} :
          work = [p \in Paths |-> IF p \in Files THEN content[p] ELSE saved]
  BY DEF Init
<1>2. work[ForksJson] = saved
  BY <1>1, ForkAssumption DEF Paths
<1>3. \A m \in Managers : forks[m] = Loaded
  BY <1>2 DEF Init, Loaded
<1>4. \A c \in Callers : ~At(c, "store")
  BY DEF Init, At, Idle
<1> QED  BY <1>3, <1>4 DEF SaveInv, SavedIsMine, FileIsMine, SomebodyWrites

\* A step of one caller that has nothing to do with forks.json or the map.
LEMMA QuietStep ==
    ASSUME SaveInv, NEW c \in Callers,
           forks' = forks, work'[ForksJson] = work[ForksJson], rewritten' = rewritten,
           \A d \in Callers \ {c} : pc'[d] = pc[d] /\ job'[d] = job[d],
           pc'[c] # "store", ~Writing(c)
    PROVE  SaveInv'
<1>1. \A d \in Callers : pc'[d] = "store" => d # c /\ pc[d] = "store" /\ job'[d] = job[d]
  OBVIOUS
<1>2. SavedIsMine'
  BY <1>1 DEF SaveInv, SavedIsMine, At, Mine
<1>3. Loaded' = Loaded
  BY DEF Loaded
<1>4. \A d \in Callers : Writing(d) => Writing(d)'
  BY DEF Writing
<1>5. ASSUME ~rewritten PROVE FileIsMine' /\ SomebodyWrites'
  <2>1. FileIsMine'
    BY <1>1, <1>5 DEF SaveInv, FileIsMine, At, Mine
  <2>2. SomebodyWrites'
    BY <1>3, <1>4, <1>5 DEF SaveInv, SomebodyWrites
  <2> QED  BY <2>1, <2>2
<1> QED  BY <1>2, <1>5 DEF SaveInv

\* A step that changes the map: no one is saving it, and c is about to.
LEMMA LockedStep ==
    ASSUME OneProcess, NEW c \in Callers, CanLock(c),
           pc' = [pc EXCEPT ![c] = "persist"], TypeOK
    PROVE  SaveInv'
<1>1. \A d \in Callers : pc[d] # "store"
  BY ForkAssumption DEF CanLock, At, OneProcess
<1>2. \A d \in Callers : pc'[d] # "store"
  BY <1>1 DEF TypeOK
<1>3. Writing(c)'
  BY DEF TypeOK, Writing
<1> QED  BY <1>2, <1>3 DEF SaveInv, SavedIsMine, FileIsMine, SomebodyWrites, At

\* A step of c that overwrites forks.json: nothing holds of it until the next save.
LEMMA RewriteStep ==
    ASSUME SaveInv, NEW c \in Callers, rewritten', forks' = forks, pc'[c] # "store",
           \A d \in Callers \ {c} : pc'[d] = pc[d] /\ job'[d] = job[d]
    PROVE  SaveInv'
BY DEF SaveInv, SavedIsMine, At, Mine

LEMMA PersistSaves ==
    ASSUME OneProcess, TypeOK, SaveInv, NEW c \in Callers, Persist(c)
    PROVE  SaveInv'
<1>1. /\ pc[c] = "persist" /\ pc' = [pc EXCEPT ![c] = "store"] /\ forks' = forks
      /\ job' = [job EXCEPT ![c] = [job[c] EXCEPT !.saved = Mine(c)]]
  BY DEF Persist, At, Goto
<1>2. job'[c].saved = Mine(c)
  <2>1. job[c] \in Jobs(Ids)
    BY DEF TypeOK
  <2> QED  BY <1>1, <2>1 DEF Jobs, TypeOK
<1>3. work'[ForksJson] = Empty
  BY DEF Persist, TypeOK, Trees, Paths
<1>4. Writing(c)'
  BY <1>1 DEF TypeOK, Writing
<1>5. SavedIsMine'
  BY <1>1, <1>2 DEF SaveInv, SavedIsMine, At, Mine, TypeOK
<1> QED  BY <1>3, <1>4, <1>5 DEF SaveInv, FileIsMine, SomebodyWrites

LEMMA StoreSaves ==
    ASSUME OneProcess, TypeOK, SaveInv, NEW c \in Callers, Store(c)
    PROVE  SaveInv'
<1>1. /\ pc[c] = "store" /\ pc' = [pc EXCEPT ![c] = Idle] /\ forks' = forks
      /\ job' = [job EXCEPT ![c] = NoJob] /\ rewritten' = rewritten
  BY DEF Store, At, Return, Goto
<1>2. job[c].saved = Mine(c)
  BY <1>1 DEF SaveInv, SavedIsMine, At
<1>3. \A d \in Callers : pc'[d] = "store" => d # c /\ pc[d] = "store" /\ job'[d] = job[d]
  BY <1>1 DEF TypeOK, Idle
<1>4. SavedIsMine'
  BY <1>1, <1>3 DEF SaveInv, SavedIsMine, At, Mine
<1>5. \A m \in Managers : forks'[m] = Mine(c)
  BY <1>1, ForkAssumption DEF Mine, OneProcess
<1>6. \A d \in Callers : Mine(d)' = Mine(c)
  BY <1>5, ForkAssumption DEF Mine
<1>7. Mine(c) \notin {Absent, Empty, Torn}
  BY Known, IdsAreIds, MapsAreNoMarks
<1>8. ASSUME ~rewritten PROVE FileIsMine' /\ SomebodyWrites'
  <2>1. work[ForksJson] \in {Empty, Mine(c)}
    BY <1>1, <1>8 DEF SaveInv, FileIsMine, At
  <2>2. PICK left \in {Mine(c), Torn} :
            /\ left = Torn => work[ForksJson] \notin {Absent, Empty, Mine(c)}
            /\ work' = [work EXCEPT ![ForksJson] =
                         IF @ = Absent \/ Mine(c) = Empty THEN @ ELSE left]
    BY <1>2 DEF Store, Fill
  <2>3. left = Mine(c) /\ work[ForksJson] # Absent
    BY <1>7, <2>1, <2>2, ForkAssumption
  <2>4. work'[ForksJson] = Mine(c)
    BY <1>7, <2>2, <2>3 DEF TypeOK, Trees, Paths
  <2>5. Loaded' = Mine(c)
    BY <1>7, <2>4 DEF Loaded
  <2> QED  BY <1>5, <1>6, <2>4, <2>5 DEF FileIsMine, SomebodyWrites
<1> QED  BY <1>1, <1>4, <1>8 DEF SaveInv

\* The write-back of a commit, truncating and filling.
LEMMA OpenSaves ==
    ASSUME TypeOK, SaveInv, NEW c \in Callers, OpenWriteBack(c)
    PROVE  SaveInv'
<1>1. /\ pc[c] = "open" /\ pc' = [pc EXCEPT ![c] = "fill"] /\ forks' = forks
      /\ job' = job /\ rewritten' = rewritten
      /\ work' = [work EXCEPT ![job[c].file] = Empty]
  BY DEF OpenWriteBack, At, Goto, history
<1>2. /\ \A d \in Callers \ {c} : pc'[d] = pc[d] /\ job'[d] = job[d]
      /\ pc'[c] = "fill" /\ work \in Trees(Ids) /\ job[c].file \in Paths
  BY <1>1, Known DEF TypeOK
<1>3. CASE job[c].file # ForksJson
  <2>1. work'[ForksJson] = work[ForksJson]
    BY <1>1, <1>3
  <2> QED  BY <1>1, <1>2, <2>1, QuietStep DEF Writing
<1>4. CASE job[c].file = ForksJson
  <2>1. work'[ForksJson] = Empty
    BY <1>1, <1>2, <1>4 DEF Trees
  <2>2. Writing(c)'
    BY <1>1, <1>2, <1>4 DEF Writing
  <2>3. SavedIsMine'
    BY <1>1, <1>2 DEF SaveInv, SavedIsMine, At, Mine
  <2> QED  BY <2>1, <2>2, <2>3 DEF SaveInv, FileIsMine, SomebodyWrites
<1> QED  BY <1>3, <1>4

LEMMA FillSaves ==
    ASSUME TypeOK, SaveInv, NEW c \in Callers, FillWriteBack(c)
    PROVE  SaveInv'
<1>1. /\ pc[c] = "fill" /\ pc' = [pc EXCEPT ![c] = "build"] /\ forks' = forks
      /\ rewritten' = (rewritten \/ job[c].file = ForksJson)
  BY DEF FillWriteBack, At, Goto
<1>2. \A d \in Callers \ {c} : pc'[d] = pc[d] /\ job'[d] = job[d]
  BY StaysOrReturns DEF Step
<1>3. pc'[c] = "build"
  BY <1>1 DEF TypeOK
<1>4. CASE job[c].file = ForksJson
  BY <1>1, <1>2, <1>3, <1>4, RewriteStep
<1>5. CASE job[c].file # ForksJson
  <2>1. work'[ForksJson] = work[ForksJson] /\ rewritten' = rewritten
    BY <1>1, <1>5 DEF FillWriteBack, Fill, TypeOK
  <2> QED  BY <1>1, <1>2, <1>3, <1>5, <2>1, QuietStep DEF Writing
<1> QED  BY <1>4, <1>5

LEMMA StepSaves ==
    ASSUME OneProcess, TypeOK, SaveInv, NEW c \in Callers, Step(c) \/ ApplyFails(c)
    PROVE  SaveInv'
<1>0. /\ \A d \in Callers \ {c} : pc'[d] = pc[d] /\ job'[d] = job[d]
      /\ pc \in [Callers -> Locations]
  BY StaysOrReturns DEF TypeOK
<1>1. CASE ReadForkPoint(c) \/ CheckName(c) \/ CheckBranch(c) \/ WriteBranch(c) \/ DeleteBranch(c)
  <2>1. /\ pc'[c] # "store" /\ ~Writing(c)
        /\ UNCHANGED <<forks, work, rewritten>>
    BY <1>0, <1>1 DEF ReadForkPoint, CheckName, CheckBranch, WriteBranch, DeleteBranch, Return,
                      Goto, At, repository, history, Writing, Idle
  <2> QED  BY <1>0, <2>1, QuietStep
<1>2. CASE ReadOurs(c) \/ ReadTheirs(c) \/ MergeTrees(c) \/ CheckoutParent(c) \/ MergeCommit(c)
  <2>1. /\ pc'[c] # "store" /\ ~Writing(c)
        /\ UNCHANGED <<forks, work, rewritten>>
    BY <1>0, <1>2 DEF ReadOurs, ReadTheirs, MergeTrees, CheckoutParent, MergeCommit, Return,
                      Goto, At, repository, history, Writing, Idle
  <2> QED  BY <1>0, <2>1, QuietStep
<1>3. CASE ReadFile(c) \/ WriteCommit(c) \/ MoveHead(c)
  <2>1. /\ pc'[c] # "store" /\ ~Writing(c)
        /\ UNCHANGED <<forks, work, rewritten>>
    BY <1>0, <1>3, Zenon DEF ReadFile, WriteCommit, MoveHead, Return,
                      Goto, At, repository, history, Writing, Idle
  <2> QED  BY <1>0, <2>1, QuietStep
<1>4. CASE Insert(c) \/ Remove(c) \/ Mark(c)
  <2>1. CanLock(c) /\ pc' = [pc EXCEPT ![c] = "persist"]
    BY <1>4 DEF Insert, Remove, Mark, SetFork, Goto
  <2> QED  BY <2>1, LockedStep
<1>5. CASE Apply(c) \/ ApplyFails(c)
  <2>1. rewritten' /\ forks' = forks /\ pc'[c] # "store"
    BY <1>0, <1>5 DEF Apply, ApplyFails, Return, Goto, Idle
  <2> QED  BY <1>0, <2>1, RewriteStep
<1> QED  BY <1>1, <1>2, <1>3, <1>4, <1>5, PersistSaves, StoreSaves, OpenSaves, FillSaves DEF Step

LEMMA CallSaves ==
    ASSUME TypeOK, SaveInv, NEW c \in Callers, Call(c)
    PROVE  SaveInv'
<1>1. /\ ~Writing(c) /\ pc'[c] # "store" /\ UNCHANGED <<forks, rewritten>>
      /\ \A d \in Callers \ {c} : pc'[d] = pc[d] /\ job'[d] = job[d]
      /\ work'[ForksJson] = work[ForksJson]
  BY Begins DEF Writing, Idle, history
<1> QED  BY <1>1, QuietStep

LEMMA RestartSaves ==
    ASSUME OneProcess, TypeOK, SaveInv, NEW m \in Managers, Restart(m)
    PROVE  SaveInv'
<1>1. \A c \in Callers : ManagerOf[c] = m
  BY ForkAssumption DEF OneProcess
<1>2. \A c \in Callers : pc'[c] = Idle
  BY <1>1 DEF Restart
<1>3. SavedIsMine' /\ FileIsMine'
  BY <1>2 DEF SavedIsMine, FileIsMine, At, Idle
<1>4. \A k \in Managers : forks'[k] = Loaded
  BY DEF Restart, OneProcess, TypeOK
<1>5. Loaded' = Loaded
  BY DEF Restart, repository, Loaded
<1> QED  BY <1>3, <1>4, <1>5 DEF SaveInv, SomebodyWrites

\* In one process, whatever its threads do and whatever fails, forks.json has every
\* fork the process knows when no thread is in a call, unless a commit or a merge
\* wrote it after the last save began: the write lock of the map waits for a save,
\* and two saves that meet store the same map (fork.rs:594-607).
THEOREM ForksAreSaved ==
    ASSUME OneProcess
    PROVE  Spec => []ForksSurvive
<1> DEFINE Inv == TypeOK /\ SaveInv
<1>1. Init => Inv
  BY InitTyped, SaveInit
<1>2. Inv /\ [Next]_vars => Inv'
  <2> SUFFICES ASSUME TypeOK, SaveInv, [Next]_vars PROVE SaveInv'
    BY NextTyped
  <2>1. CASE UNCHANGED vars
    BY <2>1 DEF vars, SaveInv, SavedIsMine, FileIsMine, SomebodyWrites, Writing, At, Mine, Loaded
  <2>2. CASE Next
    BY <2>2, CallSaves, StepSaves, RestartSaves DEF Next
  <2> QED  BY <2>1, <2>2
<1>3. Inv => ForksSurvive
  BY DEF SaveInv, SomebodyWrites, ForksSurvive, Quiescent, At, Writing, Idle
<1> QED  BY <1>1, <1>2, <1>3, PTL DEF Spec
-----------------------------------------------------------------------------
(* What the steps of a commit do to the job                                 *)

\* The job's operation, and how far it got before the commit.
SameTask(j, k) ==
    /\ k.name = j.name /\ k.parent = j.parent /\ k.point = j.point /\ k.tip = j.tip
    /\ k.ours = j.ours /\ k.theirs = j.theirs /\ k.strategy = j.strategy
    /\ k.merged = j.merged /\ k.found = j.found

LEMMA BuildBegins ==
    ASSUME TypeOK, NEW c \in Callers, Commit(c) \/ MergeCommit(c)
    PROVE  /\ pc[c] \in {Idle, "commit"} /\ pc'[c] = "build"
           /\ SameTask(job[c], job'[c]) /\ job'[c].id = job[c].id
           /\ job'[c].todo = Paths /\ job'[c].tree = job[c].tree
           /\ UNCHANGED <<forks, repository, faults, history>>
<1>1. /\ pc[c] \in {Idle, "commit"} /\ pc' = [pc EXCEPT ![c] = "build"]
      /\ job' = [job EXCEPT ![c] = [job[c] EXCEPT !.todo = Paths]]
      /\ UNCHANGED <<forks, repository, faults, history>>
  BY DEF Commit, MergeCommit, Goto, At, bounds
<1>2. pc \in [Callers -> Locations] /\ job \in [Callers -> Jobs(Ids)] /\ job[c] \in Jobs(Ids)
  BY DEF TypeOK
<1>3. pc'[c] = "build" /\ job'[c] = [job[c] EXCEPT !.todo = Paths]
  BY <1>1, <1>2
<1>4. SameTask(job[c], job'[c]) /\ job'[c].id = job[c].id /\ job'[c].todo = Paths
      /\ job'[c].tree = job[c].tree
  BY <1>2, <1>3 DEF Jobs, SameTask
<1> QED  BY <1>1, <1>3, <1>4

LEMMA FileRead ==
    ASSUME TypeOK, NEW c \in Callers, ReadFile(c)
    PROVE  /\ pc[c] = "build" /\ SameTask(job[c], job'[c])
           /\ job'[c].id = job[c].id /\ job'[c].tree = job[c].tree
           /\ UNCHANGED <<forks, repository, faults, history>>
           /\ \E p \in job[c].todo :
                  /\ job'[c].todo = job[c].todo \ {p}
                  /\ IF work[p] = Absent THEN pc'[c] = "build"
                     ELSE pc'[c] = "open" /\ job'[c].file = p /\ job'[c].text = work[p]
<1>1. pc[c] = "build" /\ UNCHANGED <<forks, repository, faults, history>>
  BY DEF ReadFile, At, bounds
<1>2. pc \in [Callers -> Locations] /\ job \in [Callers -> Jobs(Ids)] /\ job[c] \in Jobs(Ids)
  BY DEF TypeOK
<1>3. PICK p \in job[c].todo :
         IF work[p] = Absent
           THEN job' = [job EXCEPT ![c] = [job[c] EXCEPT !.todo = @ \ {p}]] /\ UNCHANGED pc
           ELSE /\ job' = [job EXCEPT ![c] = [job[c] EXCEPT !.todo = @ \ {p}, !.file = p,
                                                            !.text = work[p]]]
                /\ Goto(c, "open")
  BY Zenon DEF ReadFile
<1>4. CASE work[p] = Absent
  <2>1. job'[c] = [job[c] EXCEPT !.todo = @ \ {p}] /\ pc'[c] = "build"
    BY <1>1, <1>2, <1>3, <1>4
  <2>2. /\ SameTask(job[c], job'[c]) /\ job'[c].id = job[c].id /\ job'[c].tree = job[c].tree
        /\ job'[c].todo = job[c].todo \ {p}
    BY <1>2, <2>1 DEF Jobs, SameTask
  <2> QED  BY <1>1, <1>4, <2>1, <2>2
<1>5. CASE work[p] # Absent
  <2>1. /\ job'[c] = [job[c] EXCEPT !.todo = @ \ {p}, !.file = p, !.text = work[p]]
        /\ pc'[c] = "open"
    BY <1>1, <1>2, <1>3, <1>5 DEF Goto
  <2>2. /\ SameTask(job[c], job'[c]) /\ job'[c].id = job[c].id /\ job'[c].tree = job[c].tree
        /\ job'[c].todo = job[c].todo \ {p} /\ job'[c].file = p /\ job'[c].text = work[p]
    BY <1>2, <2>1 DEF Jobs, SameTask
  <2> QED  BY <1>1, <1>5, <2>1, <2>2
<1> QED  BY <1>4, <1>5

LEMMA FileOpened ==
    ASSUME TypeOK, NEW c \in Callers, OpenWriteBack(c)
    PROVE  /\ pc[c] = "open" /\ pc'[c] = "fill"
           /\ UNCHANGED <<forks, commits, branches, headBranch, job, faults, history>>
           /\ work'[job[c].file] = Empty
           /\ \A p \in Paths : p # job[c].file => work'[p] = work[p]
<1>1. job[c].file \in Paths /\ work \in Trees(Ids) /\ pc \in [Callers -> Locations]
  BY Known DEF TypeOK
<1> QED  BY <1>1 DEF OpenWriteBack, At, Goto, bounds, Trees

LEMMA FileFilled ==
    ASSUME TypeOK, NEW c \in Callers, FillWriteBack(c)
    PROVE  /\ pc[c] = "fill" /\ pc'[c] = "build" /\ SameTask(job[c], job'[c])
           /\ job'[c].id = job[c].id /\ job'[c].todo = job[c].todo
           /\ UNCHANGED <<forks, commits, branches, headBranch, faults, landed>>
           /\ \A p \in Paths \ {job[c].file} :
                  work'[p] = work[p] /\ job'[c].tree[p] = job[c].tree[p]
           /\ work[job[c].file] = Empty =>
                  work'[job[c].file] = job[c].text /\ job'[c].tree[job[c].file] = job[c].text
<1> DEFINE q == job[c].file
           text == job[c].text
           entry == IF work[q] = Absent THEN Absent ELSE text
           tree == [job[c].tree EXCEPT ![q] = entry]
<1>1. /\ q \in Paths /\ work \in Trees(Ids) /\ job[c].tree \in Trees(Ids)
      /\ pc \in [Callers -> Locations] /\ job \in [Callers -> Jobs(Ids)] /\ job[c] \in Jobs(Ids)
  BY Known DEF TypeOK
<1>2. /\ pc[c] = "fill" /\ pc' = [pc EXCEPT ![c] = "build"]
      /\ job' = [job EXCEPT ![c] = [job[c] EXCEPT !.file = ForksJson, !.text = Absent,
                                                  !.tree[q] = entry]]
      /\ UNCHANGED <<forks, commits, branches, headBranch, faults, landed>>
  BY DEF FillWriteBack, At, Goto, bounds
<1>3. /\ pc'[c] = "build"
      /\ job'[c] = [job[c] EXCEPT !.file = ForksJson, !.text = Absent, !.tree = tree]
  <2> HIDE DEF entry, q
  <2> QED  BY <1>1, <1>2 DEF Jobs
<1>4. PICK left \in {text, Torn} :
          /\ left = Torn => work[q] \notin {Absent, Empty, text}
          /\ work' = [work EXCEPT ![q] = IF @ = Absent \/ text = Empty THEN @ ELSE left]
  BY DEF FillWriteBack, Fill
<1>5. \A p \in Paths : p # q => work'[p] = work[p]
  BY <1>1, <1>4 DEF Trees
<1>6. work[q] = Empty => work'[q] = text /\ tree[q] = text
  BY <1>1, <1>4, ForkAssumption DEF Trees
<1>7. \A p \in Paths : p # q => tree[p] = job[c].tree[p]
  BY <1>1 DEF Trees
<1> HIDE DEF tree, q, text
<1>8. /\ SameTask(job[c], job'[c]) /\ job'[c].id = job[c].id /\ job'[c].todo = job[c].todo
      /\ job'[c].tree = tree
  BY <1>1, <1>3 DEF Jobs, SameTask
<1> QED  BY <1>2, <1>3, <1>5, <1>6, <1>7, <1>8 DEF q, text

\* The commit is the newest one and has the tree that was built.
LEMMA CommitWritten ==
    ASSUME TypeOK, NEW c \in Callers, WriteCommit(c)
    PROVE  /\ pc[c] = "build" /\ pc'[c] = "head" /\ SameTask(job[c], job'[c])
           /\ job[c].todo = {}
           /\ UNCHANGED <<forks, work, branches, headBranch, faults, history>>
           /\ job'[c].id \in DOMAIN commits' /\ job'[c].id = Len(commits) + 1
           /\ job'[c].id # NoCommit /\ job'[c].tree = EmptyTree
           /\ commits'[job'[c].id] =
                 [parents |-> IF Merging(c) THEN <<job[c].ours, job[c].theirs>>
                              ELSE IF HeadTip = NoCommit THEN <<>> ELSE <<HeadTip>>,
                  tree |-> job[c].tree]
           /\ Len(commits') = Len(commits) + 1
           /\ \A id \in DOMAIN commits : id \in DOMAIN commits' /\ commits'[id] = commits[id]
<1> DEFINE o == [parents |-> IF Merging(c) THEN <<job[c].ours, job[c].theirs>>
                             ELSE IF HeadTip = NoCommit THEN <<>> ELSE <<HeadTip>>,
                 tree |-> job[c].tree]
           A == Object(Ids)
<1>1. /\ pc \in [Callers -> Locations] /\ job \in [Callers -> Jobs(Ids)] /\ job[c] \in Jobs(Ids)
      /\ commits \in Seq(A)
  BY DEF TypeOK, Object
<1>2. /\ pc[c] = "build" /\ pc' = [pc EXCEPT ![c] = "head"] /\ job[c].todo = {}
      /\ job' = [job EXCEPT ![c] = [job[c] EXCEPT !.id = Len(commits'), !.tree = EmptyTree]]
      /\ commits' = Append(commits, o)
      /\ UNCHANGED <<forks, work, branches, headBranch, faults, history>>
  BY DEF WriteCommit, At, Goto, bounds
<1> HIDE DEF o, A
<1>3. /\ pc'[c] = "head"
      /\ job'[c] = [job[c] EXCEPT !.id = Len(commits'), !.tree = EmptyTree]
  BY <1>1, <1>2
<1>4. SameTask(job[c], job'[c]) /\ job'[c].id = Len(commits') /\ job'[c].tree = EmptyTree
  BY <1>1, <1>3 DEF Jobs, SameTask
<1>5. /\ Len(commits') = Len(commits) + 1
      /\ DOMAIN commits' = DOMAIN commits \cup {Len(commits) + 1}
      /\ commits'[Len(commits) + 1] = o
      /\ \A id \in DOMAIN commits : commits'[id] = commits[id]
  <2>1. commits \in Seq(A \cup {o}) /\ o \in A \cup {o}
    BY <1>1
  <2> QED  BY <1>2, <2>1, Appended
<1>6. Len(commits) \in Nat
  BY <1>1
<1> QED  BY <1>2, <1>3, <1>4, <1>5, <1>6 DEF o, NoCommit
-----------------------------------------------------------------------------
(* What one caller of one process, without failures, knows of forks.json: the  *)
(* map is what a process started now would load, except while a merge or the  *)
(* save of a change is under way, and a file being written back is empty until  *)
(* it has its text again.                                                    *)

OneCaller == Callers # {} /\ \A c, d \in Callers : c = d

AsForks(text) == IF text \in {Absent, Empty, Torn} THEN NoForks ELSE text

\* What forks.json holds, or will hold when it has been written back.
Pending(c) ==
    IF pc[c] \in {"open", "fill"} /\ job[c].file = ForksJson THEN job[c].text ELSE work[ForksJson]

\* The caller's call will save the map.
Ending(c) ==
    \/ pc[c] \in {"persist", "store"}
    \/ Merging(c) /\ pc[c] \in Building \cup {"commit", "head", "mark"}

SerialInv ==
    faults = 0 =>
        \A c \in Callers :
            /\ Ending(c) \/ \A m \in Managers : forks[m] = AsForks(Pending(c))
            /\ At(c, "fill") => work[job[c].file] = Empty
            /\ At(c, "store") => work[ForksJson] = Empty /\ job[c].saved = Mine(c)

LEMMA SerialInit == Init => SerialInv
<1> SUFFICES ASSUME Init PROVE SerialInv
  OBVIOUS
<1>1. PICK content \in InitialFiles, saved \in {Absent, NoForks} :
          work = [p \in Paths |-> IF p \in Files THEN content[p] ELSE saved]
  BY DEF Init
<1>2. work[ForksJson] = saved
  BY <1>1, ForkAssumption DEF Paths
<1>3. \A m \in Managers : forks[m] = AsForks(work[ForksJson])
  BY <1>2 DEF Init, AsForks
<1>4. \A c \in Callers : pc[c] = "idle"
  BY DEF Init, Idle
<1> QED  BY <1>3, <1>4 DEF SerialInv, Pending, At

\* A step that leaves the map and forks.json alone.
LEMMA SerialStep ==
    ASSUME OneCaller, SerialInv, NEW c \in Callers, faults' = faults, forks' = forks,
           work'[ForksJson] = work[ForksJson],
           pc[c] \notin {"open", "fill"}, pc'[c] \notin {"open", "fill", "store"},
           Ending(c) => Ending(c)'
    PROVE  SerialInv'
BY DEF SerialInv, OneCaller, Pending, At

\* A step after which the map will be saved.
LEMMA SerialEnding ==
    ASSUME OneCaller, NEW c \in Callers, Ending(c)', pc'[c] \notin {"fill", "store"}
    PROVE  SerialInv'
BY DEF SerialInv, OneCaller, At

LEMMA SerialCall ==
    ASSUME OneCaller, TypeOK, SerialInv, NEW c \in Callers, Call(c)
    PROVE  SerialInv'
<1>1. /\ UNCHANGED <<forks, faults>> /\ work'[ForksJson] = work[ForksJson]
      /\ pc[c] = "idle" /\ pc'[c] \in {"idle", "point", "check", "delete", "ours", "build"}
  BY Begins, Zenon DEF Idle
<1>2. ~Ending(c)
  BY <1>1 DEF Ending, Building
<1> QED  BY <1>1, <1>2, SerialStep

LEMMA SerialPersist ==
    ASSUME OneCaller, TypeOK, NEW c \in Callers, Persist(c)
    PROVE  SerialInv'
<1>1. /\ pc' = [pc EXCEPT ![c] = "store"] /\ forks' = forks
      /\ job' = [job EXCEPT ![c] = [job[c] EXCEPT !.saved = Mine(c)]]
  BY DEF Persist, Goto
<1>2. job'[c].saved = Mine(c) /\ pc'[c] = "store"
  BY <1>1, Known DEF Jobs, TypeOK
<1>3. work'[ForksJson] = Empty
  BY DEF Persist, TypeOK, Trees, Paths
<1> QED  BY <1>1, <1>2, <1>3 DEF SerialInv, OneCaller, Ending, At, Mine

LEMMA SerialStore ==
    ASSUME OneCaller, OneProcess, TypeOK, SerialInv, NEW c \in Callers, Store(c)
    PROVE  SerialInv'
<1>1. /\ pc[c] = "store" /\ pc' = [pc EXCEPT ![c] = "idle"] /\ forks' = forks /\ faults' = faults
  BY DEF Store, At, Return, Goto, Idle, bounds
<1>2. pc'[c] = "idle"
  BY <1>1 DEF TypeOK
<1>3. \A m \in Managers : forks'[m] = Mine(c)
  BY <1>1, ForkAssumption DEF Mine, OneProcess
<1>4. Mine(c) \notin {Absent, Empty, Torn}
  BY Known, IdsAreIds, MapsAreNoMarks
<1>5. ASSUME faults = 0 PROVE work'[ForksJson] = Mine(c)
  <2>1. work[ForksJson] = Empty /\ job[c].saved = Mine(c)
    BY <1>1, <1>5 DEF SerialInv, At
  <2>2. PICK left \in {Mine(c), Torn} :
            /\ left = Torn => work[ForksJson] \notin {Absent, Empty, Mine(c)}
            /\ work' = [work EXCEPT ![ForksJson] =
                         IF @ = Absent \/ Mine(c) = Empty THEN @ ELSE left]
    BY <2>1 DEF Store, Fill
  <2>3. left = Mine(c) /\ work[ForksJson] # Absent
    BY <2>1, <2>2, ForkAssumption
  <2> QED  BY <1>4, <2>2, <2>3 DEF TypeOK, Trees, Paths
<1> QED  BY <1>1, <1>2, <1>3, <1>4, <1>5 DEF SerialInv, OneCaller, Pending, AsForks, At

LEMMA SerialRead ==
    ASSUME OneCaller, TypeOK, SerialInv, NEW c \in Callers, ReadFile(c)
    PROVE  SerialInv'
<1>1. /\ pc[c] = "build" /\ UNCHANGED <<forks, work, faults>>
      /\ job'[c].theirs = job[c].theirs
  BY FileRead DEF SameTask, repository
<1>2. \/ pc'[c] = "build"
      \/ /\ pc'[c] = "open"
         /\ job'[c].file = ForksJson => job'[c].text = work[ForksJson]
  BY FileRead
<1>3. Ending(c) => Ending(c)'
  BY <1>1, <1>2 DEF Ending, Merging, Building
<1>4. Pending(c)' = Pending(c)
  BY <1>1, <1>2 DEF Pending
<1> QED  BY <1>1, <1>2, <1>3, <1>4 DEF SerialInv, OneCaller, At

LEMMA SerialOpen ==
    ASSUME OneCaller, TypeOK, SerialInv, NEW c \in Callers, OpenWriteBack(c)
    PROVE  SerialInv'
<1>1. /\ pc[c] = "open" /\ pc'[c] = "fill" /\ UNCHANGED <<forks, faults, job>>
      /\ work'[job[c].file] = Empty
      /\ job[c].file # ForksJson => work'[ForksJson] = work[ForksJson]
  BY FileOpened DEF Paths
<1>2. Pending(c)' = Pending(c)
  BY <1>1 DEF Pending
<1>3. Ending(c) => Ending(c)'
  BY <1>1 DEF Ending, Merging, Building
<1> QED  BY <1>1, <1>2, <1>3 DEF SerialInv, OneCaller, At

LEMMA SerialFill ==
    ASSUME OneCaller, TypeOK, SerialInv, NEW c \in Callers, FillWriteBack(c)
    PROVE  SerialInv'
<1>1. /\ pc[c] = "fill" /\ pc'[c] = "build" /\ UNCHANGED <<forks, faults>>
      /\ job'[c].theirs = job[c].theirs
      /\ job[c].file # ForksJson => work'[ForksJson] = work[ForksJson]
      /\ work[job[c].file] = Empty => work'[job[c].file] = job[c].text
  BY FileFilled DEF Paths, SameTask
<1>2. Ending(c) => Ending(c)'
  BY <1>1 DEF Ending, Merging, Building
<1>3. faults = 0 => Pending(c)' = Pending(c)
  BY <1>1 DEF Pending, SerialInv, At
<1> QED  BY <1>1, <1>2, <1>3 DEF SerialInv, OneCaller, At

LEMMA SerialOfStep ==
    ASSUME OneCaller, OneProcess, TypeOK, SerialInv, NEW c \in Callers, Step(c)
    PROVE  SerialInv'
<1>0. pc \in [Callers -> Locations] /\ job[c] \in Jobs(Ids) /\ JobFits(pc[c], job[c])
  BY Known DEF TypeOK
<1>1. CASE ReadForkPoint(c) \/ CheckName(c) \/ CheckBranch(c) \/ WriteBranch(c) \/ DeleteBranch(c)
  <2>1. /\ UNCHANGED <<forks, work, faults>>
        /\ pc[c] \in {"point", "check", "checkBranch", "branch", "delete"}
        /\ pc'[c] \in {"idle", "check", "checkBranch", "branch", "insert", "remove"}
    BY <1>0, <1>1 DEF ReadForkPoint, CheckName, CheckBranch, WriteBranch, DeleteBranch, Return,
                      Goto, At, repository, bounds, Idle
  <2>2. ~Ending(c)
    BY <2>1 DEF Ending, Building
  <2> QED  BY <2>1, <2>2, SerialStep
<1>2. CASE ReadOurs(c) \/ ReadTheirs(c) \/ MergeTrees(c) \/ CheckoutParent(c)
  <2>1. /\ UNCHANGED <<forks, work, faults>>
        /\ pc[c] \in {"ours", "theirs", "trees", "checkout"}
        /\ pc'[c] \in {"idle", "theirs", "trees", "mark", "checkout", "apply"}
    BY <1>0, <1>2 DEF ReadOurs, ReadTheirs, MergeTrees, CheckoutParent, Return,
                      Goto, At, repository, bounds, Idle
  <2>2. ~Ending(c)
    BY <2>1 DEF Ending, Building
  <2> QED  BY <2>1, <2>2, SerialStep
<1>3. CASE Apply(c)
  <2>1. pc[c] = "apply" /\ pc'[c] = "commit" /\ job[c].theirs # NoCommit
    BY <1>0, <1>3 DEF Apply, Goto, At, JobFits
  <2>2. job'[c].theirs = job[c].theirs
    <3>1. job' = [job EXCEPT ![c] = [job[c] EXCEPT !.found = work]]
      BY <1>3 DEF Apply
    <3> QED  BY <1>0, <3>1 DEF TypeOK, Jobs
  <2> QED  BY <2>1, <2>2, SerialEnding DEF Ending, Merging
<1>4. CASE MergeCommit(c)
  <2>1. job[c].theirs # NoCommit
    BY <1>0, <1>4 DEF MergeCommit, At, JobFits
  <2>2. pc'[c] = "build" /\ job'[c].theirs = job[c].theirs
    BY <1>4, BuildBegins DEF SameTask
  <2> QED  BY <2>1, <2>2, SerialEnding DEF Ending, Merging, Building
<1>5. CASE Insert(c) \/ Remove(c) \/ Mark(c)
  <2>1. pc'[c] = "persist"
    BY <1>0, <1>5 DEF Insert, Remove, Mark, Goto
  <2> QED  BY <2>1, SerialEnding DEF Ending
<1>6. CASE WriteCommit(c)
  <2>1. /\ pc[c] = "build" /\ pc'[c] = "head" /\ UNCHANGED <<forks, work, faults>>
        /\ job'[c].theirs = job[c].theirs
    BY <1>6, CommitWritten DEF SameTask
  <2>2. Ending(c) => Ending(c)'
    BY <2>1 DEF Ending, Merging
  <2> QED  BY <2>1, <2>2, SerialStep
<1>7. CASE MoveHead(c)
  <2>1. /\ pc[c] = "head" /\ UNCHANGED <<forks, work, faults>>
        /\ IF Merging(c) THEN pc'[c] = "mark" /\ job' = job ELSE pc'[c] = "idle"
    BY <1>0, <1>7 DEF MoveHead, Goto, Return, Idle, At, bounds
  <2>2. Ending(c) => Ending(c)'
    BY <2>1 DEF Ending, Merging
  <2> QED  BY <2>1, <2>2, SerialStep
<1> QED  BY <1>1, <1>2, <1>3, <1>4, <1>5, <1>6, <1>7, SerialPersist, SerialStore, SerialRead,
            SerialOpen, SerialFill DEF Step

\* A process that starts without a fault knows what the last one knew.
LEMMA RestartKnows ==
    ASSUME OneCaller, OneProcess, TypeOK, SerialInv, NEW m \in Managers, Restart(m), faults' = 0
    PROVE  /\ faults = 0 /\ forks' = forks /\ work' = work
           /\ \A c \in Callers : pc[c] = Idle /\ pc'[c] = Idle /\ job'[c] = NoJob
<1>1. \A c \in Callers : ManagerOf[c] = m
  BY ForkAssumption DEF OneProcess
<1>2. faults \in Nat
  BY DEF TypeOK
<1>3. ~Fault
  BY <1>2 DEF Fault
<1>4. faults' = faults /\ \A c \in Callers : pc[c] = Idle
  BY <1>1, <1>3 DEF Restart, At, bounds
<1>5. PICK c \in Callers : TRUE
  BY DEF OneCaller
<1>6. ~Ending(c) /\ Pending(c) = work[ForksJson]
  BY <1>4 DEF Ending, Pending, Building, Idle
<1>7. forks[m] = AsForks(work[ForksJson])
  BY <1>4, <1>6 DEF SerialInv
<1>8. forks' = forks
  BY <1>7 DEF Restart, Loaded, AsForks, TypeOK
<1>9. \A d \in Callers : pc'[d] = Idle /\ job'[d] = NoJob
  BY <1>1, Restarted
<1> QED  BY <1>4, <1>8, <1>9 DEF Restart, repository

LEMMA SerialRestart ==
    ASSUME OneCaller, OneProcess, TypeOK, SerialInv, NEW m \in Managers, Restart(m)
    PROVE  SerialInv'
<1> SUFFICES ASSUME faults' = 0 PROVE SerialInv'
  BY DEF SerialInv
<1>1. /\ faults = 0 /\ forks' = forks /\ work' = work
      /\ \A c \in Callers : pc[c] = "idle" /\ pc'[c] = "idle"
  BY RestartKnows DEF Idle
<1>2. \A c \in Callers : ~Ending(c)
  BY <1>1 DEF Ending, Building
<1> QED  BY <1>1, <1>2 DEF SerialInv, Pending, At

LEMMA SerialInductive ==
    ASSUME OneCaller, OneProcess, TypeOK, SerialInv, [Next]_vars
    PROVE  SerialInv'
<1>1. CASE UNCHANGED vars
  BY <1>1 DEF vars, SerialInv, Ending, Merging, Pending, At, Mine
<1>2. ASSUME NEW c \in Callers, ApplyFails(c) PROVE SerialInv'
  BY <1>2 DEF ApplyFails, Fault, SerialInv, TypeOK
<1> QED  BY <1>1, <1>2, SerialCall, SerialOfStep, SerialRestart DEF Next
-----------------------------------------------------------------------------
(* What the other steps do to the job                                       *)

\* Which call it is, and what it has to do with a commit so far.
SameCall(j, k) ==
    /\ k.name = j.name /\ k.parent = j.parent /\ k.strategy = j.strategy
    /\ k.id = j.id /\ k.tree = j.tree

\* A call begins without a commit.
LEMMA FreshCall ==
    ASSUME TypeOK, IdleJobs, NEW c \in Callers, Call(c)
    PROVE  job'[c].id = NoCommit /\ job'[c].theirs = NoCommit /\ job'[c].tree = EmptyTree
<1> DEFINE fresh(j) == j.id = NoCommit /\ j.theirs = NoCommit /\ j.tree = EmptyTree
<1>1. ASSUME NEW l, NEW j, Begin(c, l, j), fresh(j) PROVE fresh(job'[c])
  BY <1>1 DEF Begin, TypeOK
<1>2. ASSUME At(c, Idle), pc' = pc, job' = job PROVE fresh(job'[c])
  BY <1>2 DEF IdleJobs, NoJob
<1>3. ASSUME NEW x, CreateFork(c, x) PROVE fresh(job'[c])
  <2>1. fresh([NoJob EXCEPT !.name = x, !.parent = headBranch])
    BY DEF NoJob
  <2> QED  BY <1>1, <1>3, <2>1 DEF CreateFork
<1>4. ASSUME NEW x, AbandonFork(c, x) PROVE fresh(job'[c])
  <2>1. fresh([NoJob EXCEPT !.name = x])
    BY DEF NoJob
  <2> QED  BY <1>1, <1>4, <2>1 DEF AbandonFork
<1>5. ASSUME NEW x, NEW id, CreateForkAt(c, x, id) PROVE fresh(job'[c])
  <2>1. fresh([NoJob EXCEPT !.name = x, !.parent = headBranch, !.point = id, !.tip = id])
    BY DEF NoJob
  <2> QED  BY <1>1, <1>5, <2>1 DEF CreateForkAt
<1>6. ASSUME NEW x, NEW parent, CreateNestedFork(c, parent, x) PROVE fresh(job'[c])
  <2>1. fresh([NoJob EXCEPT !.name = x, !.parent = parent, !.point = branches[parent],
                            !.tip = branches[parent]])
    BY DEF NoJob
  <2> QED  BY <1>1, <1>6, <2>1 DEF CreateNestedFork
<1>7. ASSUME NEW x, NEW strategy, MergeFork(c, x, strategy) PROVE fresh(job'[c])
  <2>1. fresh([NoJob EXCEPT !.name = x, !.parent = Mine(c)[x].parent,
                            !.point = Mine(c)[x].point, !.strategy = strategy])
    BY DEF NoJob
  <2> QED  BY <1>1, <1>7, <2>1 DEF MergeFork
<1>8. ASSUME Commit(c) PROVE fresh(job'[c])
  <2>1. fresh(job[c])
    BY <1>8 DEF Commit, IdleJobs, NoJob
  <2> QED  BY <1>8, <2>1, BuildBegins DEF SameTask
<1>9. ASSUME NEW b, Checkout(c, b) PROVE fresh(job'[c])
  BY <1>2, <1>9 DEF Checkout
<1>10. ASSUME NEW f, NEW content, Edit(c, f, content) PROVE fresh(job'[c])
  BY <1>2, <1>10 DEF Edit
<1> HIDE DEF fresh
<1>11. fresh(job'[c])
  BY <1>3, <1>4, <1>5, <1>6, <1>7, <1>8, <1>9, <1>10, Zenon DEF Call
<1> QED  BY <1>11 DEF fresh

\* The steps of the calls on forks up to the merge, while they go on.
LEMMA ForkMoves ==
    ASSUME TypeOK, NEW c \in Callers, ~Return(c),
           \/ ReadForkPoint(c) \/ CheckName(c) \/ CheckBranch(c) \/ WriteBranch(c) \/ Insert(c)
           \/ DeleteBranch(c) \/ Remove(c)
    PROVE  /\ SameCall(job[c], job'[c]) /\ job'[c].theirs = job[c].theirs /\ commits' = commits
           /\ \/ pc[c] = "point" /\ pc'[c] = "check"
              \/ pc[c] = "check" /\ pc'[c] = "checkBranch"
              \/ pc[c] = "checkBranch" /\ pc'[c] = "branch"
              \/ pc[c] = "branch" /\ pc'[c] = "insert"
              \/ pc[c] = "delete" /\ pc'[c] = "remove"
              \/ pc[c] \in {"insert", "remove"} /\ pc'[c] = "persist"
<1>1. pc \in [Callers -> Locations] /\ job \in [Callers -> Jobs(Ids)] /\ job[c] \in Jobs(Ids)
  BY DEF TypeOK
<1>2. SameCall(job[c], job[c])
  BY DEF SameCall
<1>3. CASE ReadForkPoint(c)
  <2>1. /\ pc[c] = "point" /\ pc'[c] = "check" /\ commits' = commits
        /\ job'[c] = [job[c] EXCEPT !.point = HeadTip]
    BY <1>1, <1>3 DEF ReadForkPoint, At, Goto, repository
  <2> QED  BY <1>1, <2>1 DEF SameCall, Jobs
<1>4. CASE CheckBranch(c)
  <2> DEFINE tip == IF job[c].tip = NoCommit THEN HeadTip ELSE job[c].tip
  <2>1. /\ pc[c] = "checkBranch" /\ pc'[c] = "branch" /\ commits' = commits
        /\ job'[c] = [job[c] EXCEPT !.tip = tip]
    BY <1>1, <1>4 DEF CheckBranch, At, Goto, repository
  <2> HIDE DEF tip
  <2> QED  BY <1>1, <2>1 DEF SameCall, Jobs
<1>5. CASE CheckName(c) \/ WriteBranch(c) \/ Insert(c) \/ DeleteBranch(c) \/ Remove(c)
  BY <1>1, <1>2, <1>5 DEF CheckName, WriteBranch, Insert, DeleteBranch, Remove, At, Goto, repository
<1> QED  BY <1>3, <1>4, <1>5

\* The steps of a merge up to its commit, while it goes on.
LEMMA MergeMoves ==
    ASSUME TypeOK, NEW c \in Callers, ~Return(c),
           ReadOurs(c) \/ ReadTheirs(c) \/ MergeTrees(c) \/ CheckoutParent(c) \/ Apply(c)
    PROVE  /\ SameCall(job[c], job'[c]) /\ job'[c].point = job[c].point
           /\ UNCHANGED <<forks, commits, branches, faults>>
           /\ \/ pc[c] = "ours" /\ pc'[c] = "theirs" /\ job'[c].theirs = job[c].theirs
                                /\ job'[c].ours = branches[job[c].parent]
              \/ pc[c] = "theirs" /\ pc'[c] = "trees" /\ job'[c].ours = job[c].ours
                                  /\ job'[c].theirs = branches[job[c].name]
              \/ pc[c] = "trees" /\ pc'[c] \in {"mark", "checkout"}
                     /\ job'[c].ours = job[c].ours /\ job'[c].theirs = job[c].theirs
              \/ pc[c] = "checkout" /\ pc'[c] = "apply" /\ job' = job
                     /\ headBranch' = job[c].parent
              \/ pc[c] = "apply" /\ pc'[c] = "commit" /\ headBranch' = headBranch
                     /\ job'[c].ours = job[c].ours /\ job'[c].theirs = job[c].theirs
                     /\ job'[c].merged = job[c].merged /\ job'[c].found = work
<1>1. pc \in [Callers -> Locations] /\ job \in [Callers -> Jobs(Ids)] /\ job[c] \in Jobs(Ids)
  BY DEF TypeOK
<1> USE DEF repository, bounds
<1>2. CASE ReadOurs(c)
  <2>1. /\ pc[c] = "ours" /\ pc'[c] = "theirs" /\ UNCHANGED <<forks, commits, branches, faults>>
        /\ job'[c] = [job[c] EXCEPT !.ours = branches[job[c].parent]]
    BY <1>1, <1>2 DEF ReadOurs, At, Goto
  <2> QED  BY <1>1, <2>1 DEF SameCall, Jobs
<1>3. CASE ReadTheirs(c)
  <2>1. /\ pc[c] = "theirs" /\ pc'[c] = "trees" /\ UNCHANGED <<forks, commits, branches, faults>>
        /\ job'[c] = [job[c] EXCEPT !.theirs = branches[job[c].name]]
    BY <1>1, <1>3 DEF ReadTheirs, At, Goto
  <2> QED  BY <1>1, <2>1 DEF SameCall, Jobs
<1>4. CASE MergeTrees(c)
  <2>1. PICK result :
           /\ pc[c] = "trees" /\ pc'[c] \in {"mark", "checkout"}
           /\ UNCHANGED <<forks, commits, branches, faults>>
           /\ job'[c] = job[c] \/ job'[c] = [job[c] EXCEPT !.merged = result]
    BY <1>1, <1>4 DEF MergeTrees, At, Goto
  <2> QED  BY <1>1, <2>1 DEF SameCall, Jobs
<1>5. CASE CheckoutParent(c)
  BY <1>1, <1>5 DEF CheckoutParent, At, Goto, SameCall
<1>6. CASE Apply(c)
  <2>1. /\ pc[c] = "apply" /\ pc'[c] = "commit" /\ UNCHANGED <<forks, commits, branches, headBranch, faults>>
        /\ job'[c] = [job[c] EXCEPT !.found = work]
    BY <1>1, <1>6 DEF Apply, At, Goto
  <2> QED  BY <1>1, <2>1 DEF SameCall, Jobs
<1> QED  BY <1>2, <1>3, <1>4, <1>5, <1>6

\* The end of a call on forks.
LEMMA EndMoves ==
    ASSUME TypeOK, NEW c \in Callers, Mark(c) \/ Persist(c) \/ (MoveHead(c) /\ Merging(c))
    PROVE  /\ SameCall(job[c], job'[c]) /\ SameTask(job[c], job'[c]) /\ commits' = commits
           /\ \/ pc[c] = "mark" /\ pc'[c] = "persist" /\ branches' = branches
              \/ pc[c] = "persist" /\ pc'[c] = "store" /\ branches' = branches
              \/ pc[c] = "head" /\ pc'[c] = "mark"
                     /\ branches' = [branches EXCEPT ![headBranch] = job[c].id]
<1>1. pc \in [Callers -> Locations] /\ job \in [Callers -> Jobs(Ids)] /\ job[c] \in Jobs(Ids)
  BY DEF TypeOK
<1>2. CASE Mark(c) \/ (MoveHead(c) /\ Merging(c))
  BY <1>1, <1>2 DEF Mark, MoveHead, At, Goto, repository, SameCall, SameTask
<1>3. CASE Persist(c)
  <2>1. /\ pc[c] = "persist" /\ pc'[c] = "store" /\ UNCHANGED <<commits, branches>>
        /\ job'[c] = [job[c] EXCEPT !.saved = Mine(c)]
    BY <1>1, <1>3 DEF Persist, At, Goto
  <2> QED  BY <1>1, <2>1 DEF SameCall, SameTask, Jobs
<1> QED  BY <1>2, <1>3

LEMMA Returns ==
    ASSUME TypeOK, NEW c \in Callers, Return(c)
    PROVE  pc'[c] = Idle /\ job'[c] = NoJob
BY DEF Return, Goto, TypeOK
-----------------------------------------------------------------------------
(* MergeKeepsBothSides, for one caller: nobody edits the working tree while a *)
(* merge is under way, and the builder finds in every file what the merge wrote. *)

Base(c) == TreeAt(job[c].point)
Ours(c) == TreeAt(job[c].ours)
Theirs(c) == TreeAt(job[c].theirs)

\* The merge of caller c is worked out.
Planned(c) ==
    /\ job[c].merged = Merged(Base(c), Ours(c), Theirs(c), job[c].strategy)
    /\ job[c].strategy = "ThreeWay" => Conflicts(Base(c), Ours(c), Theirs(c), "ThreeWay") = {}

\* What it leaves at p in the working tree.
Result(c, p) ==
    IF job[c].merged[p] # Absent \/ Ours(c)[p] # Absent THEN job[c].merged[p] ELSE job[c].found[p]

\* The tree its commit has so far, with what is being written back, and the
\* working tree for the rest, have the result.
PartBuilt(c) ==
    /\ At(c, "fill") => work[job[c].file] = Empty
    /\ pc[c] \in {"open", "fill"} => job[c].file \notin job[c].todo
    /\ \A p \in Paths :
           IF p \in job[c].todo THEN work[p] = Result(c, p) /\ job[c].tree[p] = Absent
           ELSE IF pc[c] \in {"open", "fill"} /\ p = job[c].file THEN job[c].text = Result(c, p)
           ELSE job[c].tree[p] = Result(c, p)

\* The tree has what a merge must keep.
Keeps(c, tree) ==
    \A p \in Paths :
        /\ Theirs(c)[p] = Base(c)[p]
               => tree[p] = IF Ours(c)[p] # Absent THEN Ours(c)[p] ELSE job[c].found[p]
        /\ Ours(c)[p] = Base(c)[p] /\ (Theirs(c)[p] # Absent \/ Ours(c)[p] # Absent)
               => tree[p] = Theirs(c)[p]
        /\ job[c].strategy = "ThreeWay"
               => Base(c)[p] \in {Ours(c)[p], Theirs(c)[p]} \/ Ours(c)[p] = Theirs(c)[p]

Committed == {"head", "mark", "persist", "store"}

MergeInv ==
    \A c \in Callers :
        /\ job[c].id # NoCommit => pc[c] \in Committed
        /\ pc[c] \notin Building => job[c].tree = EmptyTree
        /\ pc[c] \in {"checkout", "apply"} => Planned(c)
        /\ At(c, "commit") => Planned(c) /\ \A p \in Paths : work[p] = Result(c, p)
        /\ Merging(c) /\ pc[c] \in Building => Planned(c) /\ PartBuilt(c)
        /\ Merging(c) /\ job[c].id # NoCommit => Keeps(c, TreeAt(job[c].id))

\* A merge that is worked out has its trees.
LEMMA HasTrees ==
    ASSUME TypeOK, NEW c \in Callers, Merging(c), pc[c] # "trees"
    PROVE  /\ {job[c].point, job[c].ours, job[c].theirs} \subseteq DOMAIN commits
           /\ {Base(c), Ours(c), Theirs(c)} \subseteq Trees(Ids)
<1>1. JobFits(pc[c], job[c]) /\ \A id \in DOMAIN commits : TreeAt(id) \in Trees(Ids)
  BY Known
<1>2. {job[c].point, job[c].ours, job[c].theirs} \subseteq DOMAIN commits
  BY <1>1 DEF JobFits, Merging
<1> QED  BY <1>1, <1>2 DEF Base, Ours, Theirs

\* A merge that is worked out and committed as it is keeps both sides.
LEMMA ResultKeeps ==
    ASSUME TypeOK, NEW c \in Callers, Merging(c), pc[c] # "trees", Planned(c),
           NEW tree, \A p \in Paths : tree[p] = Result(c, p)
    PROVE  Keeps(c, tree)
<1> DEFINE s == job[c].strategy
<1>1. DOMAIN Base(c) = Paths
  BY HasTrees DEF Trees
<1>2. \A p \in Paths :
          job[c].merged[p] = MergedEntry(Base(c)[p], Ours(c)[p], Theirs(c)[p], s)
  BY <1>1 DEF Planned, Merged
<1>3. ASSUME NEW p \in Paths
      PROVE  /\ Theirs(c)[p] = Base(c)[p]
                    => tree[p] = IF Ours(c)[p] # Absent THEN Ours(c)[p] ELSE job[c].found[p]
             /\ Ours(c)[p] = Base(c)[p] /\ (Theirs(c)[p] # Absent \/ Ours(c)[p] # Absent)
                    => tree[p] = Theirs(c)[p]
  <2> DEFINE b == Base(c)[p]
             o == Ours(c)[p]
             t == Theirs(c)[p]
             f == job[c].found[p]
             m == job[c].merged[p]
  <2>1. (t = b => m = o) /\ (o = b => m = t)
    BY <1>2, OneSided
  <2>2. tree[p] = IF m # Absent \/ o # Absent THEN m ELSE f
    BY DEF Result
  <2> HIDE DEF b, o, t, f, m
  <2>3. /\ t = b => tree[p] = IF o # Absent THEN o ELSE f
        /\ o = b /\ (t # Absent \/ o # Absent) => tree[p] = t
    BY <2>1, <2>2
  <2> QED  BY <2>3 DEF b, o, t, f
<1>4. ASSUME s = "ThreeWay", NEW p \in Paths
      PROVE  Base(c)[p] \in {Ours(c)[p], Theirs(c)[p]} \/ Ours(c)[p] = Theirs(c)[p]
  <2>1. ~Conflicting(Base(c)[p], Ours(c)[p], Theirs(c)[p])
    BY <1>1, <1>4 DEF Planned, Conflicts
  <2> QED  BY <2>1 DEF Conflicting
<1> QED  BY <1>3, <1>4 DEF Keeps

\* A step that goes on with the same merge, on the same commits.
LEMMA SameMerge ==
    ASSUME TypeOK, NEW c \in Callers, Merging(c), pc[c] # "trees", SameTask(job[c], job'[c]),
           \A id \in DOMAIN commits : commits'[id] = commits[id]
    PROVE  /\ Base(c)' = Base(c) /\ Ours(c)' = Ours(c) /\ Theirs(c)' = Theirs(c)
           /\ Merging(c)' /\ (Planned(c) => Planned(c)')
           /\ \A p \in Paths : Result(c, p)' = Result(c, p)
           /\ \A tree : Keeps(c, tree) => (Keeps(c, tree))'
<1>1. Base(c)' = Base(c) /\ Ours(c)' = Ours(c) /\ Theirs(c)' = Theirs(c)
  BY HasTrees DEF SameTask, Base, Ours, Theirs, TreeAt
<1>2. Planned(c) => Planned(c)'
  BY <1>1 DEF Planned, SameTask
<1>3. \A p \in Paths : Result(c, p)' = Result(c, p)
  BY <1>1 DEF Result, SameTask
<1>4. Merging(c)'
  BY DEF Merging, SameTask
<1> QED  BY <1>1, <1>2, <1>3, <1>4 DEF Keeps, SameTask

\* A step that is not one of a merge at work.
LEMMA OtherStep ==
    ASSUME OneCaller, NEW c \in Callers,
           pc'[c] \notin {"checkout", "apply", "commit"},
           pc'[c] \in Building => ~Merging(c)',
           pc'[c] \notin Building => job'[c].tree = EmptyTree,
           job'[c].id # NoCommit => pc'[c] \in Committed /\ ~Merging(c)'
    PROVE  MergeInv'
BY DEF MergeInv, OneCaller, At

LEMMA MergeInit == Init => MergeInv
BY DEF Init, MergeInv, NoJob, Idle, At, Building, Merging

LEMMA CallKeeps ==
    ASSUME OneCaller, TypeOK, IdleJobs, NEW c \in Callers, Call(c)
    PROVE  MergeInv'
<1>1. job'[c].id = NoCommit /\ job'[c].theirs = NoCommit /\ job'[c].tree = EmptyTree
  BY FreshCall
<1>2. pc'[c] \in {Idle, "point", "check", "delete", "ours", "build"}
  BY Begins
<1> QED  BY <1>1, <1>2, OtherStep DEF Merging, Idle

LEMMA ReturnKeeps ==
    ASSUME OneCaller, TypeOK, NEW c \in Callers, Return(c)
    PROVE  MergeInv'
<1>1. pc'[c] = Idle /\ job'[c] = NoJob
  BY Returns
<1> QED  BY <1>1, OtherStep DEF NoJob, Idle, Building

LEMMA EarlyKeeps ==
    ASSUME OneCaller, TypeOK, MergeInv, NEW c \in Callers, ~Return(c),
           \/ ReadForkPoint(c) \/ CheckName(c) \/ CheckBranch(c) \/ WriteBranch(c) \/ Insert(c)
           \/ DeleteBranch(c) \/ Remove(c)
    PROVE  MergeInv'
<1>1. /\ SameCall(job[c], job'[c]) /\ job'[c].theirs = job[c].theirs
      /\ pc[c] \in {"point", "check", "checkBranch", "branch", "insert", "delete", "remove"}
      /\ pc'[c] \in {"check", "checkBranch", "branch", "insert", "remove", "persist"}
  BY ForkMoves
<1>2. job[c].id = NoCommit /\ job[c].tree = EmptyTree
  BY <1>1 DEF MergeInv, Committed, Building
<1> QED  BY <1>1, <1>2, OtherStep DEF SameCall, Building

\* The steps of a merge before its commit.
LEMMA WorkingKeeps ==
    ASSUME OneCaller, TypeOK, MergeInv, NEW c \in Callers, ~Return(c),
           ReadOurs(c) \/ ReadTheirs(c) \/ CheckoutParent(c) \/ Apply(c)
    PROVE  MergeInv'
<1>1. /\ pc[c] \in {"ours", "theirs", "checkout", "apply"} /\ SameCall(job[c], job'[c])
      /\ commits' = commits /\ job'[c].point = job[c].point
  BY MergeMoves DEF At, ReadOurs, ReadTheirs, CheckoutParent, Apply
<1>2. job'[c].id = NoCommit /\ job'[c].tree = EmptyTree
  BY <1>1 DEF MergeInv, Committed, Building, SameCall
<1>3. CASE ReadOurs(c) \/ ReadTheirs(c)
  <2>1. pc'[c] \in {"theirs", "trees"}
    BY <1>3, MergeMoves DEF At, ReadOurs, ReadTheirs
  <2> QED  BY <1>2, <2>1, OtherStep DEF Building
<1>4. CASE CheckoutParent(c)
  <2>1. pc[c] = "checkout" /\ pc'[c] = "apply" /\ job' = job
    BY <1>4, MergeMoves DEF At, CheckoutParent
  <2>2. Planned(c)'
    BY <1>1, <2>1 DEF MergeInv, Planned, Base, Ours, Theirs, TreeAt
  <2> QED  BY <1>2, <2>1, <2>2 DEF MergeInv, OneCaller, Building, At
<1>5. CASE Apply(c)
  <2>1. /\ pc[c] = "apply" /\ pc'[c] = "commit" /\ job'[c].merged = job[c].merged
        /\ job'[c].ours = job[c].ours /\ job'[c].theirs = job[c].theirs
        /\ job'[c].found = work
    BY <1>5, MergeMoves DEF At, Apply
  <2>2. Base(c)' = Base(c) /\ Ours(c)' = Ours(c) /\ Theirs(c)' = Theirs(c)
    BY <1>1, <2>1 DEF Base, Ours, Theirs, TreeAt
  <2>3. Planned(c)'
    BY <1>1, <2>1, <2>2 DEF MergeInv, Planned, SameCall
  <2>4. \A p \in Paths : work'[p] = Result(c, p)'
    <3>1. \A p \in Paths : work'[p] = IF job[c].merged[p] # Absent \/ Ours(c)[p] # Absent
                                        THEN job[c].merged[p] ELSE work[p]
      BY <1>5 DEF Apply, Ours
    <3> QED  BY <2>1, <2>2, <3>1 DEF Result
  <2> QED  BY <1>2, <2>1, <2>3, <2>4 DEF MergeInv, OneCaller, Building, At
<1> QED  BY <1>3, <1>4, <1>5

LEMMA MergeTreesKeeps ==
    ASSUME OneCaller, TypeOK, MergeInv, NEW c \in Callers, MergeTrees(c), ~Return(c)
    PROVE  MergeInv'
<1> DEFINE s == job[c].strategy
           result == Merged(Base(c), Ours(c), Theirs(c), s)
           stops == s = "ThreeWay" /\ Conflicts(Base(c), Ours(c), Theirs(c), s) # {}
<1>1. /\ pc[c] = "trees" /\ SameCall(job[c], job'[c]) /\ job'[c].point = job[c].point
      /\ commits' = commits /\ pc'[c] \in {"mark", "checkout"}
      /\ job'[c].ours = job[c].ours /\ job'[c].theirs = job[c].theirs
  BY MergeMoves DEF At, MergeTrees
<1>2. job'[c].id = NoCommit /\ job'[c].tree = EmptyTree
  BY <1>1 DEF MergeInv, Committed, Building, SameCall
<1>3. CASE pc'[c] = "mark"
  BY <1>2, <1>3, OtherStep DEF Building
<1>4. CASE pc'[c] = "checkout"
  <2>1. pc \in [Callers -> Locations] /\ job \in [Callers -> Jobs(Ids)] /\ job[c] \in Jobs(Ids)
    BY DEF TypeOK
  <2>2. ~stops /\ job'[c] = [job[c] EXCEPT !.merged = result]
    BY <1>4, <2>1 DEF MergeTrees, Goto, Base, Ours, Theirs
  <2> HIDE DEF result
  <2>3. job'[c].merged = result /\ job'[c].strategy = s
    BY <2>1, <2>2 DEF Jobs
  <2>4. Base(c)' = Base(c) /\ Ours(c)' = Ours(c) /\ Theirs(c)' = Theirs(c)
    BY <1>1 DEF Base, Ours, Theirs, TreeAt
  <2>5. Planned(c)'
    BY <2>2, <2>3, <2>4 DEF Planned, result
  <2> QED  BY <1>2, <1>4, <2>5 DEF MergeInv, OneCaller, Building, At
<1> QED  BY <1>1, <1>3, <1>4

LEMMA MergeCommitKeeps ==
    ASSUME OneCaller, TypeOK, MergeInv, NEW c \in Callers, MergeCommit(c)
    PROVE  MergeInv'
<1>1. /\ pc[c] = "commit" /\ pc'[c] = "build" /\ SameTask(job[c], job'[c])
      /\ job'[c].id = job[c].id /\ job'[c].todo = Paths /\ job'[c].tree = job[c].tree
      /\ UNCHANGED repository
  BY BuildBegins DEF MergeCommit, At
<1>2. /\ Planned(c) /\ \A p \in Paths : work[p] = Result(c, p)
      /\ job[c].id = NoCommit /\ job[c].tree = EmptyTree
  BY <1>1 DEF MergeInv, At, Committed, Building
<1>3. Merging(c)
  BY <1>1 DEF TypeOK, JobFits, Merging
<1>4. Planned(c)' /\ \A p \in Paths : Result(c, p)' = Result(c, p)
  BY <1>1, <1>2, <1>3, SameMerge DEF repository
<1>5. PartBuilt(c)'
  BY <1>1, <1>2, <1>4 DEF PartBuilt, At, EmptyTree, repository
<1> QED  BY <1>1, <1>2, <1>4, <1>5 DEF MergeInv, OneCaller, Building, At

\* The builder's steps.
LEMMA BuildKeeps ==
    ASSUME OneCaller, TypeOK, MergeInv, NEW c \in Callers,
           ReadFile(c) \/ OpenWriteBack(c) \/ FillWriteBack(c)
    PROVE  MergeInv'
<1>1. /\ pc[c] \in Building /\ pc'[c] \in Building /\ SameTask(job[c], job'[c])
      /\ job'[c].id = job[c].id /\ commits' = commits
  BY FileRead, FileOpened, FileFilled DEF Building, SameTask, repository
<1>2. job'[c].id = NoCommit
  BY <1>1 DEF MergeInv, Committed, Building
<1>3. CASE ~Merging(c)
  <2>1. ~Merging(c)'
    BY <1>1, <1>3 DEF Merging, SameTask
  <2> QED  BY <1>1, <1>2, <2>1, OtherStep DEF Building
<1>4. CASE Merging(c)
  <2>1. Planned(c) /\ PartBuilt(c)
    BY <1>1, <1>4 DEF MergeInv
  <2>2. Planned(c)' /\ \A p \in Paths : Result(c, p)' = Result(c, p)
    BY <1>1, <1>4, <2>1, SameMerge DEF Building
  <2>3. \A p \in Paths :
            IF p \in job[c].todo THEN work[p] = Result(c, p) /\ job[c].tree[p] = Absent
            ELSE IF pc[c] \in {"open", "fill"} /\ p = job[c].file THEN job[c].text = Result(c, p)
            ELSE job[c].tree[p] = Result(c, p)
    BY <2>1 DEF PartBuilt
  <2>4. job[c].todo \subseteq Paths /\ job[c].file \in Paths
    BY DEF TypeOK, Jobs
  <2>5. CASE ReadFile(c)
    <3>1. pc[c] = "build" /\ job'[c].tree = job[c].tree /\ work' = work
      BY <2>5, FileRead DEF repository
    <3>2. PICK p \in job[c].todo :
             /\ job'[c].todo = job[c].todo \ {p}
             /\ IF work[p] = Absent THEN pc'[c] = "build"
                ELSE pc'[c] = "open" /\ job'[c].file = p /\ job'[c].text = work[p]
      BY <2>5, FileRead
    <3>3. PartBuilt(c)'
      BY <2>2, <2>3, <2>4, <3>1, <3>2 DEF PartBuilt, At
    <3> QED  BY <1>1, <1>2, <2>2, <3>3 DEF MergeInv, OneCaller, Building, At
  <2>6. CASE OpenWriteBack(c)
    <3>1. /\ pc[c] = "open" /\ pc'[c] = "fill" /\ job' = job /\ work'[job[c].file] = Empty
          /\ \A p \in Paths : p # job[c].file => work'[p] = work[p]
      BY <2>6, FileOpened
    <3>2. job[c].file \notin job[c].todo
      BY <2>1, <3>1 DEF PartBuilt
    <3>3. PartBuilt(c)'
      BY <2>2, <2>3, <2>4, <3>1, <3>2 DEF PartBuilt, At
    <3> QED  BY <1>1, <1>2, <2>2, <3>3 DEF MergeInv, OneCaller, Building, At
  <2>7. CASE FillWriteBack(c)
    <3>1. work[job[c].file] = Empty /\ job[c].file \notin job[c].todo
      BY <2>1, <2>7 DEF PartBuilt, At, FillWriteBack
    <3>2. /\ pc[c] = "fill" /\ pc'[c] = "build" /\ job'[c].todo = job[c].todo
          /\ \A p \in Paths \ {job[c].file} :
                 work'[p] = work[p] /\ job'[c].tree[p] = job[c].tree[p]
          /\ job'[c].tree[job[c].file] = job[c].text
      BY <2>7, <3>1, FileFilled
    <3>3. PartBuilt(c)'
      BY <2>2, <2>3, <2>4, <3>1, <3>2 DEF PartBuilt, At
    <3> QED  BY <1>1, <1>2, <2>2, <3>3 DEF MergeInv, OneCaller, Building, At
  <2> QED  BY <2>5, <2>6, <2>7
<1> QED  BY <1>3, <1>4

LEMMA WriteCommitKeeps ==
    ASSUME OneCaller, TypeOK, MergeInv, NEW c \in Callers, WriteCommit(c)
    PROVE  MergeInv'
<1>0. PICK parents : commits'[job'[c].id] = [parents |-> parents, tree |-> job[c].tree]
  BY CommitWritten, Zenon
<1>1. /\ pc[c] = "build" /\ pc'[c] = "head" /\ SameTask(job[c], job'[c]) /\ job[c].todo = {}
      /\ job'[c].tree = EmptyTree
      /\ \A id \in DOMAIN commits : commits'[id] = commits[id]
  BY CommitWritten
<1>4. commits'[job'[c].id].tree = job[c].tree
  BY <1>0
<1>2. CASE ~Merging(c)
  <2>1. ~Merging(c)'
    BY <1>1, <1>2 DEF Merging, SameTask
  <2> QED  BY <1>1, <2>1, OtherStep DEF Building, Committed
<1>3. CASE Merging(c)
  <2>1. Planned(c) /\ \A p \in Paths : job[c].tree[p] = Result(c, p)
    BY <1>1, <1>3 DEF MergeInv, PartBuilt, Building
  <2>2. Keeps(c, job[c].tree)
    BY <1>1, <1>3, <2>1, ResultKeeps
  <2>3. PICK tree : tree = job[c].tree
    OBVIOUS
  <2>4. (Keeps(c, tree))' /\ TreeAt(job[c].id)' = tree
    BY <1>1, <1>3, <1>4, <2>2, <2>3, SameMerge DEF TreeAt
  <2>5. Keeps(c, TreeAt(job[c].id))'
    BY <2>4 DEF Keeps
  <2> QED  BY <1>1, <2>5 DEF MergeInv, OneCaller, Building, At, Committed
<1> QED  BY <1>2, <1>3

LEMMA LaterKeeps ==
    ASSUME OneCaller, TypeOK, MergeInv, NEW c \in Callers, MoveHead(c) \/ Mark(c) \/ Persist(c)
    PROVE  MergeInv'
<1>1. CASE ~Merging(c) /\ MoveHead(c)
  BY <1>1, ReturnKeeps DEF MoveHead
<1>2. CASE Merging(c) \/ ~MoveHead(c)
  <2>1. /\ SameCall(job[c], job'[c]) /\ SameTask(job[c], job'[c]) /\ commits' = commits
        /\ pc[c] \in {"head", "mark", "persist"} /\ pc'[c] \in {"mark", "persist", "store"}
    BY <1>2, EndMoves
  <2>2. job'[c].id = job[c].id /\ job'[c].tree = EmptyTree
    BY <2>1 DEF MergeInv, Building, SameCall
  <2>3. CASE ~Merging(c)
    <3>1. ~Merging(c)'
      BY <2>1, <2>3 DEF Merging, SameTask
    <3> QED  BY <2>1, <2>2, <3>1, OtherStep DEF Building, Committed
  <2>4. CASE Merging(c)
    <3>1. PICK tree : tree = TreeAt(job[c].id)
      OBVIOUS
    <3>2. job[c].id # NoCommit => Keeps(c, tree)
      BY <2>4, <3>1 DEF MergeInv
    <3>3. TreeAt(job[c].id)' = tree
      BY <2>1, <2>2, <3>1 DEF TreeAt
    <3>4. job[c].id # NoCommit => (Keeps(c, tree))'
      BY <2>1, <2>4, <3>2, SameMerge
    <3>5. job[c].id # NoCommit => Keeps(c, TreeAt(job[c].id))'
      BY <3>3, <3>4 DEF Keeps
    <3> QED  BY <2>1, <2>2, <3>5 DEF MergeInv, OneCaller, Building, At, Committed
  <2> QED  BY <2>3, <2>4
<1> QED  BY <1>1, <1>2

LEMMA MergeStays ==
    ASSUME MergeInv, UNCHANGED <<pc, job, commits, work>>
    PROVE  MergeInv'
<1>1. ASSUME NEW c \in Callers
      PROVE  /\ Base(c)' = Base(c) /\ Ours(c)' = Ours(c) /\ Theirs(c)' = Theirs(c)
             /\ TreeAt(job[c].id)' = TreeAt(job[c].id) /\ Merging(c)' = Merging(c)
             /\ pc'[c] = pc[c]
  BY DEF Base, Ours, Theirs, TreeAt, Merging
<1>2. ASSUME NEW c \in Callers
      PROVE  /\ Planned(c)' = Planned(c) /\ PartBuilt(c)' = PartBuilt(c)
             /\ \A p \in Paths : Result(c, p)' = Result(c, p)
             /\ Keeps(c, TreeAt(job[c].id))' = Keeps(c, TreeAt(job[c].id))
  BY <1>1 DEF Planned, PartBuilt, Keeps, Result, At
<1> QED  BY <1>1, <1>2 DEF MergeInv, At

LEMMA RestartKeeps ==
    ASSUME OneCaller, TypeOK, MergeInv, NEW m \in Managers, Restart(m)
    PROVE  MergeInv'
<1>1. CASE \E c \in Callers : ManagerOf[c] = m
  <2>1. \A c \in Callers : pc'[c] = Idle /\ job'[c] = NoJob
    BY <1>1, Restarted DEF OneCaller
  <2> QED  BY <2>1 DEF MergeInv, At, NoJob, NoCommit, Merging, Building, Idle
<1>2. CASE ~\E c \in Callers : ManagerOf[c] = m
  <2>1. UNCHANGED <<pc, job, commits, work>>
    BY <1>2 DEF Restart, repository, TypeOK
  <2> QED  BY <2>1, MergeStays
<1> QED  BY <1>1, <1>2

\* With one caller the tree of every merge commit has what only one side changed -
\* the parent's deletions only if they were made in the working tree too, as
\* MergeKeepsBothSides says - and a three-way merge commits nothing that both sides
\* changed differently, whatever the builder writes back, whichever strategy is
\* used, whatever fails or crashes between (fork.rs:434-488, git.rs:1132-1215).
THEOREM MergesKeepBothSides ==
    ASSUME OneCaller
    PROVE  Spec => []MergeKeepsBothSides
<1> DEFINE Inv == TypeOK /\ IdleJobs /\ MergeInv
<1>1. Init => Inv
  <2>1. Init => IdleJobs
    BY DEF Init, IdleJobs
  <2> QED  BY <2>1, InitTyped, MergeInit
<1>2. Inv /\ [Next]_vars => Inv'
  <2> SUFFICES ASSUME TypeOK, IdleJobs, MergeInv, [Next]_vars PROVE MergeInv'
    BY NextTyped, IdleInductive
  <2>1. CASE UNCHANGED vars
    BY <2>1, MergeStays DEF vars
  <2>2. ASSUME NEW c \in Callers, Step(c) PROVE MergeInv'
    BY <2>2, ReturnKeeps, EarlyKeeps, WorkingKeeps, MergeTreesKeeps, MergeCommitKeeps, BuildKeeps,
       WriteCommitKeeps, LaterKeeps DEF Step, Store
  <2>3. ASSUME NEW c \in Callers, ApplyFails(c) PROVE MergeInv'
    BY <2>3, ReturnKeeps DEF ApplyFails
  <2> QED  BY <2>1, <2>2, <2>3, CallKeeps, RestartKeeps DEF Next
<1>3. Inv => MergeKeepsBothSides
  BY DEF MergeInv, Keeps, MergeKeepsBothSides, Base, Ours, Theirs
<1> QED  BY <1>1, <1>2, <1>3, PTL DEF Spec
(* ForkManager implements ForkFates, for one caller and without failures.    *)

\* Where the name is known to be free, where the fork is known to be on record,
\* and where it is known not to be merged.
Free == {"checkBranch", "branch", "insert"}
OnRecord == {"delete", "remove"}
InMerge(c) ==
    \/ pc[c] \in {"ours", "theirs", "trees", "checkout", "apply", "commit", "mark"}
    \/ Merging(c) /\ pc[c] \in Building \cup {"head"}

FateInv ==
    \A c \in Callers :
        /\ pc[c] \in Free => Mine(c)[job[c].name] = NoFork
        /\ pc[c] \in OnRecord => Mine(c)[job[c].name] # NoFork
        /\ InMerge(c) => Mine(c)[job[c].name] # NoFork /\ ~Mine(c)[job[c].name].merged

LEMMA FateEnds ==
    ASSUME OneCaller, NEW c \in Callers, pc'[c] \notin Free \cup OnRecord, ~InMerge(c)'
    PROVE  FateInv'
BY DEF FateInv, OneCaller

\* A step that leaves the map alone and goes on with the same fork.
LEMMA FateStep ==
    ASSUME OneCaller, FateInv, NEW c \in Callers, forks' = forks,
           job'[c].name = job[c].name,
           \/ pc[c] \in Free /\ pc'[c] \in Free
           \/ pc[c] \in OnRecord /\ pc'[c] \in OnRecord
           \/ InMerge(c) /\ InMerge(c)'
    PROVE  FateInv'
<1>1. \A d \in Callers : d = c
  BY DEF OneCaller
<1>2. Mine(c)' = Mine(c)
  BY DEF Mine
<1>3. ~(pc'[c] \in Free /\ pc'[c] \in OnRecord) /\ ~(InMerge(c)' /\ pc'[c] \in Free \cup OnRecord)
  BY DEF Free, OnRecord, InMerge, Building
<1> QED  BY <1>1, <1>2, <1>3 DEF FateInv

LEMMA FateInit == Init => FateInv
BY DEF Init, FateInv, Free, OnRecord, InMerge, Building, Idle, Merging, NoJob

\* Steps other than these leave the map alone.
LEMMA OtherStepsLeaveForks ==
    ASSUME TypeOK, NEW c \in Callers, Call(c) \/ Step(c) \/ ApplyFails(c),
           ~(Insert(c) \/ Remove(c) \/ Mark(c))
    PROVE  forks' = forks
<1>1. CASE Call(c)
  BY <1>1, Begins
<1>2. CASE ReadForkPoint(c) \/ CheckName(c) \/ CheckBranch(c) \/ WriteBranch(c) \/ DeleteBranch(c)
  BY <1>2 DEF ReadForkPoint, CheckName, CheckBranch, WriteBranch, DeleteBranch
<1>3. CASE ReadOurs(c) \/ ReadTheirs(c) \/ MergeTrees(c) \/ CheckoutParent(c) \/ Apply(c)
  BY <1>3 DEF ReadOurs, ReadTheirs, MergeTrees, CheckoutParent, Apply
<1>4. CASE ReadFile(c) \/ OpenWriteBack(c) \/ FillWriteBack(c) \/ WriteCommit(c) \/ MoveHead(c)
  BY <1>4, Zenon DEF ReadFile, OpenWriteBack, FillWriteBack, WriteCommit, MoveHead
<1>5. CASE ApplyFails(c) \/ MergeCommit(c) \/ Persist(c) \/ Store(c)
  BY <1>5 DEF ApplyFails, MergeCommit, Persist, Store
<1> QED  BY <1>1, <1>2, <1>3, <1>4, <1>5 DEF Step

\* An abandonment and a merge begin with what the map says.
LEMMA FateCall ==
    ASSUME OneCaller, TypeOK, IdleJobs, FateInv, NEW c \in Callers, Call(c)
    PROVE  FateInv'
<1>1. forks' = forks /\ pc'[c] \in {Idle, "point", "check", "delete", "ours", "build"}
  BY Begins
<1>2. ~Merging(c)' /\ Mine(c)' = Mine(c)
  BY <1>1, FreshCall DEF Merging, Mine
<1>3. ASSUME NEW l, NEW j, Begin(c, l, j) PROVE pc'[c] = l /\ job'[c] = j
  BY <1>3 DEF Begin, Goto, TypeOK
<1>4. ASSUME NEW x, NEW id, NEW parent, NEW b, NEW f, NEW content,
             \/ CreateFork(c, x) \/ CreateForkAt(c, x, id) \/ CreateNestedFork(c, parent, x)
             \/ Commit(c) \/ Checkout(c, b) \/ Edit(c, f, content)
      PROVE  FateInv'
  <2>1. pc'[c] \in {Idle, "point", "check", "build"}
    <3>1. CASE CreateFork(c, x) \/ CreateForkAt(c, x, id) \/ CreateNestedFork(c, parent, x)
      BY <1>3, <3>1 DEF CreateFork, CreateForkAt, CreateNestedFork
    <3>2. CASE Commit(c)
      BY <3>2, BuildBegins
    <3>3. CASE Checkout(c, b) \/ Edit(c, f, content)
      BY <3>3 DEF Checkout, Edit, At
    <3> QED  BY <1>4, <3>1, <3>2, <3>3
  <2> QED  BY <1>2, <2>1, FateEnds DEF InMerge, Free, OnRecord, Idle
<1>5. ASSUME NEW x, AbandonFork(c, x) PROVE FateInv'
  <2>1. pc'[c] = "delete" /\ job'[c] = [NoJob EXCEPT !.name = x] /\ Mine(c)[x] # NoFork
    BY <1>3, <1>5 DEF AbandonFork
  <2>2. job'[c].name = x
    BY <2>1 DEF NoJob
  <2> QED  BY <1>2, <2>1, <2>2 DEF FateInv, OneCaller, Free, InMerge, Building
<1>6. ASSUME NEW x, NEW strategy, MergeFork(c, x, strategy) PROVE FateInv'
  <2>1. /\ pc'[c] = "ours" /\ Mine(c)[x] # NoFork /\ ~Mine(c)[x].merged
        /\ job'[c] = [NoJob EXCEPT !.name = x, !.parent = Mine(c)[x].parent,
                             !.point = Mine(c)[x].point, !.strategy = strategy]
    BY <1>3, <1>6 DEF MergeFork
  <2>2. job'[c].name = x
    BY <2>1 DEF NoJob
  <2> QED  BY <1>2, <2>1, <2>2 DEF FateInv, OneCaller, Free, OnRecord
<1> QED  BY <1>4, <1>5, <1>6, Zenon DEF Call

\* A build goes on with the merge it is part of, or is part of none.
LEMMA BuildMoves ==
    ASSUME TypeOK, NEW c \in Callers,
           \/ MergeCommit(c) \/ ReadFile(c) \/ OpenWriteBack(c) \/ FillWriteBack(c)
           \/ WriteCommit(c)
    PROVE  /\ SameTask(job[c], job'[c]) /\ UNCHANGED <<forks, branches, headBranch, faults, landed>>
           /\ \/ pc[c] = "commit" /\ Merging(c) /\ pc'[c] = "build"
              \/ pc[c] \in Building /\ pc'[c] \in Building
              \/ pc[c] = "build" /\ pc'[c] = "head"
           /\ WriteCommit(c) \/ (commits' = commits /\ job'[c].id = job[c].id)
<1> USE DEF repository, history, Building
<1>1. CASE MergeCommit(c)
  <2>1. pc[c] = "commit" /\ Merging(c)
    BY <1>1 DEF MergeCommit, At, TypeOK, JobFits, Merging
  <2> QED  BY <1>1, <2>1, BuildBegins
<1>2. CASE ReadFile(c)
  BY <1>2, FileRead
<1>3. CASE OpenWriteBack(c)
  <2>1. landed' = landed
    BY <1>3 DEF OpenWriteBack
  <2> QED  BY <1>3, <2>1, FileOpened DEF SameTask
<1>4. CASE FillWriteBack(c)
  BY <1>4, FileFilled
<1>5. CASE WriteCommit(c)
  BY <1>5, CommitWritten
<1> QED  BY <1>1, <1>2, <1>3, <1>4, <1>5

LEMMA FateOfStep ==
    ASSUME OneCaller, TypeOK, FateInv, NEW c \in Callers, Step(c) \/ ApplyFails(c)
    PROVE  FateInv'
<1> USE DEF Free, OnRecord
<1>1. ASSUME Return(c) PROVE FateInv'
  BY <1>1, Returns, FateEnds DEF Idle, InMerge, Building
<1>2. CASE /\ ~Return(c)
           /\ \/ ReadForkPoint(c) \/ CheckName(c) \/ CheckBranch(c) \/ WriteBranch(c)
              \/ Insert(c) \/ DeleteBranch(c) \/ Remove(c)
  <2>1. SameCall(job[c], job'[c])
    BY <1>2, ForkMoves
  <2>2. CASE pc[c] \in {"point", "insert", "remove"}
    <3>1. pc'[c] \in {"check", "persist"}
      BY <1>2, <2>2, ForkMoves
    <3> QED  BY <3>1, FateEnds DEF InMerge, Building
  <2>3. CASE pc[c] = "check"
    <3>1. CheckName(c)
      BY <1>2, <2>3 DEF ReadForkPoint, CheckBranch, WriteBranch, Insert, DeleteBranch, Remove, At
    <3>2. Mine(c)[job[c].name] = NoFork /\ job' = job /\ forks' = forks
      BY <1>2, <3>1 DEF CheckName
    <3>3. pc'[c] = "checkBranch"
      BY <1>2, <2>3, ForkMoves
    <3> QED  BY <3>2, <3>3 DEF FateInv, OneCaller, Mine, InMerge, Building
  <2>4. CASE pc[c] \in {"checkBranch", "branch", "delete"}
    <3>1. \/ pc[c] \in Free /\ pc'[c] \in Free
          \/ pc[c] \in OnRecord /\ pc'[c] \in OnRecord
      BY <1>2, <2>4, ForkMoves
    <3>2. forks' = forks
      BY <1>2, <2>4, OtherStepsLeaveForks DEF Insert, Remove, Mark, At, Step
    <3> QED  BY <2>1, <3>1, <3>2, FateStep DEF SameCall
  <2> QED  BY <1>2, <2>2, <2>3, <2>4, ForkMoves
<1>3. CASE /\ ~Return(c)
           /\ ReadOurs(c) \/ ReadTheirs(c) \/ MergeTrees(c) \/ CheckoutParent(c) \/ Apply(c)
  <2>1. InMerge(c) /\ InMerge(c)' /\ forks' = forks /\ SameCall(job[c], job'[c])
    BY <1>3, MergeMoves DEF InMerge
  <2> QED  BY <2>1, FateStep DEF SameCall
<1>4. CASE MergeCommit(c) \/ ReadFile(c) \/ OpenWriteBack(c) \/ FillWriteBack(c) \/ WriteCommit(c)
  <2>1. CASE Merging(c)
    <3>1. InMerge(c) /\ InMerge(c)' /\ forks' = forks /\ job'[c].name = job[c].name
      BY <1>4, <2>1, BuildMoves DEF InMerge, SameTask, Merging, Building
    <3> QED  BY <3>1, FateStep
  <2>2. CASE ~Merging(c)
    <3>1. ~Merging(c)' /\ pc'[c] \in Building \cup {"head"}
      BY <1>4, <2>2, BuildMoves DEF SameTask, Merging, Building
    <3> QED  BY <3>1, FateEnds DEF InMerge, Building
  <2> QED  BY <2>1, <2>2
<1>5. CASE MoveHead(c) /\ Merging(c)
  <2>1. InMerge(c) /\ InMerge(c)' /\ forks' = forks /\ SameCall(job[c], job'[c])
    BY <1>5, EndMoves DEF InMerge, MoveHead, At
  <2> QED  BY <2>1, FateStep DEF SameCall
<1>6. CASE Mark(c) \/ Persist(c)
  <2>1. pc'[c] \in {"persist", "store"}
    BY <1>6, EndMoves DEF Mark, Persist, At
  <2> QED  BY <2>1, FateEnds DEF InMerge, Building
<1>7. CASE Store(c) \/ ApplyFails(c) \/ (MoveHead(c) /\ ~Merging(c))
  BY <1>1, <1>7 DEF Store, ApplyFails, MoveHead
<1> QED  BY <1>1, <1>2, <1>3, <1>4, <1>5, <1>6, <1>7 DEF Step

LEMMA AllIdle ==
    ASSUME OneProcess, TypeOK, NEW m \in Managers, Restart(m)
    PROVE  \A c \in Callers : pc'[c] = Idle /\ job'[c] = NoJob
<1>1. \A c \in Callers : ManagerOf[c] = m
  BY ForkAssumption DEF OneProcess
<1> QED  BY <1>1, Restarted

LEMMA FateRestart ==
    ASSUME OneProcess, TypeOK, NEW m \in Managers, Restart(m)
    PROVE  FateInv'
BY AllIdle DEF FateInv, Free, OnRecord, InMerge, Building, Idle

\* The steps that change the map are a Create, a Merge and an Abandon.
LEMMA StepIsFate ==
    ASSUME TypeOK, FateInv, NEW c \in Callers, Insert(c) \/ Remove(c) \/ Mark(c)
    PROVE  Fates!Next
<1> DEFINE m == ManagerOf[c]
           n == job[c].name
<1>1. m \in Managers /\ n \in Names
  BY OnFork, ForkAssumption DEF Insert, Remove, Mark, At, Building, Idle
<1>2. forks[m][n] = Mine(c)[n]
  BY DEF Mine
<1>3. forks \in [Managers -> ForkMaps(Ids)]
  BY DEF TypeOK
<1>4. ASSUME NEW record, SetFork(c, n, record)
      PROVE  forks'[m][n] = record /\ Fates!Set(m, n, record)
  BY <1>1, <1>3, <1>4 DEF SetFork, Fates!Set, ForkMaps
<1>5. CASE Insert(c)
  <2> DEFINE record == [parent |-> job[c].parent, point |-> job[c].point, merged |-> FALSE]
  <2>1. record # NoFork
    <3>1. job[c] \in Jobs(Ids) /\ job[c].point # NoCommit
      BY <1>5 DEF TypeOK, Insert, At, JobFits
    <3>2. job[c].parent \in Branches /\ job[c].point \in Nat \cup {Dangling}
      BY <3>1, IdsAreIds DEF Jobs
    <3>3. record \in [parent : Branches, point : Nat \cup {Dangling}, merged : BOOLEAN]
      BY <3>2
    <3> HIDE DEF record
    <3> QED  BY <3>3, RecordAssumption
  <2>2. forks[m][n] = NoFork
    BY <1>2, <1>5 DEF FateInv, Insert, At, Free
  <2>3. forks'[m][n] = record /\ Fates!Set(m, n, record)
    BY <1>4, <1>5 DEF Insert
  <2>4. Fates!Create(m, n)
    BY <2>1, <2>2, <2>3 DEF Fates!Create
  <2> QED  BY <1>1, <2>4 DEF Fates!Next
<1>6. CASE Remove(c)
  <2>1. forks[m][n] # NoFork
    BY <1>2, <1>6 DEF FateInv, Remove, At, OnRecord
  <2>2. Fates!Abandon(m, n)
    BY <1>4, <1>6, <2>1 DEF Remove, Fates!Abandon
  <2> QED  BY <1>1, <2>2 DEF Fates!Next
<1>7. CASE Mark(c)
  <2>1. forks[m][n] # NoFork /\ ~forks[m][n].merged
    BY <1>2, <1>7 DEF FateInv, Mark, At, InMerge
  <2>2. SetFork(c, n, [forks[m][n] EXCEPT !.merged = TRUE])
    BY <1>2, <1>7, <2>1 DEF Mark
  <2>3. Fates!Merge(m, n)
    BY <1>4, <2>1, <2>2 DEF Fates!Merge
  <2> QED  BY <1>1, <2>3 DEF Fates!Next
<1> QED  BY <1>5, <1>6, <1>7

LEMMA FateInductive ==
    ASSUME OneCaller, OneProcess, TypeOK, IdleJobs, FateInv, [Next]_vars
    PROVE  FateInv'
<1>1. CASE UNCHANGED vars
  <2>1. UNCHANGED <<forks, pc, job>>
    BY <1>1 DEF vars
  <2> QED  BY <2>1 DEF FateInv, InMerge, Merging, Mine
<1> QED  BY <1>1, FateCall, FateOfStep, FateRestart DEF Next

\* One caller of one process, without failures: whatever is called in whatever
\* order, whatever commits and merges write to forks.json and however often the
\* process starts anew, forks are created, merged once and abandoned and otherwise
\* left as they are (fork.rs:183-216, 411-529, 591-607, git.rs:1172-1179).
THEOREM ImplementsFates ==
    ASSUME OneCaller, OneProcess, MaxFaults = 0
    PROVE  Spec => ImplementsForkFates
<1> DEFINE Inv == TypeOK /\ IdleJobs /\ SerialInv /\ FateInv
<1>1. Init => Inv
  <2>1. Init => IdleJobs
    BY DEF Init, IdleJobs
  <2> QED  BY <2>1, InitTyped, SerialInit, FateInit
<1>2. Init => Fates!Init
  BY DEF Init, Fates!Init, NoForks
<1>3. Inv /\ [Next]_vars => Inv'
  BY NextTyped, IdleInductive, SerialInductive, FateInductive
<1>4. Inv /\ [Next]_vars => [Fates!Next]_forks
  <2> SUFFICES ASSUME Inv, [Next]_vars PROVE Fates!Next \/ forks' = forks
    OBVIOUS
  <2>1. CASE UNCHANGED vars
    BY <2>1 DEF vars
  <2>2. ASSUME NEW m \in Managers, Restart(m) PROVE forks' = forks
    <3>1. TypeOK'
      BY NextTyped
    <3>2. faults' = 0
      BY <3>1 DEF TypeOK
    <3> QED  BY <2>2, <3>2, RestartKnows
  <2> QED  BY <2>1, <2>2, StepIsFate, OtherStepsLeaveForks DEF Next
<1> QED  BY <1>1, <1>2, <1>3, <1>4, PTL DEF Spec, ImplementsForkFates, Fates!Spec
(* MergeLandsOnParent, for one caller: between the checkout and the end of    *)
(* the merge commit nobody else moves HEAD.                                  *)

OnParent(c) ==
    pc[c] \in {"apply", "commit"} \/ (Merging(c) /\ pc[c] \in Building \cup {"head"})

LandInv ==
    \A c \in Callers :
        /\ job[c].id # NoCommit => pc[c] \in Committed
        /\ OnParent(c) => headBranch = job[c].parent
        /\ Merging(c) /\ job[c].id # NoCommit /\ pc[c] \in {"mark", "persist", "store"}
               => branches[job[c].parent] = job[c].id

LEMMA LandEnds ==
    ASSUME OneCaller, NEW c \in Callers, ~OnParent(c)', job'[c].id = NoCommit
    PROVE  LandInv'
BY DEF LandInv, OneCaller

\* A step outside a merge.
LEMMA LandOutside ==
    ASSUME OneCaller, NEW c \in Callers, ~Merging(c)', pc'[c] \notin {"apply", "commit"},
           job'[c].id # NoCommit => pc'[c] \in Committed
    PROVE  LandInv'
BY DEF LandInv, OneCaller, OnParent

LEMMA LandInit == Init => LandInv
BY DEF Init, LandInv, OnParent, Merging, NoJob, Idle

LEMMA LandOfStep ==
    ASSUME OneCaller, TypeOK, LandInv, NEW c \in Callers, Step(c) \/ ApplyFails(c)
    PROVE  LandInv'
<1>1. ASSUME Return(c) PROVE LandInv'
  BY <1>1, Returns, LandEnds DEF Idle, NoJob, OnParent, Building
<1>2. CASE /\ ~Return(c)
           /\ \/ ReadForkPoint(c) \/ CheckName(c) \/ CheckBranch(c) \/ WriteBranch(c)
              \/ Insert(c) \/ DeleteBranch(c) \/ Remove(c)
  <2>1. job'[c].id = job[c].id /\ job[c].id = NoCommit
    BY <1>2, ForkMoves DEF SameCall, LandInv, Committed
  <2>2. pc'[c] \in {"check", "checkBranch", "branch", "insert", "remove", "persist"}
    BY <1>2, ForkMoves
  <2> QED  BY <2>1, <2>2, LandEnds DEF OnParent, Building
<1>3. CASE /\ ~Return(c)
           /\ ReadOurs(c) \/ ReadTheirs(c) \/ MergeTrees(c) \/ CheckoutParent(c) \/ Apply(c)
  <2>1. job'[c].id = NoCommit /\ job'[c].parent = job[c].parent
    BY <1>3, MergeMoves DEF SameCall, LandInv, Committed
  <2>2. CASE pc[c] \in {"ours", "theirs", "trees"}
    <3>1. pc'[c] \in {"theirs", "trees", "mark", "checkout"}
      BY <1>3, <2>2, MergeMoves
    <3> QED  BY <2>1, <3>1, LandEnds DEF OnParent, Building
  <2>3. CASE pc[c] \notin {"ours", "theirs", "trees"}
    <3>1. headBranch' = job[c].parent
      BY <1>3, <2>3, MergeMoves DEF LandInv, OnParent
    <3> QED  BY <2>1, <3>1 DEF LandInv, OneCaller
  <2> QED  BY <2>2, <2>3
<1>4. CASE MergeCommit(c) \/ ReadFile(c) \/ OpenWriteBack(c) \/ FillWriteBack(c) \/ WriteCommit(c)
  <2>1. /\ SameTask(job[c], job'[c]) /\ headBranch' = headBranch
        /\ pc'[c] \in Building \cup {"head"} /\ pc[c] \in Building \cup {"commit"}
        /\ pc'[c] # "head" => job'[c].id = job[c].id
    <3>1. WriteCommit(c) => pc'[c] = "head"
      BY CommitWritten
    <3> QED  BY <1>4, <3>1, BuildMoves DEF Building
  <2>2. job'[c].id # NoCommit => pc'[c] \in Committed
    BY <2>1 DEF LandInv, Committed, Building
  <2>3. CASE Merging(c)
    <3>1. headBranch' = job'[c].parent
      BY <2>1, <2>3 DEF LandInv, OnParent, SameTask
    <3> QED  BY <2>1, <2>2, <3>1 DEF LandInv, OneCaller, Building
  <2>4. CASE ~Merging(c)
    BY <2>1, <2>2, <2>4, LandOutside DEF SameTask, Merging, Building
  <2> QED  BY <2>3, <2>4
<1>5. CASE MoveHead(c) /\ Merging(c)
  <2>1. /\ SameCall(job[c], job'[c]) /\ pc[c] = "head" /\ pc'[c] = "mark"
        /\ branches' = [branches EXCEPT ![headBranch] = job[c].id]
    BY <1>5, EndMoves DEF MoveHead, At
  <2>2. headBranch = job[c].parent /\ branches \in [Branches -> Ids \cup {NoCommit}]
        /\ headBranch \in Branches
    BY <1>5, <2>1 DEF LandInv, OnParent, TypeOK
  <2>3. branches'[job'[c].parent] = job'[c].id
    BY <2>1, <2>2 DEF SameCall
  <2> QED  BY <2>1, <2>3 DEF LandInv, OneCaller, Committed, OnParent, Building
<1>6. CASE Mark(c) \/ Persist(c)
  <2>1. /\ SameCall(job[c], job'[c]) /\ SameTask(job[c], job'[c]) /\ branches' = branches
        /\ pc[c] \in {"mark", "persist"} /\ pc'[c] \in {"persist", "store"}
    BY <1>6, EndMoves DEF Mark, Persist, At
  <2>2. Merging(c)' = Merging(c)
    BY <2>1 DEF SameTask, Merging
  <2> QED  BY <2>1, <2>2 DEF LandInv, OneCaller, Committed, SameCall, OnParent, Building
<1>7. CASE Store(c) \/ ApplyFails(c) \/ (MoveHead(c) /\ ~Merging(c))
  BY <1>1, <1>7 DEF Store, ApplyFails, MoveHead
<1> QED  BY <1>1, <1>2, <1>3, <1>4, <1>5, <1>6, <1>7 DEF Step

LEMMA LandRestart ==
    ASSUME TypeOK, LandInv, NEW m \in Managers, Restart(m)
    PROVE  LandInv'
<1> SUFFICES ASSUME NEW c \in Callers
             PROVE  /\ job'[c].id # NoCommit => pc'[c] \in Committed
                    /\ OnParent(c)' => headBranch' = job'[c].parent
                    /\ Merging(c)' /\ job'[c].id # NoCommit
                           /\ pc'[c] \in {"mark", "persist", "store"}
                           => branches'[job'[c].parent] = job'[c].id
  BY DEF LandInv
<1>1. headBranch' = headBranch /\ branches' = branches
  BY DEF Restart, repository
<1>2. CASE pc'[c] = Idle /\ job'[c] = NoJob
  BY <1>2 DEF Idle, NoJob, OnParent, Merging
<1>3. CASE pc'[c] = pc[c] /\ job'[c] = job[c]
  BY <1>1, <1>3 DEF LandInv, OnParent, Merging
<1> QED  BY <1>2, <1>3, Restarted

LEMMA LandInductive ==
    ASSUME OneCaller, TypeOK, IdleJobs, LandInv, [Next]_vars
    PROVE  LandInv'
<1>1. CASE UNCHANGED vars
  BY <1>1 DEF vars, LandInv, OnParent, Merging
<1>2. ASSUME NEW c \in Callers, Call(c) PROVE LandInv'
  <2>1. ~Merging(c)' /\ job'[c].id = NoCommit
    BY <1>2, FreshCall DEF Merging
  <2>2. pc'[c] \in {Idle, "point", "check", "delete", "ours", "build"}
    BY <1>2, Begins
  <2> QED  BY <2>1, <2>2, LandOutside DEF Idle
<1> QED  BY <1>1, <1>2, LandOfStep, LandRestart DEF Next

\* With one caller, a merge that is reported has its commit at the tip of the
\* fork's parent branch, also when it was called with HEAD elsewhere and whatever
\* failed before (fork.rs:454-503).
THEOREM MergesLandOnParent ==
    ASSUME OneCaller
    PROVE  Spec => []MergeLandsOnParent
<1> DEFINE Inv == TypeOK /\ IdleJobs /\ LandInv
<1>1. Init => Inv
  <2>1. Init => IdleJobs
    BY DEF Init, IdleJobs
  <2> QED  BY <2>1, InitTyped, LandInit
<1>2. Inv /\ [Next]_vars => Inv'
  BY NextTyped, IdleInductive, LandInductive
<1>3. Inv => MergeLandsOnParent
  BY DEF LandInv, MergeLandsOnParent
<1> QED  BY <1>1, <1>2, <1>3, PTL DEF Spec
(* MergedOnce, for one caller of one process without failures: a fork with a   *)
(* reported merge is merged on record or gone, and the one whose merge is about *)
(* to be reported had none.                                                *)

Reporting(c) == pc[c] \in {"persist", "store"} /\ job[c].id # NoCommit

OnceInv ==
    /\ \A n \in Names : landed[n] <= 1
    /\ \A m \in Managers, n \in Names :
           landed[n] # 0 => forks[m][n] = NoFork \/ forks[m][n].merged
    /\ \A c \in Callers : Reporting(c) =>
           /\ landed[job[c].name] = 0
           /\ Mine(c)[job[c].name] = NoFork \/ Mine(c)[job[c].name].merged

\* A step that leaves the map and the reports alone.
LEMMA OnceStays ==
    ASSUME OneCaller, OnceInv, NEW c \in Callers, forks' = forks, landed' = landed,
           Reporting(c)' => Reporting(c) /\ job'[c].name = job[c].name
    PROVE  OnceInv'
BY DEF OnceInv, OneCaller, Mine

LEMMA OnceSet ==
    ASSUME OneCaller, OneProcess, TypeOK, LandInv, FateInv, OnceInv, NEW c \in Callers,
           Insert(c) \/ Remove(c) \/ Mark(c)
    PROVE  OnceInv'
<1> DEFINE m == ManagerOf[c]
           n == job[c].name
<1>1. m \in Managers /\ n \in Names /\ \A other \in Managers : other = m
  <2>1. n \in Names
    BY OnFork DEF Insert, Remove, Mark, At, Building, Idle
  <2> QED  BY <2>1, ForkAssumption DEF OneProcess
<1>2. forks \in [Managers -> ForkMaps(Ids)] /\ landed \in [Names -> Nat]
  BY DEF TypeOK
<1>3. ASSUME NEW record, SetFork(c, n, record)
      PROVE  /\ forks'[m][n] = record
             /\ \A other \in Names : other # n => forks'[m][other] = forks[m][other]
  BY <1>1, <1>2, <1>3 DEF SetFork, ForkMaps
<1>4. job' = job /\ \A d \in Callers : d = c
  BY DEF Insert, Remove, Mark, OneCaller
<1>5. CASE Insert(c)
  <2>1. job[c].id = NoCommit
    BY <1>5 DEF LandInv, Insert, At, Committed
  <2>2. /\ landed' = [landed EXCEPT ![n] = 0]
        /\ \A other \in Names : other # n => forks'[m][other] = forks[m][other]
    BY <1>3, <1>5 DEF Insert
  <2>3. landed'[n] = 0 /\ \A other \in Names : other # n => landed'[other] = landed[other]
    BY <1>1, <1>2, <2>2
  <2>4. \A other \in Names :
            /\ landed'[other] <= 1
            /\ landed'[other] # 0 => forks'[m][other] = NoFork \/ forks'[m][other].merged
    BY <1>1, <2>2, <2>3 DEF OnceInv
  <2> QED  BY <1>1, <1>4, <2>1, <2>4 DEF OnceInv, Reporting
<1>6. CASE Remove(c)
  <2>1. job[c].id = NoCommit
    BY <1>6 DEF LandInv, Remove, At, Committed
  <2>2. /\ landed' = landed /\ forks'[m][n] = NoFork
        /\ \A other \in Names : other # n => forks'[m][other] = forks[m][other]
    BY <1>3, <1>6 DEF Remove, history
  <2>3. \A other \in Names :
            /\ landed'[other] <= 1
            /\ landed'[other] # 0 => forks'[m][other] = NoFork \/ forks'[m][other].merged
    BY <1>1, <2>2 DEF OnceInv
  <2> QED  BY <1>1, <1>4, <2>1, <2>3 DEF OnceInv, Reporting
<1>7. CASE Mark(c)
  <2>1. forks[m][n] # NoFork /\ ~forks[m][n].merged
    BY <1>7 DEF FateInv, Mark, At, InMerge, Mine
  <2>2. landed[n] = 0
    BY <1>1, <2>1 DEF OnceInv
  <2>3. /\ landed' = landed /\ forks'[m][n] = [forks[m][n] EXCEPT !.merged = TRUE]
        /\ \A other \in Names : other # n => forks'[m][other] = forks[m][other]
    BY <1>3, <1>7, <2>1 DEF Mark, Mine, history
  <2>4. forks[m][n] \in [parent : Branches, point : Ids, merged : BOOLEAN]
    BY <1>1, <1>2, <2>1 DEF ForkMaps
  <2>5. forks'[m][n].merged
    BY <2>3, <2>4
  <2>6. \A other \in Names :
            /\ landed'[other] <= 1
            /\ landed'[other] # 0 => forks'[m][other] = NoFork \/ forks'[m][other].merged
    BY <1>1, <2>2, <2>3 DEF OnceInv
  <2> QED  BY <1>1, <1>4, <2>2, <2>3, <2>5, <2>6 DEF OnceInv, Reporting, Mine
<1> QED  BY <1>5, <1>6, <1>7

LEMMA OnceReported ==
    ASSUME OneCaller, OneProcess, TypeOK, OnceInv, NEW c \in Callers, Store(c)
    PROVE  OnceInv'
<1> DEFINE n == job[c].name
<1>1. pc[c] = "store" /\ n \in Names /\ landed \in [Names -> Nat]
  BY OnFork DEF Store, At, TypeOK, Idle, Building
<1>2. pc'[c] = Idle /\ forks' = forks
  BY DEF Store, Return, Goto, TypeOK
<1>3. \A d \in Callers : ~Reporting(d)'
  BY <1>2 DEF Reporting, OneCaller, Idle
<1>4. CASE job[c].id = NoCommit
  <2>1. landed' = landed
    BY <1>4 DEF Store
  <2> QED  BY <1>2, <1>3, <2>1 DEF OnceInv
<1>5. CASE job[c].id # NoCommit
  <2>1. landed' = [landed EXCEPT ![n] = @ + 1]
    BY <1>5 DEF Store
  <2>2. landed[n] = 0 /\ (Mine(c)[n] = NoFork \/ Mine(c)[n].merged)
    BY <1>1, <1>5 DEF OnceInv, Reporting
  <2>3. landed'[n] = 1 /\ \A other \in Names : other # n => landed'[other] = landed[other]
    BY <1>1, <2>1, <2>2
  <2>4. \A m \in Managers : forks[m] = Mine(c)
    <3>1. \A m \in Managers : m = ManagerOf[c]
      BY ForkAssumption DEF OneProcess
    <3> QED  BY <3>1 DEF Mine
  <2>5. /\ \A other \in Names : landed'[other] <= 1
        /\ \A m \in Managers, other \in Names :
               landed'[other] # 0 => forks'[m][other] = NoFork \/ forks'[m][other].merged
    BY <1>2, <2>2, <2>3, <2>4 DEF OnceInv
  <2> QED  BY <1>3, <2>5 DEF OnceInv
<1> QED  BY <1>4, <1>5

LEMMA OnceOther ==
    ASSUME OneCaller, TypeOK, OnceInv, NEW c \in Callers,
           Call(c) \/ Step(c) \/ ApplyFails(c),
           ~(Insert(c) \/ Remove(c) \/ Mark(c) \/ Store(c))
    PROVE  OnceInv'
<1>1. forks' = forks
  BY OtherStepsLeaveForks
<1> USE DEF history
<1>2. ASSUME landed' = landed, pc'[c] \notin {"persist", "store"} PROVE OnceInv'
  BY <1>1, <1>2, OnceStays DEF Reporting
<1>3. ASSUME landed' = landed, Return(c) PROVE OnceInv'
  BY <1>2, <1>3, Returns DEF Idle
<1>4. CASE Call(c)
  <2>1. landed' = landed /\ pc'[c] \in {Idle, "point", "check", "delete", "ours", "build"}
    BY <1>4, Begins
  <2> QED  BY <1>2, <2>1 DEF Idle
<1>5. CASE ReadForkPoint(c) \/ CheckName(c) \/ CheckBranch(c) \/ WriteBranch(c) \/ DeleteBranch(c)
  <2>1. landed' = landed
    BY <1>5 DEF ReadForkPoint, CheckName, CheckBranch, WriteBranch, DeleteBranch
  <2>2. CASE ~Return(c)
    <3>1. pc[c] \in {"point", "check", "checkBranch", "branch", "delete"}
      BY <1>5 DEF ReadForkPoint, CheckName, CheckBranch, WriteBranch, DeleteBranch, At
    <3>2. pc'[c] \in {"check", "checkBranch", "branch", "insert", "remove"}
      BY <1>5, <2>2, <3>1, ForkMoves
    <3> QED  BY <1>2, <2>1, <3>2
  <2> QED  BY <1>3, <2>1, <2>2
<1>6. CASE ReadOurs(c) \/ ReadTheirs(c) \/ MergeTrees(c) \/ CheckoutParent(c) \/ Apply(c)
  <2>1. landed' = landed
    BY <1>6 DEF ReadOurs, ReadTheirs, MergeTrees, CheckoutParent, Apply
  <2>2. CASE ~Return(c)
    <3>1. pc'[c] \in {"theirs", "trees", "mark", "checkout", "apply", "commit"}
      BY <1>6, <2>2, MergeMoves
    <3> QED  BY <1>2, <2>1, <3>1
  <2> QED  BY <1>3, <2>1, <2>2
<1>7. CASE MergeCommit(c) \/ ReadFile(c) \/ OpenWriteBack(c) \/ FillWriteBack(c) \/ WriteCommit(c)
  <2>1. landed' = landed /\ pc'[c] \in {"build", "open", "fill", "head"}
    BY <1>7, BuildMoves DEF Building
  <2> QED  BY <1>2, <2>1
<1>8. CASE MoveHead(c)
  <2>1. landed' = landed
    BY <1>8 DEF MoveHead
  <2>2. CASE Merging(c)
    <3>1. pc'[c] = "mark"
      BY <1>8, <2>2, EndMoves DEF MoveHead, At
    <3> QED  BY <1>2, <2>1, <3>1
  <2>3. CASE ~Merging(c)
    BY <1>3, <1>8, <2>1, <2>3 DEF MoveHead
  <2> QED  BY <2>2, <2>3
<1>9. CASE Persist(c)
  <2>1. landed' = landed /\ pc[c] = "persist"
    BY <1>9 DEF Persist, At
  <2>2. SameCall(job[c], job'[c])
    BY <1>9, EndMoves
  <2> QED  BY <1>1, <2>1, <2>2, OnceStays DEF Reporting, SameCall
<1>10. CASE ApplyFails(c)
  <2>1. landed' = landed
    BY <1>10 DEF ApplyFails
  <2> QED  BY <1>3, <1>10, <2>1 DEF ApplyFails
<1> QED  BY <1>4, <1>5, <1>6, <1>7, <1>8, <1>9, <1>10 DEF Step

LEMMA OnceInductive ==
    ASSUME OneCaller, OneProcess, MaxFaults = 0, TypeOK, TypeOK', SerialInv, LandInv, FateInv,
           OnceInv, [Next]_vars
    PROVE  OnceInv'
<1>1. CASE UNCHANGED vars
  <2>1. UNCHANGED <<forks, landed, pc, job>>
    BY <1>1 DEF vars
  <2> QED  BY <2>1 DEF OnceInv, Reporting, Mine
<1>2. ASSUME NEW m \in Managers, Restart(m) PROVE OnceInv'
  <2>1. faults' = 0
    BY DEF TypeOK
  <2>2. forks' = forks /\ landed' = landed
    BY <1>2, <2>1, RestartKnows DEF Restart, history
  <2>3. \A c \in Callers : pc'[c] = Idle
    BY <1>2, AllIdle
  <2> QED  BY <2>2, <2>3 DEF OnceInv, Reporting, Idle
<1> QED  BY <1>1, <1>2, OnceSet, OnceReported, OnceOther DEF Next

\* One caller of one process, without failures: between its creation and the next
\* fork of that name a fork has at most one merge reported without conflict, also
\* when the process starts anew in between (fork.rs:365, 411-419, 490-503).
THEOREM ForksMergeOnce ==
    ASSUME OneCaller, OneProcess, MaxFaults = 0
    PROVE  Spec => []MergedOnce
<1> DEFINE Inv == TypeOK /\ IdleJobs /\ SerialInv /\ LandInv /\ FateInv /\ OnceInv
<1>1. Init => Inv
  <2>1. Init => IdleJobs /\ OnceInv
    BY DEF Init, IdleJobs, OnceInv, Reporting, NoJob, Idle
  <2> QED  BY <2>1, InitTyped, SerialInit, LandInit, FateInit
<1>2. Inv /\ [Next]_vars => Inv'
  BY NextTyped, IdleInductive, SerialInductive, LandInductive, FateInductive, OnceInductive
<1>3. Inv => MergedOnce
  BY DEF OnceInv, MergedOnce
<1> QED  BY <1>1, <1>2, <1>3, PTL DEF Spec
(* The ancestors of a commit.  A function defined by recursion is chosen: it has *)
(* its equation because some function has it, and keeps its values when the     *)
(* history grows because the parents of a commit are older than it or are no    *)
(* commits at all.                                                            *)

Line(cs) ==
    LET line[n \in DOMAIN cs] ==
            {n} \cup UNION {IF p \in DOMAIN cs THEN line[p] ELSE {p} :
                              p \in {cs[n].parents[i] : i \in DOMAIN cs[n].parents}}
    IN  line

Parents(cs, n) == {cs[n].parents[i] : i \in DOMAIN cs[n].parents}

UpTo(cs, p) == IF p \in DOMAIN cs THEN Line(cs)[p] ELSE {p}

Ordered(cs) ==
    \A n \in 1..Len(cs) : Parents(cs, n) \subseteq 1..(n - 1) \cup {Dangling}

Solved(cs) ==
    \A n \in DOMAIN cs : Line(cs)[n] = {n} \cup UNION {UpTo(cs, p) : p \in Parents(cs, n)}

IsList(cs) == Len(cs) \in Nat /\ DOMAIN cs = 1..Len(cs)

\* The least sets closed under parents solve the equation of the line.
LEMMA LineSolves ==
    ASSUME NEW cs, IsList(cs), Ordered(cs)
    PROVE  Solved(cs)
<1> DEFINE All == DOMAIN cs
           Ends == All \cup {Dangling}
           Closed(S) == \A k \in S \cap All : Parents(cs, k) \subseteq S
           Closure(n) == {k \in Ends : \A S \in SUBSET Ends : n \in S /\ Closed(S) => k \in S}
           Def(line) ==
               [n \in All |->
                   {n} \cup UNION {IF p \in All THEN line[p] ELSE {p} :
                                     p \in {cs[n].parents[i] : i \in DOMAIN cs[n].parents}}]
           closures == [n \in All |-> Closure(n)]
           chosen == CHOOSE line : line = Def(line)
<1>1. (\A n \in All : Parents(cs, n) \subseteq Ends) /\ Dangling \notin All
  BY ForkAssumption DEF Ordered, IsList
<1>2. Closure(Dangling) = {Dangling}
  <2>1. Closed({Dangling}) /\ {Dangling} \in SUBSET Ends
    BY <1>1
  <2> HIDE DEF Closed
  <2> QED  BY <2>1
<1>3. ASSUME NEW n \in All
      PROVE  Closure(n) = {n} \cup UNION {Closure(p) : p \in Parents(cs, n)}
  <2> DEFINE T == {n} \cup UNION {Closure(p) : p \in Parents(cs, n)}
  <2> HIDE DEF All
  <2>1. T \subseteq Closure(n)
    <3>1. n \in Closure(n)
      OBVIOUS
    <3>2. ASSUME NEW p \in Parents(cs, n) PROVE Closure(p) \subseteq Closure(n)
      BY <1>1, <3>2
    <3> QED  BY <3>1, <3>2
  <2>2. T \subseteq Ends /\ n \in T
    OBVIOUS
  <2>3. Closed(T)
    <3>1. Parents(cs, n) \subseteq T
      <4>1. \A p \in Parents(cs, n) : p \in Closure(p)
        BY <1>1
      <4> QED  BY <4>1
    <3>2. ASSUME NEW p \in Parents(cs, n), NEW k \in Closure(p) \cap All
          PROVE  Parents(cs, k) \subseteq Closure(p)
      BY <1>1, <3>2
    <3> HIDE DEF Closure
    <3> QED  BY <3>1, <3>2
  <2>4. Closure(n) \subseteq T
    <3> HIDE DEF T
    <3> QED  BY <2>2, <2>3
  <2> QED  BY <2>1, <2>4
<1>4. closures = Def(closures)
  <2>1. ASSUME NEW n \in All
        PROVE  Closure(n) =
                   {n} \cup UNION {IF p \in All THEN closures[p] ELSE {p} : p \in Parents(cs, n)}
    <3>1. \A p \in Parents(cs, n) : (IF p \in All THEN closures[p] ELSE {p}) = Closure(p)
      <4> HIDE DEF Closure
      <4> QED  BY <1>1, <1>2
    <3>2. Closure(n) = {n} \cup UNION {Closure(p) : p \in Parents(cs, n)}
      BY <1>3
    <3> HIDE DEF Closure, closures, All
    <3>3. {IF p \in All THEN closures[p] ELSE {p} : p \in Parents(cs, n)} =
              {Closure(p) : p \in Parents(cs, n)}
      BY <3>1
    <3> QED  BY <3>2, <3>3
  <2> HIDE DEF Closure, All
  <2> QED  BY <2>1 DEF Parents
<1>5. chosen = Def(chosen)
  <2> HIDE DEF Def, closures
  <2> QED  BY <1>4
<1>6. Line(cs) = chosen
  BY DEF Line
<1>7. \A n \in All : chosen[n] =
          {n} \cup UNION {IF p \in All THEN chosen[p] ELSE {p} : p \in Parents(cs, n)}
  <2> HIDE DEF chosen, All
  <2> QED  BY <1>5 DEF Parents
<1> HIDE DEF chosen
<1> QED  BY <1>6, <1>7 DEF Solved, UpTo

\* A set that has every number up to n whose predecessors it has, has them all.
LEMMA SegmentInduction ==
    ASSUME NEW S, NEW n \in Nat,
           \A k \in 0..n : (\A j \in 0..n : j < k => j \in S) => k \in S
    PROVE  0..n \subseteq S
<1> DEFINE Missing == 0..n \ S
           Less == OpToRel(<, Nat)
<1>1. \A T \in SUBSET Nat : T # {} => \E least \in T : \A k \in T : <<k, least>> \notin Less
  BY NatLessThanWellFounded, WFMin, Zenon
<1>2. \A j, k \in Nat : j < k => <<j, k>> \in Less
  BY DEF OpToRel
<1>3. Missing \in SUBSET Nat
  OBVIOUS
<1>4. ASSUME NEW least \in Missing, \A k \in Missing : <<k, least>> \notin Less PROVE FALSE
  <2>1. ASSUME NEW j \in Missing PROVE ~(j < least)
    <3>1. j \in Nat /\ least \in Nat
      OBVIOUS
    <3> HIDE DEF Less, Missing
    <3> QED  BY <1>2, <1>4, <3>1
  <2> QED  BY <2>1
<1> HIDE DEF Missing, Less
<1>5. Missing = {}
  BY <1>1, <1>3, <1>4
<1> QED  BY <1>5 DEF Missing

\* The ancestors of the old commits are what they were.
LEMMA LineKept ==
    ASSUME NEW cs, NEW ds, IsList(cs), IsList(ds), Len(ds) = Len(cs) + 1, Ordered(cs), Ordered(ds),
           \A n \in DOMAIN cs : ds[n] = cs[n]
    PROVE  \A n \in DOMAIN cs : Line(ds)[n] = Line(cs)[n]
<1> DEFINE N == Len(cs)
           S == {n \in 0..N : n = 0 \/ Line(ds)[n] = Line(cs)[n]}
<1>0. N \in Nat /\ DOMAIN cs = 1..N /\ DOMAIN ds = 1..(N + 1) /\ Dangling \notin Nat
  BY ForkAssumption DEF IsList
<1>1. ASSUME NEW n \in 0..N, \A j \in 0..N : j < n => j \in S
      PROVE  n \in S
  <2>1. CASE n = 0
    BY <2>1
  <2>2. CASE n # 0
    <3>1. n \in DOMAIN cs /\ n \in DOMAIN ds /\ Parents(ds, n) = Parents(cs, n)
      BY <1>0, <2>2 DEF Parents
    <3>2. Parents(cs, n) \subseteq 1..(n - 1) \cup {Dangling}
      BY <1>0, <3>1 DEF Ordered
    <3>3. ASSUME NEW p \in Parents(cs, n) PROVE UpTo(ds, p) = UpTo(cs, p)
      <4>1. CASE p = Dangling
        BY <1>0, <4>1 DEF UpTo
      <4>2. CASE p # Dangling
        <5>1. p \in 1..(n - 1)
          BY <3>2, <4>2
        <5>2. p \in 0..N /\ p < n /\ p # 0 /\ p \in DOMAIN cs /\ p \in DOMAIN ds
          BY <1>0, <3>1, <5>1
        <5> QED  BY <1>1, <5>2 DEF UpTo
      <4> QED  BY <4>1, <4>2
    <3>4. Line(ds)[n] = {n} \cup UNION {UpTo(ds, p) : p \in Parents(cs, n)}
      <4>1. Solved(ds)
        BY LineSolves
      <4> QED  BY <3>1, <4>1 DEF Solved
    <3>5. Line(cs)[n] = {n} \cup UNION {UpTo(cs, p) : p \in Parents(cs, n)}
      <4>1. Solved(cs)
        BY LineSolves
      <4> QED  BY <3>1, <4>1 DEF Solved
    <3>6. {UpTo(ds, p) : p \in Parents(cs, n)} = {UpTo(cs, p) : p \in Parents(cs, n)}
      BY <3>3
    <3> QED  BY <3>4, <3>5, <3>6
  <2> QED  BY <2>1, <2>2
<1> HIDE DEF S
<1>2. 0..N \subseteq S
  BY <1>0, <1>1, SegmentInduction
<1> QED  BY <1>0, <1>2 DEF S

LEMMA HistoryIsList == ASSUME TypeOK PROVE IsList(commits) /\ NoCommit \notin DOMAIN commits
<1>1. commits \in Seq(Object(Ids))
  BY DEF TypeOK, Object
<1> HIDE DEF Object
<1> QED  BY <1>1 DEF IsList, NoCommit

FromLines ==
    \A id : Ancestors(id) =
                IF id = NoCommit /\ id \notin DOMAIN commits THEN {} ELSE UpTo(commits, id)

LEMMA AncestorsAreLines == FromLines
BY DEF FromLines, Ancestors, Line, UpTo

\* Every id is its own ancestor, and the ancestors of its parents are its own.
LEMMA OwnAncestors ==
    ASSUME TypeOK, Ordered(commits), NEW id \in Ids
    PROVE  /\ id \in Ancestors(id)
           /\ id \in DOMAIN commits =>
                  \A p \in Parents(commits, id) : Ancestors(p) \subseteq Ancestors(id)
<1>1. IsList(commits) /\ NoCommit \notin DOMAIN commits /\ id # NoCommit
  BY HistoryIsList, IdsAreIds
<1>2. Solved(commits)
  BY <1>1, LineSolves
<1>3. Ancestors(id) = UpTo(commits, id)
  BY <1>1, AncestorsAreLines DEF FromLines
<1>4. CASE id \in DOMAIN commits
  <2>1. Ancestors(id) = {id} \cup UNION {UpTo(commits, p) : p \in Parents(commits, id)}
    BY <1>2, <1>3, <1>4 DEF Solved, UpTo
  <2>2. \A p \in Parents(commits, id) : Ancestors(p) \subseteq UpTo(commits, p)
    BY AncestorsAreLines DEF FromLines
  <2> QED  BY <2>1, <2>2
<1>5. CASE id \notin DOMAIN commits
  BY <1>3, <1>5 DEF UpTo
<1> QED  BY <1>4, <1>5

\* When a commit is added the others keep their ancestors.
LEMMA AncestorsKept ==
    ASSUME TypeOK, TypeOK', Ordered(commits), Ordered(commits'),
           \/ commits' = commits
           \/ /\ Len(commits') = Len(commits) + 1
              /\ \A id \in DOMAIN commits : commits'[id] = commits[id]
    PROVE  \A id \in Ids \cup {NoCommit} : Ancestors(id)' = Ancestors(id)
<1>1. CASE commits' = commits
  BY <1>1 DEF Ancestors
<1>2. CASE /\ Len(commits') = Len(commits) + 1
           /\ \A id \in DOMAIN commits : commits'[id] = commits[id]
  <2>1. IsList(commits) /\ IsList(commits') /\ NoCommit \notin DOMAIN commits'
    <3>1. (IsList(commits) /\ NoCommit \notin DOMAIN commits)'
      BY HistoryIsList, PTL
    <3> QED  BY <3>1, HistoryIsList, Zenon DEF IsList
  <2>2. \A id \in DOMAIN commits : Line(commits')[id] = Line(commits)[id]
    BY <1>2, <2>1, LineKept
  <2>3. DOMAIN commits \subseteq DOMAIN commits' /\ Dangling \notin DOMAIN commits'
        /\ NoCommit \notin DOMAIN commits /\ Dangling \notin DOMAIN commits
    BY <1>2, <2>1, ForkAssumption, HistoryIsList DEF IsList
  <2>4. \A id \in Ids \cup {NoCommit} : UpTo(commits', id) = UpTo(commits, id)
    BY <2>1, <2>2, <2>3 DEF UpTo, Ids
  <2>5. FromLines /\ FromLines'
    BY AncestorsAreLines, PTL
  <2>6. \A id \in Ids \cup {NoCommit} :
            /\ Ancestors(id) = IF id = NoCommit THEN {} ELSE UpTo(commits, id)
            /\ Ancestors(id)' = IF id = NoCommit THEN {} ELSE UpTo(commits', id)
    BY <2>1, <2>3, <2>5 DEF FromLines
  <2> QED  BY <2>4, <2>6, Zenon
<1> QED  BY <1>1, <1>2

\* What a new commit's parents are.
LEMMA NewParents ==
    ASSUME TypeOK, NEW c \in Callers, WriteCommit(c)
    PROVE  /\ Parents(commits', job'[c].id) \subseteq Ids
           /\ Merging(c) => job[c].ours \in Parents(commits', job'[c].id)
           /\ ~Merging(c) /\ HeadTip # NoCommit => HeadTip \in Parents(commits', job'[c].id)
<1> DEFINE list == IF Merging(c) THEN <<job[c].ours, job[c].theirs>>
                   ELSE IF HeadTip = NoCommit THEN <<>> ELSE <<HeadTip>>
<1>1. pc[c] = "build" /\ commits'[job'[c].id] = [parents |-> list, tree |-> job[c].tree]
  BY CommitWritten
<1>2. Parents(commits', job'[c].id) = {list[i] : i \in DOMAIN list}
  <2> HIDE DEF list
  <2> QED  BY <1>1 DEF Parents
<1>3. CASE Merging(c)
  <2>1. {job[c].ours, job[c].theirs} \subseteq Ids
    BY <1>1, <1>3, HasTrees DEF Ids
  <2>2. list = <<job[c].ours, job[c].theirs>>
    BY <1>3
  <2> QED  BY <1>2, <1>3, <2>1, <2>2
<1>4. CASE ~Merging(c) /\ HeadTip = NoCommit
  BY <1>2, <1>4
<1>5. CASE ~Merging(c) /\ HeadTip # NoCommit
  <2>1. HeadTip \in Ids
    BY <1>5, Known
  <2>2. list = <<HeadTip>>
    BY <1>5
  <2> QED  BY <1>2, <1>5, <2>1, <2>2
<1> QED  BY <1>3, <1>4, <1>5

\* Commits are written in no other step.
LEMMA CommitsWritten ==
    ASSUME TypeOK, NEW c \in Callers, Call(c) \/ Step(c) \/ ApplyFails(c), ~WriteCommit(c)
    PROVE  commits' = commits
<1> USE DEF repository
<1>1. CASE Call(c)
  BY <1>1, Begins
<1>2. CASE ReadForkPoint(c) \/ CheckName(c) \/ CheckBranch(c) \/ WriteBranch(c) \/ DeleteBranch(c)
  BY <1>2 DEF ReadForkPoint, CheckName, CheckBranch, WriteBranch, DeleteBranch
<1>3. CASE ReadOurs(c) \/ ReadTheirs(c) \/ MergeTrees(c) \/ CheckoutParent(c) \/ Apply(c)
  BY <1>3 DEF ReadOurs, ReadTheirs, MergeTrees, CheckoutParent, Apply
<1>4. CASE ReadFile(c) \/ OpenWriteBack(c) \/ FillWriteBack(c) \/ MoveHead(c) \/ MergeCommit(c)
  BY <1>4, Zenon DEF ReadFile, OpenWriteBack, FillWriteBack, MoveHead, MergeCommit
<1>5. CASE ApplyFails(c) \/ Persist(c) \/ Store(c) \/ Insert(c) \/ Remove(c) \/ Mark(c)
  BY <1>5 DEF ApplyFails, Persist, Store, Insert, Remove, Mark
<1> QED  BY <1>1, <1>2, <1>3, <1>4, <1>5 DEF Step

\* A parent is read before the commit is written, or is no commit and never will be.
LEMMA OrderedInductive ==
    ASSUME TypeOK, Ordered(commits), [Next]_vars
    PROVE  Ordered(commits')
<1>1. ASSUME NEW c \in Callers, WriteCommit(c) PROVE Ordered(commits')
  <2> DEFINE N == Len(commits)
  <2>1. /\ job'[c].id = N + 1 /\ Len(commits') = N + 1
        /\ \A id \in DOMAIN commits : commits'[id] = commits[id]
    BY <1>1, CommitWritten
  <2>2. N \in Nat /\ DOMAIN commits = 1..N
    BY HistoryIsList DEF IsList
  <2>3. Parents(commits', N + 1) \subseteq 1..((N + 1) - 1) \cup {Dangling}
    BY <1>1, <2>1, <2>2, NewParents DEF Ids
  <2>4. \A n \in 1..N : Parents(commits', n) \subseteq 1..(n - 1) \cup {Dangling}
    BY <2>1, <2>2 DEF Ordered, Parents
  <2>5. \A n \in 1..(N + 1) : n \in 1..N \/ n = N + 1
    BY <2>2
  <2> QED  BY <2>1, <2>3, <2>4, <2>5 DEF Ordered
<1>2. ASSUME NEW m \in Managers, Restart(m) PROVE UNCHANGED commits
  BY <1>2 DEF Restart, repository
<1> QED  BY <1>1, <1>2, CommitsWritten DEF Next, vars
(* ForkPointInHistory, for one caller of one process.                       *)

\* The record of a fork that is being removed has lost its branch.
RecordsRooted ==
    faults = 0 =>
        \A m \in Managers, n \in Names : forks[m][n] # NoFork =>
            \/ forks[m][n].point \in Ancestors(branches[n])
            \/ \E c \in Callers : At(c, "remove") /\ job[c].name = n

\* From the reading of the parent's tip to the moving of its branch.
Basing(c) ==
    \/ pc[c] \in {"theirs", "trees", "checkout", "apply", "commit"}
    \/ Merging(c) /\ pc[c] \in Building \cup {"head"}

\* A new fork starts at its fork point, read or given, and a commit has what its
\* branch points to as a parent.
JobsRooted ==
    \A c \in Callers :
        /\ At(c, "point") => job[c].tip = NoCommit
        /\ pc[c] \in {"check", "checkBranch"} =>
               job[c].tip = job[c].point \/ (job[c].tip = NoCommit /\ job[c].point = HeadTip)
        /\ pc[c] \in {"branch", "insert"} => job[c].tip = job[c].point
        /\ At(c, "insert") => branches[job[c].name] = job[c].tip
        /\ Basing(c) => job[c].ours = branches[job[c].parent]
        /\ At(c, "head") => /\ job[c].id \in DOMAIN commits
                            /\ HeadTip # NoCommit => HeadTip \in Parents(commits, job[c].id)

LEMMA JobsRootedEnds ==
    ASSUME OneCaller, NEW c \in Callers, ~Basing(c)',
           pc'[c] \in {Idle, "delete", "remove", "ours", "mark", "persist", "store"} \cup Building
    PROVE  JobsRooted'
BY DEF JobsRooted, OneCaller, At, Idle, Building

LEMMA JobsRootedCall ==
    ASSUME OneCaller, TypeOK, IdleJobs, NEW c \in Callers, Call(c)
    PROVE  JobsRooted'
<1>0. /\ pc'[c] \in {Idle, "point", "check", "delete", "ours", "build"} /\ ~Merging(c)'
      /\ branches' = branches
  BY Begins, FreshCall DEF Merging
<1>1. CASE pc'[c] \in {Idle, "delete", "ours", "build"}
  BY <1>0, <1>1, JobsRootedEnds DEF Basing, Idle, Building
<1>2. ASSUME NEW l, NEW j, Begin(c, l, j) PROVE pc'[c] = l /\ job'[c] = j
  BY <1>2 DEF Begin, Goto, TypeOK
<1>3. ASSUME NEW x, CreateFork(c, x) PROVE JobsRooted'
  <2>1. pc'[c] = "point" /\ job'[c] = [NoJob EXCEPT !.name = x, !.parent = headBranch]
    BY <1>2, <1>3 DEF CreateFork
  <2>2. job'[c].tip = NoCommit
    BY <2>1 DEF NoJob
  <2> QED  BY <1>0, <2>1, <2>2 DEF JobsRooted, OneCaller, At, Basing, Building
<1>4. ASSUME NEW x, NEW id, CreateForkAt(c, x, id) PROVE JobsRooted'
  <2>1. /\ pc'[c] = "check"
        /\ job'[c] = [NoJob EXCEPT !.name = x, !.parent = headBranch, !.point = id, !.tip = id]
    BY <1>2, <1>4 DEF CreateForkAt
  <2>2. job'[c].tip = job'[c].point
    BY <2>1 DEF NoJob
  <2> QED  BY <1>0, <2>1, <2>2 DEF JobsRooted, OneCaller, At, Basing, Building
<1>5. ASSUME NEW x, NEW parent, CreateNestedFork(c, parent, x) PROVE JobsRooted'
  <2>1. /\ pc'[c] = "check"
        /\ job'[c] = [NoJob EXCEPT !.name = x, !.parent = parent,
                          !.point = branches[parent], !.tip = branches[parent]]
    BY <1>2, <1>5 DEF CreateNestedFork
  <2>2. job'[c].tip = job'[c].point
    BY <2>1 DEF NoJob
  <2> QED  BY <1>0, <2>1, <2>2 DEF JobsRooted, OneCaller, At, Basing, Building
<1>6. ASSUME NEW x, NEW strategy, NEW b, NEW f, NEW content,
             \/ AbandonFork(c, x) \/ MergeFork(c, x, strategy)
             \/ Checkout(c, b) \/ Edit(c, f, content) \/ Commit(c)
      PROVE  JobsRooted'
  <2>1. pc'[c] \in {"delete", "ours", Idle, "build"}
    <3>1. CASE AbandonFork(c, x) \/ MergeFork(c, x, strategy)
      BY <1>2, <3>1 DEF AbandonFork, MergeFork
    <3>2. CASE Commit(c)
      BY <3>2, BuildBegins
    <3>3. CASE Checkout(c, b) \/ Edit(c, f, content)
      BY <3>3 DEF Checkout, Edit, At
    <3> QED  BY <1>6, <3>1, <3>2, <3>3
  <2> QED  BY <1>1, <2>1
<1> QED  BY <1>3, <1>4, <1>5, <1>6, Zenon DEF Call

\* The steps of the calls that make and abandon forks.
LEMMA JobsRootedFork ==
    ASSUME OneCaller, TypeOK, JobsRooted, NEW c \in Callers, ~Return(c),
           \/ ReadForkPoint(c) \/ CheckName(c) \/ CheckBranch(c) \/ WriteBranch(c) \/ Insert(c)
           \/ DeleteBranch(c) \/ Remove(c)
    PROVE  JobsRooted'
<1> USE DEF repository
<1>0. /\ pc \in [Callers -> Locations] /\ job \in [Callers -> Jobs(Ids)] /\ job[c] \in Jobs(Ids)
      /\ branches \in [Branches -> Ids \cup {NoCommit}]
  BY DEF TypeOK
<1>1. pc'[c] \in {"check", "checkBranch", "branch", "insert", "remove", "persist"}
  BY ForkMoves
<1>2. ~Basing(c)'
  BY <1>1 DEF Basing, Building
<1>3. CASE Insert(c) \/ DeleteBranch(c) \/ Remove(c)
  <2>1. pc'[c] \in {"remove", "persist"}
    BY <1>3, ForkMoves DEF Insert, DeleteBranch, Remove, At
  <2> QED  BY <1>2, <2>1, JobsRootedEnds
<1>4. CASE ReadForkPoint(c)
  <2>1. /\ pc[c] = "point" /\ pc'[c] = "check" /\ job' = [job EXCEPT ![c].point = HeadTip]
        /\ branches' = branches /\ headBranch' = headBranch
    BY <1>0, <1>4 DEF ReadForkPoint, At, Goto
  <2>2. job'[c].tip = job[c].tip /\ job'[c].point = HeadTip /\ HeadTip' = HeadTip
    BY <1>0, <2>1 DEF Jobs, HeadTip
  <2>3. job[c].tip = NoCommit
    BY <2>1 DEF JobsRooted, At
  <2> QED  BY <1>2, <2>1, <2>2, <2>3 DEF JobsRooted, OneCaller, At
<1>5. CASE CheckName(c)
  <2>1. /\ pc[c] = "check" /\ pc'[c] = "checkBranch" /\ job' = job
        /\ branches' = branches /\ headBranch' = headBranch
    BY <1>0, <1>5 DEF CheckName, At, Goto
  <2> QED  BY <1>2, <2>1 DEF JobsRooted, OneCaller, At, HeadTip
<1>6. CASE CheckBranch(c)
  <2> DEFINE tip == IF job[c].tip = NoCommit THEN HeadTip ELSE job[c].tip
  <2>1. /\ pc[c] = "checkBranch" /\ pc'[c] = "branch" /\ job' = [job EXCEPT ![c].tip = tip]
    BY <1>0, <1>6 DEF CheckBranch, At, Goto
  <2>2. job[c].point # NoCommit
    BY <2>1, Known DEF JobFits
  <2>3. tip = job[c].point
    BY <2>1, <2>2 DEF JobsRooted
  <2>4. job'[c].tip = tip /\ job'[c].point = job[c].point
    BY <1>0, <2>1 DEF Jobs
  <2> QED  BY <1>2, <2>1, <2>3, <2>4 DEF JobsRooted, OneCaller, At
<1>7. CASE WriteBranch(c)
  <2>1. /\ pc[c] = "branch" /\ pc'[c] = "insert" /\ job' = job
        /\ branches' = [branches EXCEPT ![job[c].name] = job[c].tip]
    BY <1>0, <1>7 DEF WriteBranch, At, Goto
  <2>2. branches'[job[c].name] = job[c].tip
    BY <1>0, <2>1, Known
  <2> QED  BY <1>2, <2>1, <2>2 DEF JobsRooted, OneCaller, At
<1> QED  BY <1>3, <1>4, <1>5, <1>6, <1>7

LEMMA JobsRootedStep ==
    ASSUME OneCaller, TypeOK, LandInv, JobsRooted, NEW c \in Callers, Step(c) \/ ApplyFails(c)
    PROVE  JobsRooted'
<1>1. ASSUME Return(c) PROVE JobsRooted'
  BY <1>1, Returns, JobsRootedEnds DEF Basing, Merging, NoJob, Idle, Building
<1>2. CASE /\ ~Return(c)
           /\ ReadOurs(c) \/ ReadTheirs(c) \/ MergeTrees(c) \/ CheckoutParent(c) \/ Apply(c)
  <2>1. /\ branches' = branches /\ job'[c].parent = job[c].parent
        /\ job'[c].ours = branches[job[c].parent]
        /\ pc'[c] \in {"theirs", "trees", "mark", "checkout", "apply", "commit"}
    BY <1>2, MergeMoves DEF SameCall, JobsRooted, Basing
  <2> QED  BY <2>1 DEF JobsRooted, OneCaller, At
<1>3. CASE MergeCommit(c) \/ ReadFile(c) \/ OpenWriteBack(c) \/ FillWriteBack(c)
  <2>1. /\ SameTask(job[c], job'[c]) /\ branches' = branches
        /\ pc'[c] \in Building /\ pc[c] \in Building \cup {"commit"}
    BY <1>3, BuildMoves, FileRead, FileOpened, FileFilled DEF MergeCommit, At, Building
  <2>2. Basing(c)' => job'[c].ours = branches'[job'[c].parent]
    <3>1. CASE Merging(c)
      BY <2>1, <3>1 DEF SameTask, JobsRooted, Basing
    <3>2. CASE ~Merging(c)
      BY <2>1, <3>2 DEF SameTask, Merging, Basing, Building
    <3> QED  BY <3>1, <3>2
  <2> QED  BY <2>1, <2>2 DEF JobsRooted, OneCaller, At, Building
<1>4. CASE WriteCommit(c)
  <2>1. /\ SameTask(job[c], job'[c]) /\ branches' = branches /\ headBranch' = headBranch
        /\ pc[c] = "build" /\ pc'[c] = "head" /\ job'[c].id \in DOMAIN commits'
    BY <1>4, CommitWritten
  <2>2. Merging(c) => HeadTip = job[c].ours /\ job[c].ours = branches[job[c].parent]
    BY <2>1 DEF LandInv, OnParent, JobsRooted, Basing, HeadTip, Building
  <2>3. HeadTip' # NoCommit => HeadTip' \in Parents(commits', job'[c].id)
    BY <1>4, <2>1, <2>2, NewParents DEF HeadTip
  <2>4. Merging(c)' = Merging(c) /\ job'[c].ours = job[c].ours /\ job'[c].parent = job[c].parent
    BY <2>1 DEF SameTask, Merging
  <2> QED  BY <2>1, <2>2, <2>3, <2>4 DEF JobsRooted, OneCaller, At, Basing
<1>5. CASE (MoveHead(c) /\ Merging(c)) \/ Mark(c) \/ Persist(c)
  <2>1. pc'[c] \in {"mark", "persist", "store"}
    BY <1>5, EndMoves
  <2> QED  BY <2>1, JobsRootedEnds DEF Basing, Building
<1>6. CASE Store(c) \/ ApplyFails(c) \/ (MoveHead(c) /\ ~Merging(c))
  BY <1>1, <1>6 DEF Store, ApplyFails, MoveHead
<1> QED  BY <1>1, <1>2, <1>3, <1>4, <1>5, <1>6, JobsRootedFork DEF Step

\* A step that leaves the map and the branches alone.
LEMMA RecordsStay ==
    ASSUME OneCaller, TypeOK, TypeOK', Ordered(commits), Ordered(commits'), RecordsRooted,
           NEW c \in Callers, ~At(c, "remove"), UNCHANGED <<forks, branches>>,
           faults' = 0 => faults = 0,
           WriteCommit(c) \/ commits' = commits
    PROVE  RecordsRooted'
<1>1. \A d \in Callers : ~At(d, "remove")
  BY DEF OneCaller
<1>2. \A id \in Ids \cup {NoCommit} : Ancestors(id)' = Ancestors(id)
  <2>1. WriteCommit(c) => /\ Len(commits') = Len(commits) + 1
                          /\ \A id \in DOMAIN commits : commits'[id] = commits[id]
    BY CommitWritten
  <2> QED  BY <2>1, AncestorsKept
<1>3. \A n \in Names : Ancestors(branches[n])' = Ancestors(branches[n])
  <2> SUFFICES ASSUME NEW n \in Names PROVE Ancestors(branches[n])' = Ancestors(branches[n])
    OBVIOUS
  <2>1. PICK id \in Ids \cup {NoCommit} : id = branches[n]
    BY DEF TypeOK, Branches
  <2>2. Ancestors(branches[n])' = Ancestors(id)' /\ Ancestors(branches[n]) = Ancestors(id)
    BY <2>1 DEF Ancestors
  <2> QED  BY <1>2, <2>1, <2>2
<1> QED  BY <1>1, <1>3 DEF RecordsRooted

\* The steps that change a branch or a record.
LEMMA RecordsMove ==
    ASSUME OneCaller, OneProcess, TypeOK, Ordered(commits), FateInv, JobsRooted, RecordsRooted,
           NEW c \in Callers,
           \/ WriteBranch(c) \/ Insert(c) \/ DeleteBranch(c) \/ Remove(c) \/ MoveHead(c) \/ Mark(c)
    PROVE  RecordsRooted'
<1> USE DEF repository, bounds
<1>0. /\ Names \subseteq Branches /\ branches \in [Branches -> Ids \cup {NoCommit}]
      /\ headBranch \in Branches /\ forks \in [Managers -> ForkMaps(Ids)]
      /\ ManagerOf[c] \in Managers /\ job[c].name \in Branches
      /\ pc \in [Callers -> Locations] /\ job \in [Callers -> Jobs(Ids)]
  BY Known DEF TypeOK, Branches
<1>1. \A m \in Managers : forks[m] = Mine(c) /\ m = ManagerOf[c]
  BY <1>0 DEF OneProcess, Mine
<1>2. ASSUME commits' = commits, NEW id PROVE Ancestors(id)' = Ancestors(id)
  BY <1>2 DEF Ancestors
<1>3. ASSUME ~At(c, "remove"), faults = 0, NEW m \in Managers, NEW n \in Names, forks[m][n] # NoFork
      PROVE  forks[m][n].point \in Ancestors(branches[n])
  BY <1>3 DEF RecordsRooted, OneCaller
<1>4. ASSUME NEW record, SetFork(c, job[c].name, record), job[c].name \in Names
      PROVE  /\ forks'[ManagerOf[c]][job[c].name] = record
             /\ \A m \in Managers, n \in Names : n # job[c].name => forks'[m][n] = forks[m][n]
  BY <1>0, <1>1, <1>4 DEF SetFork, ForkMaps
<1>5. CASE WriteBranch(c)
  <2>1. /\ UNCHANGED <<forks, commits, faults>> /\ pc[c] = "branch"
        /\ branches' = [branches EXCEPT ![job[c].name] = job[c].tip]
    BY <1>5 DEF WriteBranch, At
  <2>2. \A m \in Managers : forks[m][job[c].name] = NoFork
    BY <1>1, <2>1 DEF FateInv, Free
  <2>3. \A n \in Names : n # job[c].name => branches'[n] = branches[n]
    BY <1>0, <2>1
  <2> QED  BY <1>2, <1>3, <2>1, <2>2, <2>3 DEF RecordsRooted, At
<1>6. CASE Insert(c)
  <2> DEFINE record == [parent |-> job[c].parent, point |-> job[c].point, merged |-> FALSE]
  <2>1. /\ UNCHANGED <<commits, branches, faults>> /\ pc[c] = "insert"
        /\ SetFork(c, job[c].name, record) /\ job[c].name \in Names
    BY <1>6, OnFork DEF Insert, At, Building, Idle
  <2>2. branches[job[c].name] = job[c].point
    BY <2>1 DEF JobsRooted, At
  <2>3. job[c].point \in Ids
    BY <2>1, Known DEF JobFits
  <2>4. job[c].point \in Ancestors(branches[job[c].name])
    BY <2>2, <2>3, OwnAncestors
  <2>5. /\ \A m \in Managers : forks'[m][job[c].name].point = job[c].point
        /\ \A m \in Managers, n \in Names : n # job[c].name => forks'[m][n] = forks[m][n]
    BY <1>1, <1>4, <2>1
  <2> QED  BY <1>2, <1>3, <2>1, <2>4, <2>5 DEF RecordsRooted, At
<1>7. CASE DeleteBranch(c)
  <2>1. /\ UNCHANGED <<forks, commits, faults>> /\ pc[c] = "delete"
        /\ branches' \in {branches, [branches EXCEPT ![job[c].name] = NoCommit]}
    BY <1>7 DEF DeleteBranch, At
  <2>2. CASE branches' = branches
    BY <1>2, <1>3, <2>1, <2>2 DEF RecordsRooted, At
  <2>3. CASE branches' # branches
    <3>1. job' = job /\ pc'[c] = "remove"
      BY <1>0, <1>7, <2>3 DEF DeleteBranch, Goto
    <3>2. \A n \in Names : n # job[c].name => branches'[n] = branches[n]
      BY <1>0, <2>1
    <3> QED  BY <1>2, <1>3, <2>1, <3>1, <3>2 DEF RecordsRooted, At
  <2> QED  BY <2>2, <2>3
<1>8. CASE Remove(c)
  <2>1. /\ UNCHANGED <<commits, branches, faults>> /\ SetFork(c, job[c].name, NoFork)
        /\ job[c].name \in Names
    BY <1>8, OnFork DEF Remove, At, Building, Idle
  <2>2. \A m \in Managers : forks'[m][job[c].name] = NoFork
    BY <1>1, <1>4, <2>1
  <2>3. \A m \in Managers, n \in Names : n # job[c].name => forks'[m][n] = forks[m][n]
    BY <1>4, <2>1
  <2>4. ASSUME faults = 0, NEW m \in Managers, NEW n \in Names, forks[m][n] # NoFork, n # job[c].name
        PROVE  forks[m][n].point \in Ancestors(branches[n])
    BY <2>4 DEF RecordsRooted, OneCaller
  <2> QED  BY <1>2, <2>1, <2>2, <2>3, <2>4 DEF RecordsRooted
<1>9. CASE MoveHead(c)
  <2>1. /\ UNCHANGED <<forks, commits, faults>> /\ pc[c] = "head"
        /\ branches' = [branches EXCEPT ![headBranch] = job[c].id]
    BY <1>9 DEF MoveHead, At
  <2>2. /\ job[c].id \in DOMAIN commits
        /\ branches[headBranch] # NoCommit => branches[headBranch] \in Parents(commits, job[c].id)
    BY <2>1 DEF JobsRooted, At, HeadTip
  <2>3. Ancestors(branches[headBranch]) \subseteq Ancestors(job[c].id)
    <3>1. Ancestors(NoCommit) = {}
      BY HistoryIsList DEF Ancestors
    <3>2. \A p \in Parents(commits, job[c].id) : Ancestors(p) \subseteq Ancestors(job[c].id)
      BY <2>2, OwnAncestors DEF Ids
    <3> QED  BY <2>2, <3>1, <3>2
  <2>4. /\ branches'[headBranch] = job[c].id
        /\ \A n \in Names : n # headBranch => branches'[n] = branches[n]
    BY <1>0, <2>1
  <2>5. \A n \in Names : Ancestors(branches[n]) \subseteq Ancestors(branches'[n])
    BY <2>3, <2>4
  <2> QED  BY <1>2, <1>3, <2>1, <2>5 DEF RecordsRooted, At
<1>10. CASE Mark(c)
  <2>1. /\ UNCHANGED <<commits, branches, faults>> /\ pc[c] = "mark" /\ job[c].name \in Names
    BY <1>10, OnFork DEF Mark, At, Building, Idle
  <2>2. CASE Mine(c)[job[c].name] = NoFork
    <3>1. forks' = forks
      BY <1>10, <2>2 DEF Mark
    <3> QED  BY <1>2, <1>3, <2>1, <3>1 DEF RecordsRooted, At
  <2>3. CASE Mine(c)[job[c].name] # NoFork
    <3> DEFINE record == [Mine(c)[job[c].name] EXCEPT !.merged = TRUE]
    <3>1. SetFork(c, job[c].name, record)
      BY <1>10, <2>3 DEF Mark
    <3>2. record.point = Mine(c)[job[c].name].point
      BY <1>0, <1>1, <2>1, <2>3 DEF ForkMaps
    <3>3. \A m \in Managers, n \in Names :
              /\ forks'[m][n].point = forks[m][n].point
              /\ forks'[m][n] # NoFork => forks[m][n] # NoFork
      <4>1. \A m \in Managers : forks'[m][job[c].name] = record /\ forks[m] = Mine(c)
        BY <1>1, <1>4, <2>1, <3>1
      <4>2. \A m \in Managers, n \in Names : n # job[c].name => forks'[m][n] = forks[m][n]
        BY <1>4, <2>1, <3>1
      <4> HIDE DEF record
      <4> QED  BY <2>3, <3>2, <4>1, <4>2
    <3> QED  BY <1>2, <1>3, <2>1, <3>3 DEF RecordsRooted, At
  <2> QED  BY <2>2, <2>3
<1> QED  BY <1>5, <1>6, <1>7, <1>8, <1>9, <1>10

\* The steps that change neither.
LEMMA RecordsOther ==
    ASSUME OneCaller, TypeOK, TypeOK', Ordered(commits), Ordered(commits'), RecordsRooted,
           NEW c \in Callers, Call(c) \/ Step(c) \/ ApplyFails(c),
           ~(\/ WriteBranch(c) \/ Insert(c) \/ DeleteBranch(c) \/ Remove(c) \/ MoveHead(c)
             \/ Mark(c))
    PROVE  RecordsRooted'
<1>1. forks' = forks /\ (WriteCommit(c) \/ commits' = commits)
  BY OtherStepsLeaveForks, CommitsWritten
<1> USE DEF repository, bounds
<1>2. ASSUME ~At(c, "remove"), branches' = branches, faults' = 0 => faults = 0
      PROVE  RecordsRooted'
  BY <1>1, <1>2, RecordsStay
<1>3. CASE Call(c)
  <2>1. pc[c] = Idle /\ branches' = branches /\ faults' = faults
    BY <1>3, Begins
  <2> QED  BY <1>2, <2>1 DEF At, Idle
<1>4. CASE ReadForkPoint(c) \/ CheckName(c) \/ CheckBranch(c)
  BY <1>2, <1>4 DEF ReadForkPoint, CheckName, CheckBranch, At
<1>5. CASE ReadOurs(c) \/ ReadTheirs(c) \/ MergeTrees(c) \/ CheckoutParent(c) \/ Apply(c)
  BY <1>2, <1>5 DEF ReadOurs, ReadTheirs, MergeTrees, CheckoutParent, Apply, At
<1>6. CASE MergeCommit(c) \/ ReadFile(c) \/ OpenWriteBack(c) \/ FillWriteBack(c) \/ WriteCommit(c)
  BY <1>2, <1>6, Zenon DEF MergeCommit, ReadFile, OpenWriteBack, FillWriteBack, WriteCommit, At
<1>7. CASE Persist(c) \/ Store(c)
  BY <1>2, <1>7 DEF Persist, Store, At
<1>8. CASE ApplyFails(c)
  BY <1>2, <1>8 DEF ApplyFails, Fault, At, TypeOK
<1> QED  BY <1>3, <1>4, <1>5, <1>6, <1>7, <1>8 DEF Step

\* A process that starts while nobody is in a call knows what the last one knew;
\* one that starts in a call starts after a crash.
LEMMA RootedRestart ==
    ASSUME OneCaller, OneProcess, TypeOK, SerialInv, RecordsRooted, NEW m \in Managers, Restart(m)
    PROVE  RecordsRooted' /\ JobsRooted'
<1>1. JobsRooted'
  BY AllIdle DEF JobsRooted, At, Idle, Basing, Building
<1>3. branches' = branches /\ \A id : Ancestors(branches[id])' = Ancestors(branches[id])
  BY DEF Restart, repository, Ancestors
<1>4. ASSUME faults' = 0
      PROVE  faults = 0 /\ forks' = forks /\ \A c \in Callers : pc[c] = Idle
  BY <1>4, RestartKnows
<1>2. RecordsRooted'
  BY <1>3, <1>4 DEF RecordsRooted, At, Idle
<1> QED  BY <1>1, <1>2

LEMMA RootedInit == Init => Ordered(commits) /\ RecordsRooted /\ JobsRooted
<1> SUFFICES ASSUME Init PROVE Ordered(commits) /\ RecordsRooted /\ JobsRooted
  OBVIOUS
<1>1. Len(commits) = 1 /\ commits[1].parents = <<>>
  BY DEF Init
<1>2. Ordered(commits)
  BY <1>1 DEF Ordered, Parents
<1>3. RecordsRooted
  BY DEF Init, RecordsRooted, NoForks
<1>4. JobsRooted
  BY DEF Init, JobsRooted, At, Idle, Basing, Building
<1> QED  BY <1>2, <1>3, <1>4

LEMMA RootedInductive ==
    ASSUME OneCaller, OneProcess, TypeOK, TypeOK', IdleJobs, SerialInv, FateInv, LandInv,
           Ordered(commits), Ordered(commits'), RecordsRooted, JobsRooted, [Next]_vars
    PROVE  RecordsRooted' /\ JobsRooted'
<1>1. CASE UNCHANGED vars
  <2>1. JobsRooted'
    BY <1>1 DEF vars, JobsRooted, At, HeadTip, Basing, Merging
  <2>2. UNCHANGED <<forks, branches, pc, job, faults>> /\
        \A n : Ancestors(branches[n])' = Ancestors(branches[n])
    BY <1>1 DEF vars, Ancestors
  <2>3. RecordsRooted'
    BY <2>2 DEF RecordsRooted, At
  <2> QED  BY <2>1, <2>3
<1>2. ASSUME NEW c \in Callers, Call(c) \/ Step(c) \/ ApplyFails(c)
      PROVE  RecordsRooted' /\ JobsRooted'
  BY <1>2, RecordsMove, RecordsOther, JobsRootedCall, JobsRootedStep
<1> QED  BY <1>1, <1>2, RootedRestart DEF Next

\* With one caller of one process, every fork on record has a branch whose history
\* has the fork point, whatever forks were made of forks or of ids without a commit,
\* merged, abandoned and made again, and however often the process was started anew
\* (fork.rs:176-304, 411-529).
THEOREM ForkPointsAreBases ==
    ASSUME OneCaller, OneProcess
    PROVE  Spec => []ForkPointInHistory
<1> DEFINE Inv == /\ TypeOK /\ IdleJobs /\ SerialInv /\ FateInv /\ LandInv
                  /\ Ordered(commits) /\ RecordsRooted /\ JobsRooted
<1>1. Init => Inv
  <2>1. Init => IdleJobs
    BY DEF Init, IdleJobs
  <2> QED  BY <2>1, InitTyped, SerialInit, LandInit, FateInit, RootedInit
<1>2. Inv /\ [Next]_vars => Inv'
  <2> SUFFICES ASSUME Inv, [Next]_vars PROVE Inv'
    OBVIOUS
  <2>1. TypeOK' /\ IdleJobs' /\ SerialInv' /\ FateInv' /\ LandInv' /\ Ordered(commits')
    BY NextTyped, IdleInductive, SerialInductive, FateInductive, LandInductive, OrderedInductive
  <2> QED  BY <2>1, RootedInductive
<1>3. Inv => ForkPointInHistory
  BY DEF RecordsRooted, ForkPointInHistory, Quiescent, At, Idle
<1> QED  BY <1>1, <1>2, <1>3, PTL DEF Spec
=============================================================================
