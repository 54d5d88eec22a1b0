-------------------------- MODULE FuseHandlerProofs --------------------------
(***************************************************************************)
(* Proofs about FuseHandler, for any set of paths, files, contents and inode  *)
(* numbers, any batch size, and whether or not commits fail.  The inductive   *)
(* invariant adds to the properties that the working tree is nested.          *)
(***************************************************************************)
EXTENDS FuseHandler, BackendOpsProofs, FiniteSetTheorems

-----------------------------------------------------------------------------
(* The inode table                                                          *)

TablesOK == InodeTypeOK /\ InodesLeadBack

LEMMA InodeInitOK == InodeInit => TablesOK
<1> SUFFICES ASSUME InodeInit PROVE TablesOK
  OBVIOUS
<1>1. MaxInode \in Nat \ {0} /\ Root \notin Paths
  BY InodeAssumption, TreeAssumption DEF Root
<1>2. InodeTypeOK
  BY <1>1 DEF InodeInit, InodeTypeOK, NewPathToInode, NewInodeToPath, AllPaths, Inodes,
              NoInode, RootInode
<1>3. InodesLeadBack
  BY <1>1 DEF InodeInit, InodesLeadBack, NewPathToInode, NewInodeToPath, AllPaths, Inodes,
              NoInode, RootInode
<1> QED
  BY <1>2, <1>3 DEF TablesOK

LEMMA PathsHaveNames == NoPath \notin AllPaths
BY InodeAssumption DEF AllPaths

LEMMA GetOrCreateAllOK ==
    ASSUME TablesOK, NEW S \in SUBSET AllPaths, GetOrCreateAll(S)
    PROVE  TablesOK'
<1> DEFINE new == {p \in S : pathToInode[p] = NoInode}
           next == nextInode + Cardinality(new)
<1>1. PICK number \in Bijection(new, nextInode..(next - 1)) :
          /\ next <= MaxInode + 1 /\ nextInode' = next
          /\ pathToInode' = [p \in AllPaths |-> IF p \in new THEN number[p] ELSE pathToInode[p]]
          /\ inodeToPath' = [i \in Inodes |-> IF i \in nextInode..(next - 1)
                                                THEN CHOOSE p \in new : number[p] = i
                                                ELSE inodeToPath[i]]
  BY Zenon DEF GetOrCreateAll
<1>2. Cardinality(new) \in Nat
  <2>1. IsFiniteSet(AllPaths)
    BY InodeAssumption, FS_AddElement DEF AllPaths
  <2>2. IsFiniteSet(new)
    BY <2>1, FS_Subset
  <2> QED
    BY <2>2, FS_CardinalityType
<1>3. /\ number \in [new -> nextInode..(next - 1)]
      /\ \A p, q \in new : number[p] = number[q] => p = q
      /\ \A i \in nextInode..(next - 1) : \E p \in new : number[p] = i
  BY DEF Bijection, Injection, Surjection, IsInjective
<1> HIDE DEF next, new
<1>4. /\ nextInode \in Nat /\ nextInode >= 2 /\ MaxInode \in Nat /\ next \in Nat
      /\ next >= nextInode /\ next <= MaxInode + 1
  BY <1>1, <1>2, InodeAssumption DEF TablesOK, InodeTypeOK, next
<1>5. nextInode..(next - 1) \subseteq Inodes
  BY <1>4 DEF Inodes
<1>6. \A i \in nextInode..(next - 1) : /\ (CHOOSE p \in new : number[p] = i) \in new
                                       /\ number[CHOOSE p \in new : number[p] = i] = i
  BY <1>3
<1>7. new \subseteq AllPaths
  BY DEF new
<1>8. InodeTypeOK'
  <2>1. pathToInode' \in [AllPaths -> Inodes \cup {NoInode}]
    BY <1>1, <1>3, <1>5 DEF TablesOK, InodeTypeOK
  <2>2. inodeToPath' \in [Inodes -> AllPaths \cup {NoPath}]
    BY <1>1, <1>6, <1>7 DEF TablesOK, InodeTypeOK
  <2> QED
    BY <1>1, <1>4, <2>1, <2>2 DEF InodeTypeOK
<1>9. ASSUME NEW p \in AllPaths, pathToInode'[p] # NoInode
      PROVE  inodeToPath'[pathToInode'[p]] = p
  <2>1. CASE p \in new
    <3>1. pathToInode'[p] = number[p] /\ number[p] \in nextInode..(next - 1)
      BY <1>1, <1>3, <2>1
    <3>2. inodeToPath'[number[p]] = CHOOSE q \in new : number[q] = number[p]
      BY <1>1, <1>5, <3>1
    <3> QED
      BY <1>3, <1>6, <2>1, <3>1, <3>2
  <2>2. CASE p \notin new
    <3>1. pathToInode'[p] = pathToInode[p] /\ pathToInode[p] \in Inodes
      BY <1>1, <1>9, <2>2 DEF TablesOK, InodeTypeOK
    <3>2. inodeToPath[pathToInode[p]] = p
      BY <1>9, <3>1 DEF TablesOK, InodesLeadBack
    <3>3. ~(pathToInode[p] >= nextInode)
      BY <3>1, <3>2, PathsHaveNames DEF TablesOK, InodesLeadBack
    <3>4. pathToInode[p] \notin nextInode..(next - 1)
      BY <1>4, <3>3
    <3> QED
      BY <1>1, <3>1, <3>2, <3>4
  <2> QED
    BY <2>1, <2>2
<1>10. ASSUME NEW i \in Inodes, i >= nextInode'
       PROVE  inodeToPath'[i] = NoPath
  <2>1. i \in Nat /\ i >= next
    BY <1>1, <1>4, <1>10 DEF Inodes
  <2>2. i \notin nextInode..(next - 1) /\ i >= nextInode
    BY <1>4, <2>1
  <2> QED
    BY <1>1, <2>2 DEF TablesOK, InodesLeadBack
<1> QED
  BY <1>8, <1>9, <1>10 DEF TablesOK, InodesLeadBack

LEMMA RemovePathOK ==
    ASSUME TablesOK, NEW p \in Paths, RemovePath(p)
    PROVE  TablesOK'
<1>1. /\ pathToInode' = [pathToInode EXCEPT ![p] = NoInode]
      /\ inodeToPath' = [i \in Inodes |-> IF i = pathToInode[p] THEN NoPath ELSE inodeToPath[i]]
      /\ nextInode' = nextInode
  BY DEF RemovePath
<1>2. InodeTypeOK'
  BY <1>1 DEF TablesOK, InodeTypeOK
<1>3. ASSUME NEW q \in AllPaths, pathToInode'[q] # NoInode
      PROVE  inodeToPath'[pathToInode'[q]] = q
  <2>1. q # p /\ pathToInode'[q] = pathToInode[q] /\ p \in AllPaths
    BY <1>1, <1>3 DEF TablesOK, InodeTypeOK, AllPaths
  <2>2. inodeToPath[pathToInode[q]] = q /\ pathToInode[q] \in Inodes
    BY <1>3, <2>1 DEF TablesOK, InodeTypeOK, InodesLeadBack
  <2>3. pathToInode[q] # pathToInode[p]
    BY <1>3, <2>1, <2>2 DEF TablesOK, InodesLeadBack
  <2> QED
    BY <1>1, <2>1, <2>2, <2>3
<1>4. \A i \in Inodes : i >= nextInode' => inodeToPath'[i] = NoPath
  BY <1>1 DEF TablesOK, InodesLeadBack
<1> QED
  BY <1>2, <1>3, <1>4 DEF TablesOK, InodesLeadBack

LEMMA RenamePathOK ==
    ASSUME TablesOK, NEW from \in Paths, NEW to \in Paths, from # to, RenamePath(from, to)
    PROVE  TablesOK'
<1>1. CASE pathToInode[from] = NoInode
  BY <1>1 DEF RenamePath, tables, TablesOK, InodeTypeOK, InodesLeadBack
<1>2. CASE pathToInode[from] # NoInode
  <2> DEFINE i == pathToInode[from]
  <2>1. /\ pathToInode' = [pathToInode EXCEPT ![from] = NoInode, ![to] = i]
        /\ inodeToPath' = [inodeToPath EXCEPT ![i] = to]
        /\ nextInode' = nextInode
    BY <1>2 DEF RenamePath
  <2>2. from \in AllPaths /\ to \in AllPaths /\ i \in Inodes /\ inodeToPath[i] = from
    BY <1>2 DEF TablesOK, InodeTypeOK, InodesLeadBack, AllPaths
  <2>3. ~(i >= nextInode)
    BY <2>2, PathsHaveNames DEF TablesOK, InodesLeadBack
  <2> HIDE DEF i
  <2>4. InodeTypeOK'
    BY <2>1, <2>2 DEF TablesOK, InodeTypeOK
  <2>5. ASSUME NEW q \in AllPaths, pathToInode'[q] # NoInode
        PROVE  inodeToPath'[pathToInode'[q]] = q
    <3>1. CASE q = to
      BY <2>1, <2>2, <3>1 DEF TablesOK, InodeTypeOK
    <3>2. CASE q # to
      <4>1. q # from /\ pathToInode'[q] = pathToInode[q]
        BY <2>1, <2>2, <2>5, <3>2 DEF TablesOK, InodeTypeOK
      <4>2. inodeToPath[pathToInode[q]] = q
        BY <2>5, <4>1 DEF TablesOK, InodesLeadBack
      <4>3. pathToInode[q] # i
        BY <2>2, <4>1, <4>2
      <4> QED
        BY <2>1, <4>1, <4>2, <4>3 DEF TablesOK, InodeTypeOK
    <3> QED
      BY <3>1, <3>2
  <2>6. \A j \in Inodes : j >= nextInode' => inodeToPath'[j] = NoPath
    BY <2>1, <2>2, <2>3 DEF TablesOK, InodesLeadBack, InodeTypeOK
  <2> QED
    BY <2>4, <2>5, <2>6 DEF TablesOK, InodesLeadBack
<1> QED
  BY <1>1, <1>2
-----------------------------------------------------------------------------
(* HEAD, the dirty set and the record of what was missed                     *)

\* HEAD stays, or each entry of the new one is of the old one or of a full build.
HeadFrom(hd, work, skipped) ==
    \/ hd = head
    \/ /\ hd \in Trees /\ hd # NoTree
       /\ \A p \in Paths : hd[p] \in {HeadTree[p], Full(work, skipped)[p]}

\* No commit holds an ignored file.
HeadSpares == \A p \in Ignored : HeadTree[p] \in {Absent, Dir}

CommitOK ==
    /\ head \in Trees \cup {NoTree}
    /\ HeadSpares
    /\ dirty \subseteq Paths \ Ignored
    /\ missed \subseteq Paths
    /\ CleanMeansCommitted
    /\ AutoCommit => Cardinality(dirty) < BatchSize \/ dirty = {}

\* What a step may make of HEAD.
NewHead(hd) == HeadFrom(hd, Work', Unwritable')
HeadStep == NewHead(head') \/ head' = NoTree

SameFile(p) == FileAt(Full(Work', {}), p) = FileAt(Full(Work, {}), p)

\* The step does not change the file at p, nor takes it from those that no commit
\* holds.
Untouched(p) == SameFile(p) /\ (p \in Unwritable => p \in Unwritable' \cup Ignored)

LEMMA OnlySkippedDiffer ==
    ASSUME NEW work, NEW skipped, NEW p \in Paths, p \notin skipped
    PROVE  Full(work, skipped)[p] = Full(work, {})[p]
BY DEF Full

LEMMA FullIsHead ==
    ASSUME NEW work \in Trees, NEW skipped
    PROVE  HeadFrom(Full(work, skipped), work, skipped)
BY FullIsTree, BackendAssumption DEF HeadFrom

LEMMA IncrementalHead ==
    ASSUME head \in Trees \cup {NoTree}, NEW work \in Trees, NEW marked, NEW skipped
    PROVE  HeadFrom(IncrementalCommit(marked, work, skipped), work, skipped)
<1>1. CASE IncrementalCommit(marked, work, skipped) = Full(work, skipped)
  BY <1>1, FullIsHead
<1>2. CASE IncrementalCommit(marked, work, skipped) # Full(work, skipped)
  <2>1. /\ IncrementalCommit(marked, work, skipped) = Incremental(head, work, marked, skipped)
        /\ head \in Trees /\ HeadTree = head
    BY <1>2 DEF IncrementalCommit, HeadTree
  <2>2. \A p \in Paths : Incremental(head, work, marked, skipped)[p]
                             \in {HeadTree[p], Full(work, skipped)[p]}
    BY <2>1, IncrementalPicks
  <2> QED
    BY <2>1, <2>2, IncrementalIsTree, BackendAssumption DEF HeadFrom
<1> QED
  BY <1>1, <1>2

LEMMA EmptyTreeIsTree == EmptyTree \in Trees
BY DEF EmptyTree, Trees, Nodes

\* What is out of date after a step was so before, was touched by the step, or is
\* left out of commits.
LEMMA StaleFrom ==
    ASSUME head \in Trees \cup {NoTree}, HeadSpares, Work' \in Trees, NewHead(head')
    PROVE  /\ head' \in Trees \cup {NoTree} /\ HeadSpares'
           /\ \A p \in Stale' : p \in Paths /\ (p \in Stale \/ ~SameFile(p) \/ p \in Unwritable')
           /\ head' = Full(Work', Unwritable') => Stale' \subseteq Unwritable'
<1>1. head' \in Trees \cup {NoTree}
  BY DEF NewHead, HeadFrom
<1>2. /\ head' = head => HeadTree' = HeadTree
      /\ head' # NoTree => HeadTree' = head'
  BY DEF HeadTree
<1>3. Stale' = {p \in Paths : FileAt(HeadTree', p) # FileAt(Full(Work', {}), p)}
  BY DEF Stale, FileAt, Full
<1>4. \A p \in Paths : HeadTree'[p] \in {HeadTree[p], Full(Work', Unwritable')[p]}
  BY <1>2 DEF NewHead, HeadFrom
<1>5. ASSUME NEW p \in Paths, p \notin Stale, SameFile(p), p \notin Unwritable'
      PROVE  FileAt(HeadTree', p) = FileAt(Full(Work', {}), p)
  <2>1. FileAt(HeadTree, p) = FileAt(Full(Work', {}), p)
    BY <1>5 DEF Stale, SameFile
  <2>2. HeadTree'[p] \in {HeadTree[p], Full(Work', {})[p]}
    BY <1>4, <1>5, OnlySkippedDiffer
  <2> QED
    BY <2>1, <2>2 DEF FileAt
<1>6. head' = Full(Work', Unwritable') => Stale' \subseteq Unwritable'
  <2> SUFFICES ASSUME head' = Full(Work', Unwritable'), NEW p \in Paths, p \notin Unwritable'
               PROVE  FileAt(HeadTree', p) = FileAt(Full(Work', {}), p)
    BY <1>3
  <2>1. HeadTree' = head'
    BY <1>2, FullIsTree, BackendAssumption
  <2> QED
    BY <2>1, OnlySkippedDiffer DEF FileAt
<1>7. HeadSpares'
  <2>1. ASSUME NEW p \in Ignored
        PROVE  HeadTree'[p] \in {Absent, Dir}
    <3>1. p \in Paths
      BY TreeAssumption
    <3>2. Full(Work', Unwritable')[p] \in {Absent, Dir}
      BY <3>1 DEF Full
    <3> QED
      BY <1>4, <3>1, <3>2 DEF HeadSpares
  <2> QED
    BY <2>1 DEF HeadSpares
<1> QED
  BY <1>1, <1>3, <1>5, <1>6, <1>7

\* A commit that fails at the wrong moment leaves nothing, and all of it on record.
LEMMA EmptiedOK ==
    ASSUME head' = NoTree, missed' = Paths, dirty' \subseteq Paths \ Ignored,
           AutoCommit => Cardinality(dirty') < BatchSize \/ dirty' = {}
    PROVE  CommitOK' /\ HeadStep
<1>1. HeadTree' = EmptyTree
  BY DEF HeadTree
<1>2. HeadSpares'
  BY <1>1, TreeAssumption DEF HeadSpares, EmptyTree
<1>3. CleanMeansCommitted'
  BY DEF CleanMeansCommitted, Stale
<1> QED
  BY <1>2, <1>3 DEF CommitOK, HeadStep

\* Ignored files are not out of date: no commit holds them.
LEMMA StaleIsNotIgnored ==
    ASSUME HeadSpares, NEW p \in Stale
    PROVE  p \in Paths \ Ignored
<1>1. p \in Ignored => FileAt(HeadTree, p) = Absent /\ FileAt(Full(Work, {}), p) = Absent
  BY TreeAssumption DEF HeadSpares, FileAt, Full, Stale
<1> QED
  BY <1>1 DEF Stale

\* A step that marks nothing: it accounts for all it touches.
LEMMA KeepOK ==
    ASSUME CommitOK, Work' \in Trees, NEW hd, NewHead(hd),
           NEW ds \in SUBSET (Paths \ Ignored), NEW lost \in SUBSET Paths,
           Keep(ds, hd, lost),
           AutoCommit => Cardinality(ds) < BatchSize \/ ds = {},
           ds = {} => /\ dirty = {}
                      /\ \A p \in Paths \ lost : Untouched(p)
    PROVE  CommitOK' /\ HeadStep
<1>1. head' = hd /\ dirty' = ds /\ missed' = missed \cup lost
  BY DEF Keep
<1>2. NewHead(head')
  BY <1>1
<1>3. /\ head' \in Trees \cup {NoTree} /\ HeadSpares'
      /\ \A p \in Stale' : p \in Paths /\ (p \in Stale \/ ~SameFile(p) \/ p \in Unwritable')
  BY <1>2, StaleFrom DEF CommitOK
<1>4. CleanMeansCommitted'
  <2> SUFFICES ASSUME ds = {}, NEW p \in Stale'
               PROVE  p \in missed' \cup Unwritable'
    BY <1>1 DEF CleanMeansCommitted
  <2>1. p \in Paths /\ (p \in lost \/ Untouched(p))
    BY <1>3
  <2>2. p \in Stale => p \in (missed \cup Unwritable) \ Ignored
    BY StaleIsNotIgnored DEF CommitOK, CleanMeansCommitted
  <2> QED
    BY <1>1, <1>3, <2>1, <2>2 DEF Untouched
<1> QED
  BY <1>1, <1>2, <1>3, <1>4 DEF CommitOK, HeadStep

LEMMA MaybeCommitOK ==
    ASSUME CommitOK, Work' \in Trees, NEW hd, NewHead(hd),
           NEW ds \in SUBSET (Paths \ Ignored), MaybeCommit(ds, hd),
           ds = {} => dirty = {} /\ \A p \in Paths : Untouched(p)
    PROVE  CommitOK' /\ HeadStep
<1>1. CASE ds = {} \/ ~AutoCommit
  <2>1. Keep(ds, hd, {})
    BY <1>1 DEF MaybeCommit
  <2> QED
    BY <1>1, <2>1, KeepOK
<1>2. CASE ~(ds = {} \/ ~AutoCommit)
  <2>1. /\ dirty' = {}
        /\ \/ head' = Full(Work', Unwritable') /\ missed' = {}
           \/ head' \in {hd, NoTree} /\ missed' = Paths
    BY <1>2 DEF MaybeCommit, CommitResults
  <2>2. CASE head' = NoTree /\ missed' = Paths
    BY <2>1, <2>2, EmptiedOK
  <2>3. CASE ~(head' = NoTree /\ missed' = Paths)
    <3>1. NewHead(head')
      BY <2>1, <2>3, FullIsHead DEF NewHead
    <3>2. /\ head' \in Trees \cup {NoTree} /\ HeadSpares'
          /\ \A p \in Stale' : p \in Paths
          /\ head' = Full(Work', Unwritable') => Stale' \subseteq Unwritable'
      BY <3>1, StaleFrom DEF CommitOK
    <3>3. CleanMeansCommitted'
      BY <2>1, <3>2 DEF CleanMeansCommitted
    <3> QED
      BY <2>1, <3>1, <3>2, <3>3 DEF CommitOK, HeadStep
  <2> QED
    BY <2>2, <2>3
<1> QED
  BY <1>1, <1>2

\* lost accounts for what a request touches on an ignored path.
LEMMA MarkDirtyOK ==
    ASSUME CommitOK, Work' \in Trees, NEW hd, NewHead(hd),
           NEW p \in Paths, NEW lost \in SUBSET Paths, MarkDirty(p, hd, lost),
           p \in Ignored => \A q \in Paths \ lost : Untouched(q)
    PROVE  CommitOK' /\ HeadStep
<1>1. CASE p \in Ignored
  <2>1. Keep(dirty, hd, lost) /\ dirty \in SUBSET (Paths \ Ignored)
    BY <1>1 DEF MarkDirty, CommitOK
  <2> QED
    BY <1>1, <2>1, KeepOK DEF CommitOK
<1>2. CASE p \notin Ignored
  <2> DEFINE ds == dirty \cup {p}
  <2>1. ds \in SUBSET (Paths \ Ignored) /\ ds # {}
    BY <1>2 DEF CommitOK
  <2>2. Cardinality(ds) \in Nat /\ BatchSize \in Nat
    BY <2>1, InodeAssumption, BackendAssumption, FS_Subset, FS_CardinalityType
  <2> HIDE DEF ds
  <2>3. CASE Cardinality(ds) >= BatchSize
    <3>1. MaybeCommit(ds, hd)
      BY <1>2, <2>3 DEF MarkDirty, ds
    <3> QED
      BY <2>1, <3>1, MaybeCommitOK
  <2>4. CASE ~(Cardinality(ds) >= BatchSize)
    <3>1. Keep(ds, hd, {}) /\ Cardinality(ds) < BatchSize
      BY <1>2, <2>2, <2>4 DEF MarkDirty, ds
    <3> QED
      BY <2>1, <3>1, KeepOK
  <2> QED
    BY <2>3, <2>4
<1> QED
  BY <1>1, <1>2
-----------------------------------------------------------------------------
(* What a change of the disk touches                                         *)

LEMMA UntouchedIf ==
    ASSUME NEW p \in Paths,
           \/ p \in Ignored
           \/ Work'[p] = Work[p]
           \/ Work'[p] \in {Absent, Dir} /\ Work[p] \in {Absent, Dir},
           p \in Unwritable => p \in Unwritable' \cup Ignored
    PROVE  Untouched(p)
<1>1. /\ FileAt(Full(Work', {}), p)
             = IF p \in Ignored \/ Work'[p] = Dir THEN Absent ELSE Work'[p]
      /\ FileAt(Full(Work, {}), p)
             = IF p \in Ignored \/ Work[p] = Dir THEN Absent ELSE Work[p]
  BY TreeAssumption DEF FileAt, Full
<1> QED
  BY <1>1 DEF Untouched, SameFile

\* A path whose file and whose modes stay.
LEMMA SameNode ==
    ASSUME NEW p \in Paths, node'[p] = node[p],
           node[p] \in Files => data'[node[p]] = data[node[p]],
           node[p] \in readonly => node[p] \in readonly'
    PROVE  Untouched(p)
<1>1. Work'[p] = Work[p]
  BY DEF Work
<1>2. p \in Unwritable => p \in Unwritable'
  BY DEF Unwritable
<1> QED
  BY <1>1, <1>2, UntouchedIf

\* A path without a file, before and after.
LEMMA NoFile ==
    ASSUME DiskOK, NEW p \in Paths, node[p] \in {Absent, Dir}, node'[p] \in {Absent, Dir}
    PROVE  Untouched(p)
<1>1. Work[p] \in {Absent, Dir} /\ Work'[p] \in {Absent, Dir}
  BY BackendAssumption DEF Work
<1>2. p \notin Unwritable
  BY BackendAssumption DEF Unwritable, DiskOK
<1> QED
  BY <1>1, <1>2, UntouchedIf

LEMMA WorkPrimeIsTree ==
    ASSUME DiskOK'
    PROVE  Work' \in Trees
<1>1. /\ node' \in [Paths -> Files \cup {Absent, Dir}]
      /\ data' \in [Files -> Contents] /\ WellFormed(node')
  BY DEF DiskOK, WellFormed
<1> QED
  BY <1>1, WorkIsTree DEF Work

LEMMA SameDisk ==
    ASSUME DiskOK, UNCHANGED disk
    PROVE  /\ DiskOK' /\ Work' \in Trees
           /\ Work' = Work /\ Unwritable' = Unwritable
           /\ \A p \in Paths : Untouched(p)
<1>1. DiskOK' /\ Work' = Work /\ Unwritable' = Unwritable
  BY DEF disk, DiskOK, HasName, Work, WellFormed, Unwritable
<1>2. \A p \in Paths : Untouched(p)
  BY SameNode DEF disk
<1> QED
  BY <1>1, <1>2, WorkPrimeIsTree

LEMMA WriteTouches ==
    ASSUME DiskOK, NEW p \in Paths, NEW v \in Contents, CanWrite(p), WriteDisk(p, v),
           NEW q \in Paths, q # p, q \notin Links(p)
    PROVE  Untouched(q)
<1>1. PICK f \in Files : /\ IF IsFile(p) THEN f = node[p] ELSE Unused(f)
                         /\ node' = [node EXCEPT ![p] = f]
                         /\ data' = [data EXCEPT ![f] = v]
                         /\ readonly' = readonly \ {f}
  BY DEF WriteDisk
<1>2. node'[q] = node[q] /\ node[q] # f
  BY <1>1 DEF Links, Unused, DiskOK, IsFile
<1>3. /\ node[q] \in Files => data'[node[q]] = data[node[q]]
      /\ node[q] \in readonly => node[q] \in readonly'
  BY <1>1, <1>2 DEF DiskOK
<1> QED
  BY <1>2, <1>3, SameNode

LEMMA SetPermissionsTouches ==
    ASSUME NEW p \in Paths, NEW writable, SetPermissionsDisk(p, writable), IsFile(p),
           NEW q \in Paths, q \notin Links(p)
    PROVE  Untouched(q)
<1>1. node' = node /\ data' = data /\ \A f \in readonly : f # node[p] => f \in readonly'
  BY DEF SetPermissionsDisk
<1>2. node[q] # node[p]
  BY DEF Links
<1> QED
  BY <1>1, <1>2, SameNode

LEMMA DeleteTouches ==
    ASSUME DiskOK, NEW p \in Paths, DeleteDisk(p), NEW q \in Paths, q # p
    PROVE  Untouched(q)
<1>1. node'[q] = node[q]
  BY DEF DeleteDisk, DiskOK
<1>2. HasName(node', node[q])
  BY <1>1 DEF HasName
<1>3. /\ node[q] \in Files => data'[node[q]] = data[node[q]]
      /\ node[q] \in readonly => node[q] \in readonly'
  BY <1>2 DEF DeleteDisk, Reclaim, ReclaimModes
<1> QED
  BY <1>1, <1>3, SameNode

LEMMA CreateDirTouches ==
    ASSUME DiskOK, NEW p \in Paths, CanCreateDir(p), CreateDirDisk(p), NEW q \in Paths
    PROVE  Untouched(q)
<1>1. CASE Below(p, q)
  <2>1. node[q] \in {Absent, Dir} /\ node'[q] = Dir
    BY <1>1 DEF CanCreateDir, CreateDirDisk
  <2> QED
    BY <2>1, NoFile
<1>2. CASE ~Below(p, q)
  BY <1>2, SameNode DEF CreateDirDisk
<1> QED
  BY <1>1, <1>2

LEMMA RemoveDirTouches ==
    ASSUME DiskOK, NEW p \in Paths, RemoveDirDisk(p), NEW q \in Paths, q # p
    PROVE  Untouched(q)
BY SameNode DEF RemoveDirDisk, DiskOK

LEMMA LinkTouches ==
    ASSUME DiskOK, NEW p \in Paths, NEW target \in Paths, LinkDisk(p, target),
           NEW q \in Paths, q # p
    PROVE  Untouched(q)
BY SameNode DEF LinkDisk, DiskOK

LEMMA RenameTouches ==
    ASSUME DiskOK, NEW from \in Paths, NEW to \in Paths,
           CanRename(from, to), RenameDisk(from, to),
           NEW q \in Paths, ~Below(q, from), ~Below(q, to)
    PROVE  Untouched(q)
<1>1. CASE IsFile(q)
  <2>1. node'[q] = node[q] /\ Work'[q] = Work[q]
    BY <1>1, RenameSpares
  <2>2. HasName(node', node[q])
    BY <2>1 DEF HasName
  <2>3. node[q] \in readonly => node[q] \in readonly'
    BY <2>2 DEF RenameDisk, ReclaimModes, disk
  <2> QED
    BY <2>1, <2>3, UntouchedIf DEF Unwritable
<1>2. CASE ~IsFile(q)
  <2>1. node[q] \in {Absent, Dir}
    BY <1>2 DEF IsFile, DiskOK
  <2>2. node'[q] \in {Absent, Dir}
    BY <2>1 DEF RenameDisk, disk
  <2> QED
    BY <2>1, <2>2, NoFile
<1> QED
  BY <1>1, <1>2
-----------------------------------------------------------------------------
(* The inductive step: requests                                              *)

PendingOK ==
    /\ pending \in Seq(Paths)
    /\ AutoCommit => Len(pending) < BatchSize \/ BatchSize = 0

FuseInv ==
    /\ DiskOK
    /\ CommitOK
    /\ PendingOK
    /\ TablesOK
    /\ handles \in [Handles -> HandleType]
    /\ mounted \in BOOLEAN

LEMMA PendingAfterWriteOK ==
    ASSUME PendingOK, NEW p \in Paths, pending' = PendingAfterWrite(p)
    PROVE  PendingOK'
<1>1. BatchSize \in Nat
  BY BackendAssumption
<1>2. /\ Append(pending, p) \in Seq(Paths) /\ Len(Append(pending, p)) \in Nat
      /\ <<>> \in Seq(Paths) /\ Len(<<>>) = 0
  BY ElementsOfAppend, EmptySeq DEF PendingOK
<1>3. CASE pending' = pending
  BY <1>3 DEF PendingOK
<1>4. CASE pending' = <<>>
  BY <1>1, <1>2, <1>4 DEF PendingOK
<1>5. CASE pending' = Append(pending, p) /\ ~CommitNow(Append(pending, p))
  BY <1>1, <1>2, <1>5 DEF PendingOK, CommitNow
<1> QED
  BY <1>3, <1>4, <1>5 DEF PendingAfterWrite

LEMMA WriteFileOK ==
    ASSUME FuseInv, NEW p \in Paths, NEW v \in Contents, WriteFile(p, v)
    PROVE  DiskOK' /\ CommitOK' /\ PendingOK' /\ HeadStep
<1>1. DiskOK' /\ Work' \in Trees
  BY WriteKeepsDisk, WorkPrimeIsTree DEF FuseInv, WriteFile
<1>2. PendingOK'
  BY PendingAfterWriteOK DEF FuseInv, WriteFile
<1>3. NewHead(HeadAfterWrite(p, Work', Unwritable'))
  <2>1. \A marked : NewHead(IncrementalCommit(marked, Work', Unwritable'))
    BY <1>1, IncrementalHead DEF FuseInv, CommitOK, NewHead
  <2> QED
    BY <2>1 DEF HeadAfterWrite, NewHead, HeadFrom
<1>4. ASSUME p \in Ignored, NEW q \in Paths \ Links(p)
      PROVE  Untouched(q)
  <2>1. CASE q = p
    BY <1>4, <2>1, UntouchedIf
  <2>2. CASE q # p
    BY <1>4, <2>2, WriteTouches DEF FuseInv, WriteFile
  <2> QED
    BY <2>1, <2>2
<1>5. CommitOK' /\ HeadStep
  <2>1. Links(p) \in SUBSET Paths /\ MarkDirty(p, HeadAfterWrite(p, Work', Unwritable'), Links(p))
    BY DEF Links, WriteFile
  <2> QED
    BY <1>1, <1>3, <1>4, <2>1, MarkDirtyOK DEF FuseInv
<1> QED
  BY <1>1, <1>2, <1>5

LEMMA WriteFileFailsOK ==
    ASSUME FuseInv, NEW p \in Paths, NEW v \in Contents, WriteFileFails(p, v)
    PROVE  DiskOK' /\ CommitOK' /\ PendingOK' /\ HeadStep
<1>1. DiskOK' /\ Work' \in Trees
  BY WriteKeepsDisk, WorkPrimeIsTree DEF FuseInv, WriteFileFails
<1>2. PendingOK'
  <2>1. <<>> \in Seq(Paths) /\ Len(<<>>) = 0 /\ BatchSize \in Nat
    BY EmptySeq, BackendAssumption
  <2> QED
    BY <2>1 DEF PendingOK, WriteFileFails
<1>3. \A q \in Paths \ (Links(p) \cup {p}) : Untouched(q)
  BY WriteTouches DEF FuseInv, WriteFileFails
<1>4. NewHead(head) /\ dirty \in SUBSET (Paths \ Ignored)
  BY DEF NewHead, HeadFrom, FuseInv, CommitOK
<1>5. CASE head' = head
  <2>1. Keep(dirty, head, Links(p) \cup {p}) /\ Links(p) \cup {p} \in SUBSET Paths
    BY <1>5 DEF WriteFileFails, Keep, Links
  <2> QED
    BY <1>1, <1>2, <1>3, <1>4, <2>1, KeepOK DEF FuseInv, CommitOK
<1>6. CASE head' # head
  BY <1>1, <1>2, <1>4, <1>6, EmptiedOK DEF WriteFileFails, FuseInv, CommitOK
<1> QED
  BY <1>5, <1>6

\* The requests that change the disk and then mark one path.
LEMMA MarkedChangeOK ==
    ASSUME FuseInv, DiskOK', pending' = pending, NEW p \in Paths, NEW lost \in SUBSET Paths,
           MarkDirty(p, head, lost),
           p \in Ignored => \A q \in Paths \ lost : Untouched(q)
    PROVE  CommitOK' /\ PendingOK' /\ HeadStep
<1>1. Work' \in Trees /\ NewHead(head)
  BY WorkPrimeIsTree DEF NewHead, HeadFrom
<1>2. PendingOK'
  BY DEF FuseInv, PendingOK
<1> QED
  BY <1>1, <1>2, MarkDirtyOK DEF FuseInv

LEMMA FuseInitOK == Init => FuseInv
<1> SUFFICES ASSUME Init PROVE FuseInv
  OBVIOUS
<1>1. DiskOK
  BY BackendAssumption DEF Init, BackendInit, DiskOK, WellFormed
<1>2. TablesOK
  BY InodeInitOK DEF Init
<1>3. PendingOK
  <2>1. <<>> \in Seq(Paths) /\ Len(<<>>) = 0 /\ BatchSize \in Nat
    BY EmptySeq, BackendAssumption
  <2> QED
    BY <2>1 DEF Init, BackendInit, PendingOK
<1>4. CommitOK
  <2>1. HeadTree = EmptyTree /\ Work = EmptyTree
    BY BackendAssumption DEF Init, BackendInit, HeadTree, EmptyTree, Work
  <2>2. Stale = {}
    BY <2>1 DEF Stale, FileAt, Full, EmptyTree
  <2>3. HeadSpares
    BY <2>1, TreeAssumption DEF HeadSpares, EmptyTree
  <2> QED
    BY <2>2, <2>3 DEF Init, BackendInit, CommitOK, CleanMeansCommitted
<1> QED
  BY <1>1, <1>2, <1>3, <1>4 DEF Init, FuseInv, HandleType

LEMMA OpenHandleOK ==
    ASSUME FuseInv, NEW p \in Paths, NEW w \in BOOLEAN, OpenHandle(p, w)
    PROVE  handles' \in [Handles -> HandleType]
BY DEF FuseInv, OpenHandle, HandleType

LEMMA CloseHandleOK ==
    ASSUME FuseInv, NEW h \in Handles, handles' = [handles EXCEPT ![h] = Closed]
    PROVE  handles' \in [Handles -> HandleType]
BY DEF FuseInv, HandleType

LEMMA OpenHandlePath ==
    ASSUME FuseInv, NEW h \in Handles, IsOpen(h)
    PROVE  handles[h].path \in Paths
BY DEF FuseInv, IsOpen, HandleType

LEMMA SameTables ==
    ASSUME FuseInv, UNCHANGED tables
    PROVE  TablesOK'
BY DEF FuseInv, tables, TablesOK, InodeTypeOK, InodesLeadBack

LEMMA GetOrCreateOK ==
    ASSUME FuseInv, NEW p \in Paths, GetOrCreate(p)
    PROVE  TablesOK'
BY GetOrCreateAllOK DEF FuseInv, GetOrCreate, AllPaths

\* A request that leaves the disk and all that is pending alone.
LEMMA QuietRequestOK ==
    ASSUME FuseInv, UNCHANGED <<disk, head, pending, dirty, missed>>
    PROVE  DiskOK' /\ CommitOK' /\ PendingOK' /\ HeadStep
<1>1. DiskOK' /\ Work' \in Trees /\ \A p \in Paths : Untouched(p)
  BY SameDisk DEF FuseInv
<1>2. Keep(dirty, head, {}) /\ NewHead(head) /\ dirty \in SUBSET (Paths \ Ignored)
  BY DEF Keep, NewHead, HeadFrom, FuseInv, CommitOK
<1>3. CommitOK' /\ HeadStep
  BY <1>1, <1>2, KeepOK DEF FuseInv, CommitOK
<1> QED
  BY <1>1, <1>3 DEF FuseInv, PendingOK

\* flush, and the release of a handle that was open for writing
LEMMA CommitRequestOK ==
    ASSUME FuseInv, UNCHANGED <<disk, pending>>, MaybeCommit(dirty, head)
    PROVE  DiskOK' /\ CommitOK' /\ PendingOK' /\ HeadStep
<1>1. DiskOK' /\ Work' \in Trees /\ \A p \in Paths : Untouched(p)
  BY SameDisk DEF FuseInv
<1>2. NewHead(head) /\ dirty \in SUBSET (Paths \ Ignored)
  BY DEF NewHead, HeadFrom, FuseInv, CommitOK
<1>3. CommitOK' /\ HeadStep
  BY <1>1, <1>2, MaybeCommitOK DEF FuseInv
<1> QED
  BY <1>1, <1>3 DEF FuseInv, PendingOK

LEMMA DropHandlerOK ==
    ASSUME FuseInv, DropHandler
    PROVE  /\ DiskOK' /\ PendingOK' /\ TablesOK'
           /\ handles' \in [Handles -> HandleType] /\ mounted' \in BOOLEAN
           /\ dirty' = {} /\ Work' = Work /\ Work' \in Trees /\ Unwritable' = Unwritable
           /\ \A p \in Paths : Untouched(p)
<1>1. /\ DiskOK' /\ Work' = Work /\ Work' \in Trees /\ Unwritable' = Unwritable
      /\ \A p \in Paths : Untouched(p)
  BY SameDisk DEF FuseInv, DropHandler
<1>2. PendingOK'
  <2>1. <<>> \in Seq(Paths) /\ Len(<<>>) = 0 /\ BatchSize \in Nat
    BY EmptySeq, BackendAssumption
  <2> QED
    BY <2>1 DEF DropHandler, PendingOK
<1>3. TablesOK'
  <2>1. MaxInode \in Nat \ {0} /\ Root \notin Paths
    BY InodeAssumption, TreeAssumption DEF Root
  <2>2. /\ pathToInode' = NewPathToInode /\ inodeToPath' = NewInodeToPath /\ nextInode' = 2
    BY DEF DropHandler
  <2>3. InodeTypeOK'
    BY <2>1, <2>2 DEF InodeTypeOK, NewPathToInode, NewInodeToPath, AllPaths, Inodes,
                      NoInode, RootInode
  <2>4. InodesLeadBack'
    BY <2>1, <2>2 DEF InodesLeadBack, NewPathToInode, NewInodeToPath, AllPaths, Inodes,
                      NoInode, RootInode
  <2> QED
    BY <2>3, <2>4 DEF TablesOK
<1> QED
  BY <1>1, <1>2, <1>3 DEF DropHandler, HandleType

\* The end of a mount: HEAD is what the two commits leave, and missed is everything
\* unless the first one is made or there is nothing to commit.
LEMMA EndOK ==
    ASSUME FuseInv, DropHandler,
           \/ missed' = Paths /\ (NewHead(head') \/ head' = NoTree)
           \/ missed' = missed /\ dirty = {} /\ NewHead(head')
           \/ missed' \subseteq Paths /\ head' = Full(Work', Unwritable')
    PROVE  CommitOK' /\ HeadStep
<1>1. dirty' = {} /\ Work' \in Trees /\ \A p \in Paths : Untouched(p)
  BY DropHandlerOK
<1>2. CASE head' = NoTree /\ missed' = Paths
  BY <1>1, <1>2, EmptiedOK
<1>3. CASE ~(head' = NoTree /\ missed' = Paths)
  <2>1. NewHead(head')
    BY <1>1, <1>3, FullIsHead DEF NewHead
  <2>2. /\ head' \in Trees \cup {NoTree} /\ HeadSpares'
        /\ \A p \in Stale' : p \in Paths /\ (p \in Stale \/ ~SameFile(p) \/ p \in Unwritable')
        /\ head' = Full(Work', Unwritable') => Stale' \subseteq Unwritable'
    BY <1>1, <2>1, StaleFrom DEF FuseInv, CommitOK
  <2>3. missed' \subseteq Paths
    BY DEF FuseInv, CommitOK
  <2>4. Stale' \subseteq missed' \cup Unwritable'
    <3> SUFFICES ASSUME missed' = missed, dirty = {}, NEW p \in Stale', p \notin Unwritable'
                 PROVE  p \in missed
      BY <2>2
    <3>1. p \in Stale /\ Untouched(p)
      BY <1>1, <2>2 DEF Untouched
    <3>2. p \in (missed \cup Unwritable) \ Ignored
      BY <3>1, StaleIsNotIgnored DEF FuseInv, CommitOK, CleanMeansCommitted
    <3> QED
      BY <3>1, <3>2 DEF Untouched
  <2> QED
    BY <1>1, <2>1, <2>2, <2>3, <2>4 DEF CommitOK, CleanMeansCommitted, HeadStep
<1> QED
  BY <1>2, <1>3

\* What flush_pending_auto_commit makes of HEAD, whatever it finds there.
LEMMA FlushedHead ==
    ASSUME FuseInv, NEW work \in Trees, NEW skipped
    PROVE  /\ HeadFrom(HeadAfterFlush(head, work, skipped), work, skipped)
           /\ HeadAfterFlush(NoTree, work, skipped) \in {NoTree, Full(work, skipped)}
           /\ HeadAfterFlush(Full(work, skipped), work, skipped) = Full(work, skipped)
<1>1. HeadFrom(HeadAfterFlush(head, work, skipped), work, skipped)
  <2>1. CASE pending = <<>> \/ head = NoTree
    BY <2>1, FullIsHead DEF HeadAfterFlush, HeadFrom
  <2>2. CASE ~(pending = <<>> \/ head = NoTree)
    <3>1. /\ head \in Trees /\ HeadTree = head
          /\ HeadAfterFlush(head, work, skipped)
                 = Incremental(head, work, Elements(pending), skipped)
      BY <2>2 DEF HeadAfterFlush, FuseInv, CommitOK, HeadTree
    <3>2. \A p \in Paths : Incremental(head, work, Elements(pending), skipped)[p]
                               \in {HeadTree[p], Full(work, skipped)[p]}
      BY <3>1, IncrementalPicks
    <3> QED
      BY <3>1, <3>2, IncrementalIsTree, BackendAssumption DEF HeadFrom
  <2> QED
    BY <2>1, <2>2
<1> DEFINE full == Full(work, skipped)
<1>2. Incremental(full, work, Elements(pending), skipped) = full
  <2>1. \A p \in Paths : Incremental(full, work, Elements(pending), skipped)[p] = full[p]
    BY IncrementalPicks
  <2>2. /\ Incremental(full, work, Elements(pending), skipped)
               = [p \in Paths |-> Incremental(full, work, Elements(pending), skipped)[p]]
        /\ full = [p \in Paths |-> full[p]]
    BY Zenon DEF Incremental, Full
  <2> HIDE DEF full
  <2> QED
    BY <2>1, <2>2
<1> QED
  BY <1>1, <1>2 DEF HeadAfterFlush

LEMMA DestroyOK ==
    ASSUME FuseInv, Destroy
    PROVE  CommitOK' /\ HeadStep
<1>1. DropHandler /\ Work' = Work /\ Work' \in Trees /\ Unwritable' = Unwritable
  BY DropHandlerOK DEF Destroy
<1> DEFINE full == Full(Work, Unwritable)
<1>2. /\ NewHead(HeadAfterFlush(head, Work, Unwritable))
      /\ HeadAfterFlush(NoTree, Work, Unwritable) \in {NoTree, full}
      /\ HeadAfterFlush(full, Work, Unwritable) = full
      /\ NewHead(full) /\ NewHead(head)
  BY <1>1, FlushedHead, FullIsHead DEF NewHead, HeadFrom
<1>3. \E result \in {[head |-> head, missed |-> Unmarked], [head |-> full, missed |-> {}],
                     [head |-> head, missed |-> Paths], [head |-> NoTree, missed |-> Paths]} :
          \/ head' = HeadAfterFlush(result.head, Work, Unwritable) /\ missed' = result.missed
          \/ /\ head' \in {result.head, NoTree}
             /\ missed' = IF head' = result.head THEN result.missed ELSE Paths
  BY DEF Destroy, CommitResults
<1> HIDE DEF full
<1>4. CASE \/ head' = HeadAfterFlush(head, Work, Unwritable) /\ missed' = Unmarked
           \/ head' \in {head, NoTree} /\ missed' = IF head' = head THEN Unmarked ELSE Paths
  BY <1>1, <1>2, <1>4, EndOK DEF Unmarked
<1>5. CASE \/ head' = HeadAfterFlush(full, Work, Unwritable) /\ missed' = {}
           \/ head' \in {full, NoTree} /\ missed' = IF head' = full THEN {} ELSE Paths
  <2>1. (head' = full /\ missed' = {}) \/ (head' = NoTree /\ missed' = Paths)
    BY <1>2, <1>5
  <2>2. missed' \subseteq Paths
    BY <2>1
  <2> QED
    BY <1>1, <2>1, <2>2, EndOK DEF full
<1>6. CASE /\ missed' = Paths
           /\ \/ head' = HeadAfterFlush(head, Work, Unwritable)
              \/ head' = HeadAfterFlush(NoTree, Work, Unwritable)
              \/ head' \in {head, NoTree}
  <2>1. NewHead(head') \/ head' = NoTree
    BY <1>2, <1>6
  <2> QED
    BY <1>1, <1>6, <2>1, EndOK
<1> QED
  BY <1>3, <1>4, <1>5, <1>6

LEMMA CrashOK ==
    ASSUME FuseInv, Crash
    PROVE  CommitOK' /\ HeadStep
<1>1. DropHandler /\ NewHead(head)
  BY DEF Crash, NewHead, HeadFrom
<1>2. /\ head' \in {head, NoTree}
      /\ missed' = IF head' = head THEN Unmarked ELSE Paths
  BY DEF Crash
<1> QED
  BY <1>1, <1>2, EndOK DEF Unmarked

\* Every step keeps the invariant and moves HEAD only to one of the trees that
\* HeadFrom allows.
StepOK == FuseInv' /\ HeadStep

LEMMA FuseNextOK == FuseInv /\ Next => StepOK
<1> SUFFICES ASSUME FuseInv, Next PROVE StepOK
  OBVIOUS
<1> DEFINE Requested == /\ mounted' = mounted
                        /\ DiskOK' /\ CommitOK' /\ PendingOK' /\ HeadStep
                        /\ TablesOK'
                        /\ handles' \in [Handles -> HandleType]
<1>0. ASSUME Requested PROVE StepOK
  BY <1>0 DEF StepOK, FuseInv
<1>1. ASSUME NEW p \in Paths, Lookup(p) PROVE StepOK
  <2>1. TablesOK'
    BY <1>1, GetOrCreateOK DEF Lookup
  <2>2. DiskOK' /\ CommitOK' /\ PendingOK' /\ HeadStep
    BY <1>1, QuietRequestOK DEF Lookup
  <2> QED
    BY <1>0, <1>1, <2>1, <2>2 DEF Lookup, Request, FuseInv
<1>2. ASSUME NEW p \in Paths, NEW w \in BOOLEAN, Create(p, w) PROVE StepOK
  <2>1. Empty \in Contents
    BY BackendAssumption
  <2>2. CASE WriteFile(p, Empty) /\ GetOrCreate(p) /\ OpenHandle(p, w)
    <3>1. TablesOK' /\ handles' \in [Handles -> HandleType]
      BY <2>2, GetOrCreateOK, OpenHandleOK
    <3> QED
      BY <1>0, <1>2, <2>1, <2>2, <3>1, WriteFileOK DEF Create, Request
  <2>3. CASE WriteFileFails(p, Empty) /\ UNCHANGED <<tables, handles>>
    BY <1>0, <1>2, <2>1, <2>3, WriteFileFailsOK, SameTables DEF Create, Request, FuseInv
  <2> QED
    BY <1>2, <2>2, <2>3 DEF Create
<1>3. ASSUME NEW p \in Paths, Mkdir(p) PROVE StepOK
  <2>1. DiskOK' /\ \A q \in Paths : Untouched(q)
    BY <1>3, CreateDirKeepsDisk, CreateDirTouches DEF Mkdir, FuseInv
  <2>2. CommitOK' /\ PendingOK' /\ HeadStep
    BY <1>3, <2>1, MarkedChangeOK DEF Mkdir
  <2>3. TablesOK'
    BY <1>3, GetOrCreateOK DEF Mkdir
  <2> QED
    BY <1>0, <1>3, <2>1, <2>2, <2>3 DEF Mkdir, Request, FuseInv
<1>4. ASSUME NEW p \in Paths, Unlink(p) PROVE StepOK
  <2>1. DiskOK' /\ \A q \in Paths : q # p => Untouched(q)
    BY <1>4, DeleteKeepsDisk, DeleteTouches DEF Unlink, FuseInv
  <2>2. p \in Ignored => \A q \in Paths : Untouched(q)
    BY <2>1, UntouchedIf
  <2>3. CommitOK' /\ PendingOK' /\ HeadStep
    BY <1>4, <2>1, <2>2, MarkedChangeOK DEF Unlink
  <2>4. TablesOK'
    BY <1>4, RemovePathOK DEF Unlink, FuseInv
  <2> QED
    BY <1>0, <1>4, <2>1, <2>3, <2>4 DEF Unlink, Request, FuseInv
<1>5. ASSUME NEW p \in Paths, Rmdir(p) PROVE StepOK
  <2>1. DiskOK' /\ \A q \in Paths : q # p => Untouched(q)
    BY <1>5, RemoveDirKeepsDisk, RemoveDirTouches DEF Rmdir, FuseInv
  <2>2. p \in Ignored => \A q \in Paths : Untouched(q)
    BY <2>1, UntouchedIf
  <2>3. CommitOK' /\ PendingOK' /\ HeadStep
    BY <1>5, <2>1, <2>2, MarkedChangeOK DEF Rmdir
  <2>4. TablesOK'
    BY <1>5, RemovePathOK DEF Rmdir, FuseInv
  <2> QED
    BY <1>0, <1>5, <2>1, <2>3, <2>4 DEF Rmdir, Request, FuseInv
<1>6. ASSUME NEW p \in Paths, NEW q \in Paths, Rename(p, q) PROVE StepOK
  <2> DEFINE lost == {r \in Paths : Below(r, p) \/ Below(r, q)}
  <2>1. DiskOK' /\ \A r \in Paths \ lost : Untouched(r)
    BY <1>6, RenameKeepsDisk, RenameTouches DEF Rename, FuseInv
  <2>2. MarkDirty(q, head, lost) /\ lost \in SUBSET Paths
    BY <1>6 DEF Rename
  <2> HIDE DEF lost
  <2>3. CommitOK' /\ PendingOK' /\ HeadStep
    BY <1>6, <2>1, <2>2, MarkedChangeOK DEF Rename
  <2>4. TablesOK'
    BY <1>6, RenamePathOK DEF Rename, CanRename, FuseInv
  <2> QED
    BY <1>0, <1>6, <2>1, <2>3, <2>4 DEF Rename, Request, FuseInv
<1>7. ASSUME NEW i \in Inodes, Readdir(i) PROVE StepOK
  <2> DEFINE S == Children(inodeToPath[i])
                      \cup IF inodeToPath[i] = Root THEN {} ELSE {Parent(inodeToPath[i])}
  <2>1. GetOrCreateAll(S)
    BY <1>7, Zenon DEF Readdir
  <2>2. S \in SUBSET AllPaths
    <3>1. inodeToPath[i] \in AllPaths
      BY <1>7 DEF Readdir, Known, FuseInv, TablesOK, InodeTypeOK
    <3>2. inodeToPath[i] # Root => Parent(inodeToPath[i]) \in AllPaths
      BY <3>1, AncestryOfParent DEF AllPaths
    <3> QED
      BY <3>2 DEF Children, AllPaths
  <2> HIDE DEF S
  <2>3. TablesOK'
    BY <2>1, <2>2, GetOrCreateAllOK DEF FuseInv
  <2>4. DiskOK' /\ CommitOK' /\ PendingOK' /\ HeadStep
    BY <1>7, QuietRequestOK DEF Readdir
  <2> QED
    BY <1>0, <1>7, <2>3, <2>4 DEF Readdir, Request, FuseInv
<1>8. ASSUME NEW i \in Inodes, NEW w \in BOOLEAN, Chmod(i, w) PROVE StepOK
  <2> DEFINE p == inodeToPath[i]
  <2>1. /\ p \in Paths /\ UNCHANGED <<pending, handles>> /\ MarkDirty(p, head, Links(p))
        /\ IF IsFile(p) THEN SetPermissionsDisk(p, w) ELSE UNCHANGED disk
        /\ GetOrCreate(p)
    BY <1>8 DEF Chmod, KnownFile
  <2> HIDE DEF p
  <2>2. DiskOK' /\ \A q \in Paths \ Links(p) : Untouched(q)
    BY <2>1, SetPermissionsKeepsDisk, SetPermissionsTouches, SameDisk DEF FuseInv
  <2>3. CommitOK' /\ PendingOK' /\ HeadStep
    BY <2>1, <2>2, MarkedChangeOK DEF Links
  <2>4. TablesOK'
    BY <2>1, GetOrCreateOK
  <2> QED
    BY <1>0, <1>8, <2>1, <2>2, <2>3, <2>4 DEF Chmod, Request, FuseInv
<1>9. ASSUME NEW i \in Inodes, NEW v \in Contents, Truncate(i, v) PROVE StepOK
  <2> DEFINE p == inodeToPath[i]
  <2>1. /\ p \in Paths /\ UNCHANGED handles
        /\ \/ WriteFile(p, v) /\ GetOrCreate(p)
           \/ WriteFileFails(p, v) /\ UNCHANGED tables
    BY <1>9 DEF Truncate, KnownFile
  <2> HIDE DEF p
  <2>2. DiskOK' /\ CommitOK' /\ PendingOK' /\ HeadStep
    BY <2>1, WriteFileOK, WriteFileFailsOK
  <2>3. TablesOK'
    BY <2>1, GetOrCreateOK, SameTables
  <2> QED
    BY <1>0, <1>9, <2>1, <2>2, <2>3 DEF Truncate, Request, FuseInv
<1>10. ASSUME NEW i \in Inodes, NEW w \in BOOLEAN, Open(i, w) PROVE StepOK
  <2>1. handles' \in [Handles -> HandleType]
    BY <1>10, OpenHandleOK DEF Open, KnownFile
  <2>2. TablesOK'
    BY <1>10, SameTables DEF Open
  <2>3. DiskOK' /\ CommitOK' /\ PendingOK' /\ HeadStep
    BY <1>10, QuietRequestOK DEF Open
  <2> QED
    BY <1>0, <1>10, <2>1, <2>2, <2>3 DEF Open, Request
<1>11. ASSUME NEW i \in Inodes, NEW p \in Paths, Link(i, p) PROVE StepOK
  <2>1. inodeToPath[i] \in Paths /\ CanLink(p, inodeToPath[i]) /\ LinkDisk(p, inodeToPath[i])
    BY <1>11 DEF Link, KnownFile
  <2>2. DiskOK' /\ \A q \in Paths : q # p => Untouched(q)
    BY <2>1, LinkKeepsDisk, LinkTouches DEF FuseInv
  <2>3. p \in Ignored => \A q \in Paths : Untouched(q)
    BY <2>2, UntouchedIf
  <2>4. CommitOK' /\ PendingOK' /\ HeadStep
    BY <1>11, <2>2, <2>3, MarkedChangeOK DEF Link
  <2>5. TablesOK'
    BY <1>11, GetOrCreateOK DEF Link
  <2> QED
    BY <1>0, <1>11, <2>2, <2>4, <2>5 DEF Link, Request, FuseInv
<1>12. ASSUME NEW h \in Handles, Release(h) PROVE StepOK
  <2>1. handles' \in [Handles -> HandleType]
    BY <1>12, CloseHandleOK DEF Release
  <2>2. TablesOK'
    BY <1>12, SameTables DEF Release
  <2>3. DiskOK' /\ CommitOK' /\ PendingOK' /\ HeadStep
    <3>1. CASE handles[h].writable
      BY <1>12, <3>1, CommitRequestOK DEF Release
    <3>2. CASE ~handles[h].writable
      BY <1>12, <3>2, QuietRequestOK DEF Release, Keep
    <3> QED
      BY <3>1, <3>2
  <2> QED
    BY <1>0, <1>12, <2>1, <2>2, <2>3 DEF Release, Request
<1>13. ASSUME NEW h \in Handles, NEW v \in Contents, Write(h, v) PROVE StepOK
  <2>1. handles[h].path \in Paths
    BY <1>13, OpenHandlePath DEF Write
  <2>2. DiskOK' /\ CommitOK' /\ PendingOK' /\ HeadStep
    BY <1>13, <2>1, WriteFileOK, WriteFileFailsOK DEF Write
  <2>3. TablesOK'
    BY <1>13, SameTables DEF Write
  <2> QED
    BY <1>0, <1>13, <2>2, <2>3 DEF Write, Request, FuseInv
<1>14. CASE Flush
  <2>1. DiskOK' /\ CommitOK' /\ PendingOK' /\ HeadStep
    BY <1>14, CommitRequestOK DEF Flush
  <2>2. TablesOK'
    BY <1>14, SameTables DEF Flush
  <2> QED
    BY <1>0, <1>14, <2>1, <2>2 DEF Flush, Request, FuseInv
<1>15. CASE Destroy
  BY <1>15, DropHandlerOK, DestroyOK DEF Destroy, StepOK, FuseInv
<1>16. CASE Crash
  BY <1>16, DropHandlerOK, CrashOK DEF Crash, StepOK, FuseInv
<1>17. CASE Mount
  <2>1. DiskOK' /\ CommitOK' /\ PendingOK' /\ HeadStep
    BY <1>17, QuietRequestOK DEF Mount
  <2>2. TablesOK'
    BY <1>17, SameTables DEF Mount
  <2> QED
    BY <1>17, <2>1, <2>2 DEF Mount, StepOK, FuseInv
<1> HIDE DEF Requested
<1> QED
  BY <1>1, <1>2, <1>3, <1>4, <1>5, <1>6, <1>7, <1>8, <1>9, <1>10, <1>11, <1>12, <1>13,
     <1>14, <1>15, <1>16, <1>17 DEF Next

LEMMA FuseStutterOK == FuseInv /\ UNCHANGED vars => FuseInv'
<1> SUFFICES ASSUME FuseInv, UNCHANGED vars PROVE FuseInv'
  OBVIOUS
<1>1. /\ UNCHANGED <<disk, head, pending, dirty, missed>> /\ UNCHANGED tables
      /\ handles' = handles /\ mounted' = mounted
  BY DEF vars, disk, tables
<1> QED
  BY <1>1, QuietRequestOK, SameTables DEF FuseInv
-----------------------------------------------------------------------------
\* The inductive invariant of the handler.
THEOREM FuseInvariance == Spec => []FuseInv
<1>1. FuseInv /\ [Next]_vars => FuseInv'
  BY FuseNextOK, FuseStutterOK DEF StepOK
<1> QED
  BY <1>1, FuseInitOK, PTL DEF Spec

\* The handler, its tables and the backend keep their types.
THEOREM FuseTypeCorrect == Spec => []TypeOK
<1>1. FuseInv => TypeOK
  BY DEF FuseInv, DiskOK, CommitOK, PendingOK, TablesOK, TypeOK
<1> QED
  BY <1>1, FuseInvariance, PTL

\* With nothing dirty HEAD holds the working tree, but for files that are read-only
\* and what is on record as not marked or not committed (fs.rs:212-250, 262-269).
THEOREM CleanIsCommitted == Spec => []CleanMeansCommitted
<1>1. FuseInv => CleanMeansCommitted
  BY DEF FuseInv, CommitOK
<1> QED
  BY <1>1, FuseInvariance, PTL

\* Neither set of pending paths outgrows a batch (fs.rs:242-250, git.rs:646-672).
THEOREM BatchesAreBounded == Spec => []BatchesBounded
<1>1. FuseInv => BatchesBounded
  BY DEF FuseInv, CommitOK, PendingOK, BatchesBounded
<1> QED
  BY <1>1, FuseInvariance, PTL

\* No two paths share an inode number (fs.rs:65-91).
THEOREM InodesAreDistinct == Spec => []InodesLeadBack
<1>1. FuseInv => InodesLeadBack
  BY DEF FuseInv, TablesOK
<1> QED
  BY <1>1, FuseInvariance, PTL

\* No commit that is made takes a file that HEAD has right, and that the step leaves
\* alone, out of HEAD or back to an older content, unless the file is read-only
\* (git.rs:1223-1392, fs.rs:212-223).
THEOREM CommittedFilesStay == Spec => CommittedStaysCommitted
<1>1. FuseInv /\ [Next]_vars
          => [head' \notin {head, NoTree} =>
                  Stale' \subseteq Stale \cup Changed(Work, Work') \cup Unwritable']_vars
  <2> SUFFICES ASSUME FuseInv, Next, head' \notin {head, NoTree}
               PROVE  Stale' \subseteq Stale \cup Changed(Work, Work') \cup Unwritable'
    OBVIOUS
  <2>1. FuseInv' /\ NewHead(head')
    BY FuseNextOK DEF StepOK, HeadStep
  <2>2. \A p \in Stale' : p \in Paths /\ (p \in Stale \/ ~SameFile(p) \/ p \in Unwritable')
    BY <2>1, StaleFrom, WorkPrimeIsTree DEF FuseInv, CommitOK
  <2>3. \A p \in Paths : ~SameFile(p) => p \in Changed(Work, Work')
    BY DEF SameFile, FileAt, Changed
  <2> QED
    BY <2>2, <2>3
<1> QED
  BY <1>1, FuseInvariance, PTL DEF Spec, CommittedStaysCommitted
=============================================================================
