-------------------------- MODULE BackendTreeProofs --------------------------
(***************************************************************************)
(* Proofs about BackendTree, for any set of paths, files and contents, any   *)
(* batch size and either debounce mode.  The inductive invariant adds to the  *)
(* properties that the working tree is nested and that a path on record as    *)
(* written still holds a file that can be written back.  The last part is    *)
(* about TreeDescent: what a descent returns for a directory is given in     *)
(* closed form (IncrementalFrom), which satisfies the equation the recursion  *)
(* is, and nothing else does, since directories do not nest for ever          *)
(* (DescentDecides).                                                        *)
(***************************************************************************)
EXTENDS TreeDescent, BackendOpsProofs, WellFoundedInduction

WrittenIsThere == \A p \in written : IsFile(p) /\ p \notin Unwritable

TreeInv == TreeTypeOK /\ WellFormed(node) /\ HeadWellFormed /\ WrittenIsThere /\ WritesTracked
-----------------------------------------------------------------------------
(* Commits                                                                  *)

\* What a commit of either kind makes of HEAD: a nested tree, whose entry of a
\* path is that of the working tree, for the listed paths, and that or HEAD's
\* own for the others.  Nothing is said of paths the builder leaves out.
LEMMA CommitPicks ==
    ASSUME head \in Trees \cup {NoTree}, HeadWellFormed,
           NEW work \in Trees, WellFormed(work), NEW skipped,
           NEW marked \in SUBSET Paths, NEW tree,
           tree \in {Full(work, skipped), IncrementalCommit(marked, work, skipped)}
    PROVE  /\ tree \in Trees /\ tree # NoTree /\ WellFormed(tree)
           /\ \A p \in Paths \ (Ignored \cup skipped) :
                  /\ p \in marked => tree[p] = work[p]
                  /\ tree[p] \in {HeadTree[p], work[p]}
<1>1. \A p \in Paths \ (Ignored \cup skipped) : Full(work, skipped)[p] = work[p]
  BY DEF Full
<1>2. EmptyTree \in Trees
  BY DEF EmptyTree, Trees, Nodes
<1>3. HeadTree \in Trees /\ WellFormed(HeadTree)
  BY <1>2 DEF HeadTree, HeadWellFormed
<1>4. CASE tree = Full(work, skipped)
  BY <1>1, <1>3, <1>4, FullIsTree, BuildersNest, BackendAssumption
<1>5. CASE tree # Full(work, skipped)
  <2>1. head \in Trees /\ HeadTree = head /\ tree = Incremental(head, work, marked, skipped)
    BY <1>5 DEF IncrementalCommit, HeadTree
  <2>2. tree \in Trees /\ tree # NoTree /\ WellFormed(tree)
    BY <1>3, <2>1, IncrementalIsTree, BuildersNest, BackendAssumption
  <2>3. ASSUME NEW p \in marked
        PROVE  DirtyChild(marked, p)
    BY <2>3, BelowItself DEF DirtyChild
  <2>4. \A p \in Paths : p \in marked => tree[p] = Full(work, skipped)[p]
    BY <2>1, <2>3, MarkedIsFresh
  <2>5. \A p \in Paths : tree[p] \in {HeadTree[p], Full(work, skipped)[p]}
    BY <2>1, IncrementalPicks
  <2> QED
    BY <1>1, <2>2, <2>4, <2>5
<1> QED
  BY <1>4, <1>5
-----------------------------------------------------------------------------
(* The inductive step, one lemma for the file operations that commit and one  *)
(* for the rest                                                             *)

TreeOK == /\ DiskOK
          /\ head \in Trees \cup {NoTree}
          /\ pending \in Seq(Paths \ Ignored)
          /\ written \subseteq Paths \ Ignored
          /\ HeadWellFormed /\ WrittenIsThere /\ WritesTracked

LEMMA TreeInvIsTreeOK == TreeInv <=> TreeOK
BY DEF TreeInv, TreeOK, DiskOK, TreeTypeOK, HasName, Unused

LEMMA TreeInitOK == TreeInit => TreeOK
<1> SUFFICES ASSUME TreeInit PROVE TreeOK
  OBVIOUS
<1>1. DiskOK
  BY BackendAssumption DEF TreeInit, BackendInit, DiskOK, WellFormed
<1>2. EmptyTree = HeadTree /\ WellFormed(EmptyTree)
  BY DEF TreeInit, BackendInit, HeadTree, EmptyTree, WellFormed
<1> QED
  BY <1>1, <1>2 DEF TreeInit, BackendInit, TreeOK, HeadWellFormed, WrittenIsThere, WritesTracked

\* A step that leaves HEAD and the list alone and takes off the record what it
\* changes.
LEMMA QuietStepOK ==
    ASSUME TreeOK, DiskOK', UNCHANGED <<head, pending>>, written' \subseteq written,
           \A p \in written' : /\ node'[p] = node[p] /\ Work'[p] = Work[p]
                               /\ node[p] \in readonly' => node[p] \in readonly
    PROVE  TreeOK'
<1>1. WrittenIsThere'
  BY DEF TreeOK, WrittenIsThere, IsFile, Unwritable
<1> QED
  BY <1>1 DEF TreeOK, HeadWellFormed, HeadTree, WritesTracked, Elements

LEMMA WriteFileOK ==
    ASSUME TreeOK, NEW p \in Paths, NEW v \in Contents, WriteFile(p, v)
    PROVE  TreeOK'
<1>1. PICK f \in Files : /\ IF IsFile(p) THEN f = node[p] ELSE Unused(f)
                         /\ node' = [node EXCEPT ![p] = f]
                         /\ data' = [data EXCEPT ![f] = v]
                         /\ readonly' = readonly \ {f}
  BY DEF WriteFile, WriteDisk
<1>2. DiskOK'
  BY WriteKeepsDisk DEF TreeOK, WriteFile
<1>3. Work' \in Trees /\ WellFormed(Work')
  <2>1. /\ node' \in [Paths -> Files \cup {Absent, Dir}]
        /\ data' \in [Files -> Contents] /\ WellFormed(node')
    BY <1>2 DEF DiskOK, WellFormed
  <2> QED
    BY <2>1, WorkIsTree DEF Work
<1>4. ASSUME NEW q \in written', q # p
      PROVE  /\ q \in written /\ q \in Paths /\ node'[q] = node[q] /\ Work'[q] = Work[q]
             /\ q \notin Unwritable
  <2>1. q \in written /\ q \notin Links(p) /\ q \in Paths /\ IsFile(q) /\ q \notin Unwritable
    BY <1>4 DEF WriteFile, TreeOK, WrittenIsThere
  <2>2. node[q] # f
    BY <1>1, <2>1 DEF Links, Unused
  <2> QED
    BY <1>1, <1>4, <2>1, <2>2 DEF Work, TreeOK, DiskOK, IsFile
<1>5. IsFile(p)' /\ p \notin Unwritable'
  BY <1>1 DEF IsFile, TreeOK, DiskOK, Unwritable
<1>6. /\ written' \subseteq (written \cup {p}) \ Ignored
      /\ written' \subseteq Paths \ Ignored /\ WrittenIsThere'
  <2>1. written' \subseteq (written \cup {p}) \ Ignored
    BY DEF WriteFile, TreeOK
  <2>2. ASSUME NEW q \in written'
        PROVE  IsFile(q)' /\ q \notin Unwritable'
    <3>1. CASE q = p
      BY <1>5, <3>1
    <3>2. CASE q # p
      <4>1. q \in written /\ IsFile(q) /\ node'[q] = node[q] /\ q \notin Unwritable
        BY <1>4, <2>2, <3>2 DEF TreeOK, WrittenIsThere
      <4> QED
        BY <1>1, <1>4, <2>2, <3>2, <4>1 DEF IsFile, Unwritable
    <3> QED
      BY <3>1, <3>2
  <2> QED
    BY <2>1, <2>2 DEF WrittenIsThere, TreeOK
<1>7. CASE ~Tracked(p)
  <2>1. head' = head /\ pending' = pending
    BY <1>7 DEF WriteFile, PendingAfterWrite, HeadAfterWrite
  <2>2. WritesTracked'
    BY <1>4, <1>6, <1>7, <2>1 DEF WritesTracked, TreeOK, Tracked, HeadTree, Elements
  <2> QED
    BY <1>2, <1>6, <2>1, <2>2 DEF TreeOK, HeadWellFormed, HeadTree
<1>8. CASE Tracked(p) /\ ~CommitNow(Append(pending, p))
  <2>1. head' = head /\ pending' = Append(pending, p)
    BY <1>8 DEF WriteFile, PendingAfterWrite, HeadAfterWrite
  <2>2. pending' \in Seq(Paths \ Ignored) /\ Elements(pending)' = Elements(pending) \cup {p}
    <3>1. pending \in Seq(Paths \ Ignored) /\ p \in Paths \ Ignored
      BY <1>8 DEF TreeOK, Tracked
    <3>2. /\ Append(pending, p) \in Seq(Paths \ Ignored)
          /\ Elements(Append(pending, p)) = Elements(pending) \cup {p}
      BY <3>1, ElementsOfAppend
    <3> QED
      BY <2>1, <3>2 DEF Elements
  <2>3. WritesTracked'
    BY <1>4, <1>6, <2>1, <2>2 DEF WritesTracked, TreeOK, HeadTree
  <2> QED
    BY <1>2, <1>6, <2>1, <2>2, <2>3 DEF TreeOK, HeadWellFormed, HeadTree
<1>9. CASE Tracked(p) /\ CommitNow(Append(pending, p))
  <2> DEFINE marked == Elements(pending) \cup {p}
  <2>1. /\ marked \in SUBSET Paths
        /\ head' = IncrementalCommit(marked, Work', Unwritable') /\ pending' = <<>>
    <3>1. pending \in Seq(Paths \ Ignored) /\ p \in Paths \ Ignored
      BY <1>9 DEF TreeOK, Tracked
    <3>2. /\ Elements(pending) \subseteq Paths \ Ignored
          /\ Elements(Append(pending, p)) = Elements(pending) \cup {p}
      BY <3>1, ElementsOfAppend
    <3>3. /\ head' = IncrementalCommit(Elements(Append(pending, p)), Work', Unwritable')
          /\ pending' = <<>>
      BY <1>9 DEF WriteFile, PendingAfterWrite, HeadAfterWrite
    <3> QED
      BY <3>2, <3>3
  <2>2. /\ head' \in Trees /\ head' # NoTree /\ WellFormed(head')
        /\ \A q \in Paths \ (Ignored \cup Unwritable') :
               /\ q \in marked => head'[q] = Work'[q]
               /\ head'[q] \in {HeadTree[q], Work'[q]}
    <3> HIDE DEF marked
    <3> QED
      BY <1>3, <2>1, CommitPicks DEF TreeOK
  <2>3. HeadTree' = head'
    BY <2>2 DEF HeadTree
  <2>4. WritesTracked'
    <3>1. ASSUME NEW q \in written', q \notin marked
          PROVE  q \in written /\ q \notin Elements(pending) /\ Work'[q] = Work[q]
      BY <1>4, <3>1
    <3>2. ASSUME AutoCommit, NEW q \in written'
          PROVE  head'[q] = Work'[q]
      <4>1. q \in Paths \ (Ignored \cup Unwritable')
        BY <1>6 DEF WrittenIsThere
      <4>2. CASE q \in marked
        BY <2>2, <4>1, <4>2
      <4>3. CASE q \notin marked
        BY <2>2, <3>1, <3>2, <4>1, <4>3 DEF WritesTracked, TreeOK
      <4> QED
        BY <4>2, <4>3
    <3> QED
      BY <2>3, <3>2 DEF WritesTracked
  <2>5. pending' \in Seq(Paths \ Ignored) /\ HeadWellFormed'
    BY <2>1, <2>2, <2>3, EmptySeq DEF HeadWellFormed, WellFormed
  <2> QED
    BY <1>2, <1>6, <2>2, <2>4, <2>5 DEF TreeOK
<1> QED
  BY <1>7, <1>8, <1>9

\* A commit of the whole working tree, or of the list, without a change of the
\* disk.
LEMMA CommitStepOK ==
    ASSUME TreeOK, UNCHANGED <<disk, written>>,
           NEW marked \in SUBSET Paths,
           head' \in {Full(Work, Unwritable), IncrementalCommit(marked, Work, Unwritable)},
           \/ head' = Full(Work, Unwritable) /\ pending' = pending
           \/ marked = Elements(pending) /\ pending' = <<>>
    PROVE  TreeOK'
<1>1. Work \in Trees /\ WellFormed(Work)
  BY WorkIsTree DEF Work, TreeOK, DiskOK
<1>2. /\ head' \in Trees /\ head' # NoTree /\ WellFormed(head')
      /\ \A p \in Paths \ (Ignored \cup Unwritable) :
             /\ p \in marked => head'[p] = Work[p]
             /\ head'[p] \in {HeadTree[p], Work[p]}
  <2>1. head \in Trees \cup {NoTree} /\ HeadWellFormed
    BY DEF TreeOK
  <2>2. CASE head' = Full(Work, Unwritable)
    <3>1. WellFormed(HeadTree)
      BY <2>1 DEF HeadWellFormed
    <3>2. Full(Work, Unwritable) \in Trees /\ WellFormed(Full(Work, Unwritable))
      BY <1>1, <3>1, FullIsTree, BuildersNest
    <3>3. \A p \in Paths \ (Ignored \cup Unwritable) : Full(Work, Unwritable)[p] = Work[p]
      BY DEF Full
    <3> QED
      BY <2>2, <3>2, <3>3, BackendAssumption
  <2>3. CASE head' = IncrementalCommit(marked, Work, Unwritable)
    BY <1>1, <2>1, <2>3, CommitPicks
  <2> QED
    BY <2>2, <2>3
<1>3. HeadTree' = head' /\ Work' = Work
  BY <1>2 DEF HeadTree, Work, disk
<1>4. ASSUME head' = Full(Work, Unwritable), NEW p \in Paths \ (Ignored \cup Unwritable)
      PROVE  HeadTree'[p] = Work'[p]
  BY <1>3, <1>4 DEF Full
<1>5. WritesTracked'
  <2>1. \A p \in written' : p \in written /\ p \in Paths \ (Ignored \cup Unwritable)
    BY DEF TreeOK, WrittenIsThere
  <2> QED
    BY <1>2, <1>3, <1>4, <2>1 DEF WritesTracked, TreeOK, Elements
<1>6. DiskOK' /\ WrittenIsThere'
  BY DEF TreeOK, DiskOK, WrittenIsThere, IsFile, Unwritable, disk, WellFormed
<1>7. pending' \in Seq(Paths \ Ignored) /\ HeadWellFormed'
  BY <1>2, <1>3, EmptySeq DEF TreeOK, HeadWellFormed, WellFormed
<1> QED
  BY <1>2, <1>5, <1>6, <1>7 DEF TreeOK

LEMMA TreeNextOK == TreeOK /\ [TreeNext]_treeVars => TreeOK'
<1> SUFFICES ASSUME TreeOK, [TreeNext]_treeVars PROVE TreeOK'
  OBVIOUS
<1>1. ASSUME NEW p \in Paths, NEW v \in Contents, WriteFile(p, v) PROVE TreeOK'
  BY <1>1, WriteFileOK
<1>2. ASSUME NEW p \in Paths, DeleteFile(p) PROVE TreeOK'
  <2>1. DiskOK'
    BY <1>2, DeleteKeepsDisk DEF DeleteFile, TreeOK
  <2>2. ASSUME NEW q \in written'
        PROVE  node'[q] = node[q] /\ Work'[q] = Work[q]
    <3>1. q # p /\ q \in Paths /\ IsFile(q)
      BY <1>2, <2>2 DEF DeleteFile, TreeOK, WrittenIsThere
    <3>2. node'[q] = node[q]
      BY <1>2, <3>1 DEF DeleteFile, DeleteDisk, TreeOK, DiskOK
    <3>3. data'[node[q]] = data[node[q]]
      BY <1>2, <3>1, <3>2 DEF DeleteFile, DeleteDisk, Reclaim, HasName, IsFile
    <3> QED
      BY <3>1, <3>2, <3>3 DEF Work
  <2>3. readonly' \subseteq readonly
    BY <1>2 DEF DeleteFile, DeleteDisk, ReclaimModes
  <2> QED
    BY <1>2, <2>1, <2>2, <2>3, QuietStepOK DEF DeleteFile
<1>3. ASSUME NEW p \in Paths, CreateDir(p) PROVE TreeOK'
  <2>1. DiskOK'
    BY <1>3, CreateDirKeepsDisk DEF CreateDir, TreeOK
  <2>2. ASSUME NEW q \in written
        PROVE  node'[q] = node[q] /\ Work'[q] = Work[q]
    <3>1. q \in Paths /\ IsFile(q)
      BY <2>2 DEF TreeOK, WrittenIsThere
    <3>2. ~Below(p, q)
      BY <1>3, <3>1, BackendAssumption DEF CreateDir, CanCreateDir, IsFile
    <3> QED
      BY <1>3, <3>1, <3>2 DEF CreateDir, CreateDirDisk, Work
  <2> QED
    BY <1>3, <2>1, <2>2, QuietStepOK DEF CreateDir, CreateDirDisk
<1>4. ASSUME NEW p \in Paths, RemoveDir(p) PROVE TreeOK'
  <2>1. DiskOK'
    BY <1>4, RemoveDirKeepsDisk DEF RemoveDir, TreeOK
  <2>2. ASSUME NEW q \in written
        PROVE  node'[q] = node[q] /\ Work'[q] = Work[q]
    <3>1. q \in Paths /\ IsFile(q)
      BY <2>2 DEF TreeOK, WrittenIsThere
    <3>2. q # p
      BY <1>4, <3>1, BackendAssumption DEF RemoveDir, CanRemoveDir, IsFile
    <3> QED
      BY <1>4, <3>1, <3>2 DEF RemoveDir, RemoveDirDisk, Work, TreeOK, DiskOK
  <2> QED
    BY <1>4, <2>1, <2>2, QuietStepOK DEF RemoveDir, RemoveDirDisk
<1>5. ASSUME NEW from \in Paths, NEW to \in Paths, Rename(from, to) PROVE TreeOK'
  <2>1. DiskOK'
    BY <1>5, RenameKeepsDisk DEF Rename, TreeOK
  <2>2. ASSUME NEW q \in written'
        PROVE  node'[q] = node[q] /\ Work'[q] = Work[q]
    <3>1. q \in Paths /\ IsFile(q) /\ ~Below(q, from) /\ ~Below(q, to)
      BY <1>5, <2>2 DEF Rename, TreeOK, WrittenIsThere
    <3> QED
      BY <1>5, <3>1, RenameSpares DEF Rename, TreeOK
  <2>3. readonly' \subseteq readonly
    BY <1>5 DEF Rename, RenameDisk, ReclaimModes, disk
  <2> QED
    BY <1>5, <2>1, <2>2, <2>3, QuietStepOK DEF Rename
<1>6. ASSUME NEW p \in Paths, NEW target \in Paths, CreateHardlink(p, target) PROVE TreeOK'
  <2>1. DiskOK'
    BY <1>6, LinkKeepsDisk DEF CreateHardlink, TreeOK
  <2>2. ASSUME NEW q \in written
        PROVE  node'[q] = node[q] /\ Work'[q] = Work[q]
    <3>1. q \in Paths /\ IsFile(q)
      BY <2>2 DEF TreeOK, WrittenIsThere
    <3>2. q # p
      BY <1>6, <3>1, BackendAssumption DEF CreateHardlink, CanLink, IsFile
    <3> QED
      BY <1>6, <3>1, <3>2 DEF CreateHardlink, LinkDisk, Work, TreeOK, DiskOK
  <2> QED
    BY <1>6, <2>1, <2>2, QuietStepOK DEF CreateHardlink, LinkDisk
<1>7. CASE FlushPendingAutoCommit
  <2>1. Elements(pending) \in SUBSET Paths /\ Elements(pending) # {}
    <3>1. /\ \A i \in DOMAIN pending : pending[i] \in Paths \ Ignored
          /\ 1 \in DOMAIN pending
      BY <1>7, EmptySeq DEF FlushPendingAutoCommit, TreeOK
    <3> QED
      BY <3>1 DEF Elements
  <2>2. head' = IncrementalCommit(Elements(pending), Work, Unwritable) /\ pending' = <<>>
    BY <1>7, <2>1 DEF FlushPendingAutoCommit, HeadAfterFlush, IncrementalCommit
  <2> QED
    BY <1>7, <2>1, <2>2, CommitStepOK DEF FlushPendingAutoCommit
<1>8. CASE Commit
  BY <1>8, CommitStepOK DEF Commit
<1>9. CASE UNCHANGED treeVars
  <2>1. Work' = Work
    BY <1>9 DEF treeVars, Work
  <2> QED
    BY <1>9, <2>1 DEF treeVars, TreeOK, DiskOK, WellFormed, HeadWellFormed, HeadTree,
                      WrittenIsThere, IsFile, Unwritable, WritesTracked, Elements
<1>10. ASSUME NEW from \in Paths, NEW to \in Paths, RenameFails(from, to) PROVE TreeOK'
  <2>1. DiskOK'
    BY <1>10, MakeParentsKeepsDisk DEF RenameFails, TreeOK
  <2>2. ASSUME NEW q \in written
        PROVE  node'[q] = node[q] /\ Work'[q] = Work[q]
    <3>1. q \in Paths /\ IsFile(q)
      BY <2>2 DEF TreeOK, WrittenIsThere
    <3>2. node'[q] = node[q]
      BY <1>10, <3>1, BackendAssumption
         DEF RenameFails, MakeParentsDisk, CanMakeParents, IsFile
    <3> QED
      BY <1>10, <3>1, <3>2 DEF RenameFails, MakeParentsDisk, Work
  <2> QED
    BY <1>10, <2>1, <2>2, QuietStepOK DEF RenameFails, MakeParentsDisk
<1>11. ASSUME NEW p \in Paths, NEW writable \in BOOLEAN, SetPermissions(p, writable)
       PROVE  TreeOK'
  <2>1. DiskOK'
    BY <1>11, SetPermissionsKeepsDisk DEF SetPermissions, TreeOK
  <2>2. node' = node /\ data' = data /\ Work' = Work /\ readonly' \subseteq readonly \cup {node[p]}
    BY <1>11 DEF SetPermissions, SetPermissionsDisk, Work
  <2>3. ASSUME NEW q \in written'
        PROVE  node[q] # node[p]
    BY <1>11, <2>3 DEF SetPermissions, Links, TreeOK
  <2> QED
    BY <1>11, <2>1, <2>2, <2>3, QuietStepOK DEF SetPermissions
<1> QED
  BY <1>1, <1>2, <1>3, <1>4, <1>5, <1>6, <1>7, <1>8, <1>9, <1>10, <1>11 DEF TreeNext
-----------------------------------------------------------------------------
\* The inductive invariant of the backend with one caller.
THEOREM TreeInvariance == TreeSpec => []TreeInv
<1>1. TreeSpec => []TreeOK
  BY TreeInitOK, TreeNextOK, PTL DEF TreeSpec
<1> QED
  BY <1>1, TreeInvIsTreeOK, PTL

\* The state keeps its types, and a .gitkeep is only ever in a directory.
THEOREM TreeTypeCorrect == TreeSpec => []TreeTypeOK
BY TreeInvariance, PTL DEF TreeInv

\* HEAD is nested, whatever was moved, removed or reused (git.rs:1223-1392).
THEOREM HeadNests == TreeSpec => []HeadWellFormed
BY TreeInvariance, PTL DEF TreeInv

\* No acknowledged write is left out of HEAD unnoticed: it is there or it is
\* listed (git.rs:646-672, 1223-1392).
THEOREM WritesAreTracked == TreeSpec => []WritesTracked
BY TreeInvariance, PTL DEF TreeInv
-----------------------------------------------------------------------------
(* The builders as descents                                                 *)

\* A set that has every number up to n whose predecessors it has, has them all.
LEMMA SegmentInduction ==
    ASSUME NEW S, NEW n \in Nat,
           \A k \in 0..n : (\A j \in 0..n : j < k => j \in S) => k \in S
    PROVE  0..n \subseteq S
<1> DEFINE Missing == 0..n \ S
           Less == OpToRel(<, Nat)
<1>1. \A T \in SUBSET Nat : T # {} => \E least \in T : \A k \in T : <<k, least>> \notin Less
  BY NatLessThanWellFounded, WFMin
<1>2. \A j, k \in Nat : j < k => <<j, k>> \in Less
  BY DEF OpToRel
<1>3. Missing \in SUBSET Nat
  OBVIOUS
<1>4. ASSUME NEW least \in Missing, \A k \in Missing : <<k, least>> \notin Less PROVE FALSE
  <2>1. ASSUME NEW j \in Missing PROVE ~(j < least)
    <3>1. j \in Nat /\ least \in Nat
      OBVIOUS
    <3> HIDE DEF Less, Missing
    <3> QED  BY <1>2, <1>4, <3>1
  <2> QED  BY <2>1
<1> HIDE DEF Missing, Less
<1>5. Missing = {}
  BY <1>1, <1>3, <1>4
<1> QED  BY <1>5 DEF Missing

Directories == Paths \cup {Root}

\* p lies below the directory d, the root or another.
Under(p, d) == IsPrefix(d, p) /\ p # d

LEMMA UnderNames ==
    ASSUME NEW p \in Paths, NEW d \in Directories
    PROVE  /\ p \in Seq(STRING) /\ Len(p) \in Nat \ {0}
           /\ d \in Seq(STRING) /\ Len(d) \in Nat
           /\ Under(p, d) <=> Len(d) < Len(p) /\ \A i \in 1..Len(d) : d[i] = p[i]
<1>1. p \in Seq(STRING) /\ Len(p) \in Nat \ {0}
  BY PathIsSeq
<1>2. d \in Seq(STRING) /\ Len(d) \in Nat
  BY PathIsSeq, EmptySeq DEF Directories, Root
<1>3. IsPrefix(d, p) <=> Len(d) <= Len(p) /\ \A i \in 1..Len(d) : d[i] = p[i]
  BY <1>1, <1>2, PrefixNames
<1>4. p = d <=> Len(p) = Len(d) /\ \A i \in 1..Len(d) : d[i] = p[i]
  BY <1>1, <1>2, SeqEqual
<1> QED  BY <1>1, <1>2, <1>3, <1>4 DEF Under

LEMMA BelowNames ==
    ASSUME NEW p \in Paths, NEW q \in Paths
    PROVE  Below(p, q) <=> Len(q) <= Len(p) /\ \A i \in 1..Len(q) : q[i] = p[i]
BY PathIsSeq, PrefixNames DEF Below, Ancestry

\* Entries of the directory d.
LEMMA ChildNames ==
    ASSUME NEW c \in Paths, NEW d \in Directories
    PROVE  Parent(c) = d <=> Len(c) = Len(d) + 1 /\ \A i \in 1..Len(d) : d[i] = c[i]
<1>1. /\ c \in Seq(STRING) /\ Len(c) \in Nat \ {0}
      /\ d \in Seq(STRING) /\ Len(d) \in Nat
  BY UnderNames
<1>2. /\ Parent(c) \in Seq(STRING) /\ Len(Parent(c)) = Len(c) - 1
      /\ \A i \in 1..(Len(c) - 1) : Parent(c)[i] = c[i]
  BY <1>1, ParentNames
<1>3. Parent(c) = d <=> Len(d) = Len(c) - 1 /\ \A i \in 1..Len(d) : Parent(c)[i] = d[i]
  BY <1>1, <1>2, SeqEqual
<1>4. Len(d) = Len(c) - 1 <=> Len(c) = Len(d) + 1
  BY <1>1
<1> QED  BY <1>1, <1>2, <1>3, <1>4

LEMMA UnderFacts ==
    ASSUME NEW p \in Paths, NEW q \in Paths, NEW d \in Directories
    PROVE  /\ Under(p, Root)
           /\ Under(p, q) <=> Below(p, q) /\ p # q
           /\ Below(p, q) /\ Under(q, d) => Under(p, d)
           /\ Below(p, q) /\ Below(q, p) => p = q
<1>1. /\ p \in Seq(STRING) /\ Len(p) \in Nat \ {0}
      /\ q \in Seq(STRING) /\ Len(q) \in Nat \ {0}
      /\ d \in Seq(STRING) /\ Len(d) \in Nat
  BY UnderNames
<1>2. Under(p, Root)
  <2>1. Root \in Directories /\ Len(Root) = 0
    BY DEF Directories, Root
  <2> QED  BY <1>1, <2>1, UnderNames
<1>3. Under(p, q) <=> Below(p, q) /\ p # q
  BY DEF Under, Below, Ancestry
<1>4. Below(p, q) /\ Under(q, d) => Under(p, d)
  <2>1. Below(p, q) <=> Len(q) <= Len(p) /\ \A i \in 1..Len(q) : q[i] = p[i]
    BY BelowNames
  <2>2. Under(q, d) <=> Len(d) < Len(q) /\ \A i \in 1..Len(d) : d[i] = q[i]
    BY UnderNames
  <2>3. Under(p, d) <=> Len(d) < Len(p) /\ \A i \in 1..Len(d) : d[i] = p[i]
    BY UnderNames
  <2>4. ASSUME Len(d) < Len(q), Len(q) <= Len(p)
        PROVE  Len(d) < Len(p) /\ \A i \in 1..Len(d) : i \in 1..Len(q)
    BY <1>1, <2>4
  <2> QED  BY <2>1, <2>2, <2>3, <2>4
<1>5. Below(p, q) /\ Below(q, p) => p = q
  <2>1. /\ Below(p, q) <=> Len(q) <= Len(p) /\ \A i \in 1..Len(q) : q[i] = p[i]
        /\ Below(q, p) <=> Len(p) <= Len(q) /\ \A i \in 1..Len(p) : p[i] = q[i]
    BY BelowNames
  <2>2. Len(q) <= Len(p) /\ Len(p) <= Len(q) => Len(p) = Len(q)
    BY <1>1
  <2> QED  BY <1>1, <2>1, <2>2, SeqEqual
<1> QED  BY <1>2, <1>3, <1>4, <1>5

\* What lies below d lies below one of its entries, or is one.
LEMMA WayDown ==
    ASSUME NEW p \in Paths, NEW d \in Directories, Under(p, d)
    PROVE  LET c == SubSeq(p, 1, Len(d) + 1) IN c \in Paths /\ Parent(c) = d /\ Below(p, c)
<1> DEFINE n == Len(d) + 1
           c == SubSeq(p, 1, n)
<1>1. /\ p \in Seq(STRING) /\ Len(p) \in Nat \ {0} /\ Len(d) \in Nat
      /\ Len(d) < Len(p) /\ \A i \in 1..Len(d) : d[i] = p[i]
  BY UnderNames
<1>2. n \in 1..Len(p)
  BY <1>1
<1>3. c \in Paths
  BY <1>2, TreeAssumption
<1>4. Len(c) = n /\ \A i \in 1..n : c[i] = p[i]
  <2>1. \A i \in 1..n : p[i] \in STRING
    BY <1>1, <1>2
  <2>2. /\ Len(SubSeq(p, 1, n)) = IF 1 <= n THEN n - 1 + 1 ELSE 0
        /\ \A i \in 1..(n - 1 + 1) : SubSeq(p, 1, n)[i] = p[1 + i - 1]
    <3>1. n \in Int /\ 1 \in Int
      BY <1>2
    <3> HIDE DEF n
    <3> QED  BY <2>1, <3>1, SubSeqProperties
  <2>3. 1 <= n /\ n - 1 + 1 = n /\ \A i \in 1..n : 1 + i - 1 = i
    BY <1>2
  <2> QED  BY <2>2, <2>3
<1> HIDE DEF c
<1>5. Parent(c) = d
  <2>1. \A i \in 1..Len(d) : i \in 1..n
    BY <1>1
  <2> QED  BY <1>1, <1>3, <1>4, <2>1, ChildNames
<1>6. Below(p, c)
  BY <1>2, <1>3, <1>4, BelowNames
<1> QED  BY <1>3, <1>5, <1>6 DEF c

\* On the way from d to p the entry of d comes first.
LEMMA FirstOnTheWay ==
    ASSUME NEW d \in Directories, NEW c \in Paths, Parent(c) = d, NEW p \in Paths, Below(p, c)
    PROVE  /\ Under(c, d) /\ Under(p, d)
           /\ \A q \in Paths : Below(p, q) /\ Under(q, d) => Below(q, c)
           /\ \A q \in Paths : Below(c, q) /\ Under(q, d) => q = c
<1>1. /\ p \in Seq(STRING) /\ Len(p) \in Nat \ {0}
      /\ c \in Seq(STRING) /\ Len(c) \in Nat \ {0} /\ Len(d) \in Nat
      /\ Len(c) = Len(d) + 1 /\ \A i \in 1..Len(d) : d[i] = c[i]
  BY UnderNames, ChildNames
<1>2. Under(c, d)
  BY <1>1, UnderNames
<1>3. Under(p, d)
  BY <1>2, UnderFacts
<1>4. ASSUME NEW q \in Paths, NEW r \in Paths, Below(r, q), Below(r, c), Under(q, d)
      PROVE  Below(q, c)
  <2>1. /\ Len(q) \in Nat /\ Len(d) < Len(q)
        /\ Len(q) <= Len(r) /\ \A i \in 1..Len(q) : q[i] = r[i]
        /\ Len(c) <= Len(r) /\ \A i \in 1..Len(c) : c[i] = r[i]
    BY <1>4, UnderNames, BelowNames
  <2>2. Len(c) <= Len(q) /\ \A i \in 1..Len(c) : i \in 1..Len(q)
    BY <1>1, <2>1
  <2> QED  BY <2>1, <2>2, BelowNames
<1>5. ASSUME NEW q \in Paths, Below(c, q), Under(q, d)
      PROVE  q = c
  <2>1. Below(c, c)
    BY BelowItself
  <2>2. Below(q, c)
    BY <1>4, <1>5, <2>1
  <2> QED  BY <1>5, <2>2, UnderFacts
<1> QED  BY <1>2, <1>3, <1>4, <1>5

\* In a nested tree whatever is above an entry is a directory.
LEMMA AncestorsAreDirs ==
    ASSUME NEW tree, WellFormed(tree), NEW p \in Paths, NEW q \in Paths,
           tree[p] # Absent, Below(p, q), q # p
    PROVE  tree[q] = Dir
<1> DEFINE n == Len(p)
           Nested == {k \in 0..n : \A r \in Paths : Len(r) = k /\ tree[r] # Absent
                                      /\ Below(r, q) /\ q # r => tree[q] = Dir}
<1>1. n \in Nat
  BY PathIsSeq
<1>2. ASSUME NEW k \in 0..n, \A j \in 0..n : j < k => j \in Nested
      PROVE  k \in Nested
  <2> SUFFICES ASSUME NEW r \in Paths, Len(r) = k, tree[r] # Absent, Below(r, q), q # r
               PROVE  tree[q] = Dir
    OBVIOUS
  <2>1. Parent(r) # Root
    <3>1. ASSUME Parent(r) = Root PROVE FALSE
      <4>1. Root \in Directories /\ Under(q, Root)
        BY UnderFacts DEF Directories
      <4> QED  BY <3>1, <4>1, FirstOnTheWay, BelowItself
    <3> QED  BY <3>1
  <2>2. Parent(r) \in Paths /\ Below(Parent(r), q) /\ tree[Parent(r)] = Dir
    BY <2>1, AncestryOfParent DEF WellFormed
  <2>3. Len(Parent(r)) = k - 1 /\ k - 1 \in 0..n /\ k - 1 < k
    BY <1>1, ParentNames, PathIsSeq
  <2>4. CASE Parent(r) = q
    BY <2>2, <2>4
  <2>5. CASE Parent(r) # q
    <3>1. k - 1 \in Nested /\ tree[Parent(r)] # Absent
      BY <1>2, <2>2, <2>3, TreeAssumption
    <3> QED  BY <2>2, <2>3, <2>5, <3>1
  <2> QED  BY <2>4, <2>5
<1> HIDE DEF Nested
<1>3. 0..n \subseteq Nested
  BY <1>1, <1>2, SegmentInduction
<1>4. n \in Nested
  BY <1>1, <1>3
<1> QED  BY <1>4 DEF Nested

\* What a descent gives for a directory is decided by what it gives for the entries of
\* the directory, if directories nest no deeper than depth.
LEMMA DescentDecides ==
    ASSUME NEW depth \in Nat, \A p \in Paths : Len(p) <= depth, NEW f, NEW g,
           \A d \in Directories : (\A c \in Paths : Parent(c) = d => f[c] = g[c]) => f[d] = g[d]
    PROVE  \A d \in Directories : f[d] = g[d]
<1> DEFINE Decided == {n \in 0..depth : \A d \in Directories : Len(d) = depth - n => f[d] = g[d]}
<1>1. ASSUME NEW d \in Directories PROVE Len(d) \in 0..depth
  BY PathIsSeq DEF Directories, Root
<1>2. ASSUME NEW n \in 0..depth, \A k \in 0..depth : k < n => k \in Decided
      PROVE  n \in Decided
  <2> SUFFICES ASSUME NEW d \in Directories, Len(d) = depth - n PROVE f[d] = g[d]
    OBVIOUS
  <2>1. ASSUME NEW c \in Paths, Parent(c) = d PROVE f[c] = g[c]
    <3>1. Len(c) = Len(d) + 1 /\ Len(c) <= depth /\ c \in Directories
      BY <2>1, ChildNames DEF Directories
    <3>2. n - 1 \in 0..depth /\ n - 1 < n /\ Len(c) = depth - (n - 1)
      BY <3>1
    <3>3. n - 1 \in Decided
      BY <1>2, <3>2
    <3> QED  BY <3>1, <3>2, <3>3
  <2> QED  BY <2>1
<1> HIDE DEF Decided
<1>3. 0..depth \subseteq Decided
  BY <1>2, SegmentInduction
<1>4. ASSUME NEW d \in Directories PROVE f[d] = g[d]
  <2>1. depth - Len(d) \in 0..depth /\ Len(d) = depth - (depth - Len(d))
    BY <1>1
  <2>2. depth - Len(d) \in Decided
    BY <1>3, <2>1
  <2> QED  BY <2>1, <2>2 DEF Decided
<1> QED  BY <1>4

\* The entries a tree has in S.
EntriesIn(tree, S) == {<<p, tree[p]>> : p \in {q \in S : tree[q] # Absent}}
AllUnder(d) == {p \in Paths : Under(p, d)}
AllBelow(c) == {p \in Paths : Below(p, c)}
ChildrenOf(d) == {c \in Paths : Parent(c) = d}

\* The entries below d are those below its entries.
LEMMA EntriesByChild ==
    ASSUME NEW tree, NEW d \in Directories
    PROVE  EntriesIn(tree, AllUnder(d)) = UNION {EntriesIn(tree, AllBelow(c)) : c \in ChildrenOf(d)}
<1>1. ASSUME NEW p \in AllUnder(d) PROVE \E c \in ChildrenOf(d) : p \in AllBelow(c)
  BY <1>1, WayDown DEF AllUnder, AllBelow, ChildrenOf
<1>2. ASSUME NEW c \in ChildrenOf(d), NEW p \in AllBelow(c) PROVE p \in AllUnder(d)
  BY <1>2, FirstOnTheWay DEF AllUnder, AllBelow, ChildrenOf
<1> QED  BY <1>1, <1>2 DEF EntriesIn

\* What a full build makes of an entry on disk and of what is below it.
LEMMA FreshEntries ==
    ASSUME NEW skipped, NEW work \in Trees, WellFormed(work), NEW c \in Paths, work[c] # Absent
    PROVE  EntriesIn(Full(work, skipped), AllBelow(c))
               = IF work[c] = Dir THEN {<<c, Dir>>} \cup EntriesIn(Full(work, skipped), AllUnder(c))
                                  ELSE FileEntry(work, skipped, c)
<1> DEFINE full == Full(work, skipped)
<1>1. \A p \in Paths : full[p] = IF p \in Ignored \cup skipped /\ work[p] # Dir THEN Absent ELSE work[p]
  BY DEF Full
<1> HIDE DEF full
<1>2. \A p \in Paths : Below(p, c) <=> p = c \/ Under(p, c)
  BY UnderFacts, BelowItself DEF Directories
<1>3. CASE work[c] = Dir
  <2>1. full[c] = Dir /\ Dir # Absent
    BY <1>1, <1>3, TreeAssumption
  <2>2. AllBelow(c) = {c} \cup AllUnder(c)
    BY <1>2 DEF AllBelow, AllUnder
  <2>3. EntriesIn(full, AllBelow(c)) = {<<c, Dir>>} \cup EntriesIn(full, AllUnder(c))
    BY <2>1, <2>2 DEF EntriesIn
  <2> QED  BY <1>3, <2>3 DEF full
<1>4. CASE work[c] # Dir
  <2>1. ASSUME NEW p \in Paths, Below(p, c), full[p] # Absent PROVE p = c
    <3>1. work[p] # Absent
      BY <1>1, <2>1
    <3> QED  BY <1>4, <2>1, <3>1, AncestorsAreDirs
  <2>2. {q \in AllBelow(c) : full[q] # Absent} = {q \in {c} : full[q] # Absent}
    BY <2>1, BelowItself DEF AllBelow
  <2>3. CASE c \in Ignored \cup skipped
    <3>1. {q \in AllBelow(c) : full[q] # Absent} = {}
      BY <1>1, <1>4, <2>2, <2>3
    <3> QED  BY <1>4, <2>3, <3>1 DEF EntriesIn, FileEntry, full
  <2>4. CASE c \notin Ignored \cup skipped
    <3>1. {q \in AllBelow(c) : full[q] # Absent} = {c} /\ full[c] = work[c]
      BY <1>1, <2>2, <2>4
    <3> QED  BY <1>4, <2>4, <3>1 DEF EntriesIn, FileEntry, full
  <2> QED  BY <2>3, <2>4
<1> QED  BY <1>3, <1>4

LEMMA NothingBelowAbsent ==
    ASSUME NEW skipped, NEW work \in Trees, WellFormed(work), NEW c \in Paths, work[c] = Absent,
           NEW p \in Paths, Below(p, c)
    PROVE  Full(work, skipped)[p] = Absent
<1>1. work[p] = Absent
  BY AncestorsAreDirs, TreeAssumption
<1> QED  BY <1>1 DEF Full

\* One call of build_tree_from_workdir, with what the calls for the entries give.
FullLevel(work, skipped, built, d) ==
    UNION {IF work[p] = Dir THEN {<<p, Dir>>} \cup built[p] ELSE FileEntry(work, skipped, p) :
               p \in OnDisk(work, d)}

LEMMA FullIsALevel ==
    ASSUME NEW skipped, NEW work \in Trees, WellFormed(work), NEW built,
           built = [d \in Directories |-> EntriesIn(Full(work, skipped), AllUnder(d))],
           NEW d \in Directories
    PROVE  built[d] = FullLevel(work, skipped, built, d)
<1> DEFINE full == Full(work, skipped)
           Child(c) == IF work[c] = Dir THEN {<<c, Dir>>} \cup built[c] ELSE FileEntry(work, skipped, c)
<1>1. ASSUME NEW c \in OnDisk(work, d)
      PROVE  EntriesIn(full, AllBelow(c)) = Child(c)
  <2>1. c \in Paths /\ work[c] # Absent
    BY <1>1 DEF OnDisk
  <2>2. built[c] = EntriesIn(full, AllUnder(c))
    BY <2>1 DEF Directories
  <2> QED  BY <2>1, <2>2, FreshEntries
<1>2. ASSUME NEW c \in ChildrenOf(d), c \notin OnDisk(work, d)
      PROVE  EntriesIn(full, AllBelow(c)) = {}
  <2>1. c \in Paths /\ work[c] = Absent
    BY <1>2 DEF ChildrenOf, OnDisk
  <2>2. \A p \in AllBelow(c) : full[p] = Absent
    BY <2>1, NothingBelowAbsent DEF AllBelow
  <2> QED  BY <2>2 DEF EntriesIn
<1>3. OnDisk(work, d) \subseteq ChildrenOf(d)
  BY DEF OnDisk, ChildrenOf
<1>4. UNION {EntriesIn(full, AllBelow(c)) : c \in ChildrenOf(d)} = UNION {Child(c) : c \in OnDisk(work, d)}
  <2> HIDE DEF Child, full
  <2> QED  BY <1>1, <1>2, <1>3
<1>5. built[d] = EntriesIn(full, AllUnder(d))
  OBVIOUS
<1> QED  BY <1>4, <1>5, EntriesByChild DEF FullLevel

LEMMA DescentOfFull ==
    ASSUME NEW depth \in Nat, \A p \in Paths : Len(p) <= depth,
           NEW skipped, NEW work \in Trees, WellFormed(work), NEW d \in Directories
    PROVE  BuildFromWorkdir(work, skipped, d) = EntriesIn(Full(work, skipped), AllUnder(d))
<1> DEFINE found == [e \in Directories |-> EntriesIn(Full(work, skipped), AllUnder(e))]
           Def(f) == [e \in Directories |-> FullLevel(work, skipped, f, e)]
           built == CHOOSE f : f = Def(f)
<1>1. found = Def(found)
  <2>1. \A e \in Directories : found[e] = FullLevel(work, skipped, found, e)
    <3> DEFINE same == found
    <3>1. same = [e \in Directories |-> EntriesIn(Full(work, skipped), AllUnder(e))]
      OBVIOUS
    <3> HIDE DEF same
    <3>2. \A e \in Directories : same[e] = FullLevel(work, skipped, same, e)
      BY <3>1, FullIsALevel
    <3> QED  BY <3>2 DEF same
  <2>2. found = [e \in Directories |-> found[e]]
    OBVIOUS
  <2> HIDE DEF found
  <2> QED  BY <2>1, <2>2
<1>2. built = Def(built)
  <2> HIDE DEF Def, found
  <2> QED  BY <1>1
<1>3. BuildFromWorkdir(work, skipped, d) = built[d]
  BY DEF BuildFromWorkdir, FullLevel, Directories
<1> HIDE DEF built, found
<1>4. /\ \A e \in Directories : built[e] = FullLevel(work, skipped, built, e)
      /\ \A e \in Directories : found[e] = FullLevel(work, skipped, found, e)
  BY <1>1, <1>2
<1>5. ASSUME NEW e \in Directories, \A c \in Paths : Parent(c) = e => built[c] = found[c]
      PROVE  built[e] = found[e]
  <2>1. \A c \in OnDisk(work, e) : built[c] = found[c]
    BY <1>5 DEF OnDisk
  <2>2. FullLevel(work, skipped, built, e) = FullLevel(work, skipped, found, e)
    BY <2>1 DEF FullLevel
  <2> QED  BY <1>4, <2>2
<1>6. built[d] = found[d]
  BY <1>5, DescentDecides
<1> QED  BY <1>3, <1>6 DEF found

\* The listed paths below d, cut after the name they have in d.
LEMMA DirtyChildrenOf ==
    ASSUME NEW marked \in SUBSET Paths, NEW d \in Directories, NEW c \in Paths, Parent(c) = d
    PROVE  c \in DirtyChildren(marked, d) <=> DirtyChild(marked, c)
<1>1. DirtyChildren(marked, d)
          = {SubSeq(m, 1, Len(d) + 1) : m \in {q \in marked : Under(q, d)}}
  BY DEF DirtyChildren, Under
<1>2. ASSUME NEW m \in marked, Under(m, d), c = SubSeq(m, 1, Len(d) + 1) PROVE Below(m, c)
  BY <1>2, WayDown
<1>3. ASSUME NEW m \in marked, Below(m, c) PROVE Under(m, d) /\ c = SubSeq(m, 1, Len(d) + 1)
  <2>1. Under(m, d)
    BY <1>3, FirstOnTheWay
  <2> DEFINE b == SubSeq(m, 1, Len(d) + 1)
  <2>2. b \in Paths /\ Parent(b) = d /\ Below(m, b)
    BY <2>1, WayDown
  <2> HIDE DEF b
  <2>3. Under(b, d) /\ Under(c, d)
    BY <2>2, FirstOnTheWay, BelowItself
  <2>4. Below(b, c)
    BY <1>3, <2>2, <2>3, FirstOnTheWay
  <2>5. b = c
    BY <2>2, <2>3, <2>4, FirstOnTheWay, BelowItself
  <2> QED  BY <2>1, <2>5 DEF b
<1> QED  BY <1>1, <1>2, <1>3 DEF DirtyChild

\* What the incremental builder, called for d, makes of what is below it.
ReusedFrom(prev, work, marked, d, q) ==
    /\ \A a \in Ancestry[q] \ {q} :
           Under(a, d) => DirtyChild(marked, a) /\ prev[a] = Dir /\ work[a] = Dir
    /\ ~DirtyChild(marked, q)
    /\ SameKind(prev, work, q)
IncrementalFrom(prev, work, marked, skipped, d) ==
    [p \in Paths |-> IF \E q \in Ancestry[p] : Under(q, d) /\ ReusedFrom(prev, work, marked, d, q)
                       THEN prev[p]
                       ELSE Full(work, skipped)[p]]

LEMMA IncrementalFromRoot ==
    ASSUME NEW prev, NEW work, NEW marked, NEW skipped
    PROVE  IncrementalFrom(prev, work, marked, skipped, Root) = Incremental(prev, work, marked, skipped)
<1>1. \A q \in Paths : ReusedFrom(prev, work, marked, Root, q) <=> Reused(prev, work, marked, q)
  <2>1. ASSUME NEW q \in Paths, NEW a \in Ancestry[q] PROVE Under(a, Root)
    BY <2>1, UnderFacts DEF Ancestry, Directories
  <2> QED  BY <2>1 DEF ReusedFrom, Reused, Descends
<1>2. \A p \in Paths : \A q \in Ancestry[p] : q \in Paths /\ Under(q, Root)
  BY UnderFacts DEF Ancestry, Directories
<1> QED  BY <1>1, <1>2 DEF IncrementalFrom, Incremental

\* What the builder, called for d, makes of p, on or below the entry c of d: all of the
\* previous tree, the result of the call for c, or all of the working tree.
ByEntry(prev, work, marked, skipped, d, c, p) ==
    LET entry == IncrementalFrom(prev, work, marked, skipped, d)[p]
        listed == DirtyChild(marked, c)
        same == SameKind(prev, work, c)
        dirs == prev[c] = Dir /\ work[c] = Dir
    IN  /\ ~listed /\ same => entry = prev[p]
        /\ listed /\ dirs =>
               entry = IF p = c THEN Dir ELSE IncrementalFrom(prev, work, marked, skipped, c)[p]
        /\ ((~listed /\ ~same) \/ (listed /\ ~dirs)) => entry = Full(work, skipped)[p]

LEMMA BelowTheEntry ==
    ASSUME NEW prev, NEW skipped, NEW work \in Trees, WellFormed(work), NEW marked \in SUBSET Paths,
           NEW d \in Directories, NEW c \in Paths, Parent(c) = d,
           NEW p \in Paths, Below(p, c)
    PROVE  ByEntry(prev, work, marked, skipped, d, c, p)
<1> DEFINE From(e, q) == ReusedFrom(prev, work, marked, e, q)
<1>1. /\ Under(c, d) /\ Under(p, d) /\ c \in Directories
      /\ \A q \in Paths : Below(p, q) /\ Under(q, d) => Below(q, c)
      /\ \A q \in Paths : Below(c, q) /\ Under(q, d) => q = c
  BY FirstOnTheWay DEF Directories
<1>2. \A q, r \in Paths : q \in Ancestry[r] <=> Below(r, q)
  BY DEF Below
<1>3. \A q, r \in Paths : Under(r, q) <=> Below(r, q) /\ r # q
  BY UnderFacts
<1>4. From(d, c) <=> ~DirtyChild(marked, c) /\ SameKind(prev, work, c)
  <2>1. \A a \in Ancestry[c] \ {c} : ~Under(a, d)
    BY <1>1, <1>2 DEF Ancestry
  <2> QED  BY <2>1 DEF ReusedFrom
<1>5. ASSUME NEW q \in Paths, Below(q, c), q # c
      PROVE  From(d, q) <=> DirtyChild(marked, c) /\ prev[c] = Dir /\ work[c] = Dir /\ From(c, q)
  <2>1. c \in Ancestry[q] \ {q}
    BY <1>2, <1>5
  <2>2. ASSUME NEW a \in Ancestry[q] \ {q}
        PROVE  Under(a, d) <=> a = c \/ Under(a, c)
    <3>1. a \in Paths /\ Below(q, a)
      BY <2>2 DEF Below, Ancestry
    <3>2. Under(a, c) => Under(a, d)
      BY <1>1, <1>3, <3>1, UnderFacts
    <3>3. Under(a, d) => Below(a, c)
      BY <1>5, <3>1, FirstOnTheWay
    <3> QED  BY <1>1, <1>3, <3>1, <3>2, <3>3
  <2>3. ~Under(c, c)
    BY <1>3
  <2> QED  BY <2>1, <2>2, <2>3 DEF ReusedFrom
<1>6. ASSUME NEW e \in Directories
      PROVE  IncrementalFrom(prev, work, marked, skipped, e)[p] =
                 IF \E q \in Paths : Below(p, q) /\ Under(q, e) /\ From(e, q)
                   THEN prev[p] ELSE Full(work, skipped)[p]
  <2>1. \A q : q \in Ancestry[p] <=> q \in Paths /\ Below(p, q)
    BY DEF Below, Ancestry
  <2> HIDE DEF From
  <2> QED  BY <2>1 DEF IncrementalFrom, From
<1> HIDE DEF From
<1>7. CASE ~DirtyChild(marked, c) /\ SameKind(prev, work, c)
  BY <1>1, <1>4, <1>6, <1>7 DEF ByEntry
<1>8. CASE DirtyChild(marked, c) /\ prev[c] = Dir /\ work[c] = Dir
  <2>1. ~From(d, c)
    BY <1>4, <1>8
  <2>2. (\E q \in Paths : Below(p, q) /\ Under(q, d) /\ From(d, q))
            <=> \E q \in Paths : Below(p, q) /\ Under(q, c) /\ From(c, q)
    <3>1. ASSUME NEW q \in Paths, Below(p, q), Under(q, d), From(d, q)
          PROVE  Under(q, c) /\ From(c, q)
      BY <1>1, <1>3, <1>5, <2>1, <3>1
    <3>2. ASSUME NEW q \in Paths, Below(p, q), Under(q, c), From(c, q)
          PROVE  Under(q, d) /\ From(d, q)
      BY <1>1, <1>3, <1>5, <1>8, <3>2, UnderFacts
    <3> QED  BY <3>1, <3>2
  <2>3. CASE p = c
    <3>1. ~\E q \in Paths : Below(p, q) /\ Under(q, c) /\ From(c, q)
      BY <1>3, <2>3, UnderFacts
    <3>2. Full(work, skipped)[c] = Dir
      BY <1>8 DEF Full
    <3> QED  BY <1>1, <1>6, <1>8, <2>2, <2>3, <3>1, <3>2 DEF ByEntry
  <2>4. CASE p # c
    BY <1>1, <1>6, <1>8, <2>2, <2>4 DEF ByEntry
  <2> QED  BY <2>3, <2>4
<1>9. CASE \/ ~DirtyChild(marked, c) /\ ~SameKind(prev, work, c)
           \/ DirtyChild(marked, c) /\ ~(prev[c] = Dir /\ work[c] = Dir)
  <2>1. ASSUME NEW q \in Paths, Below(p, q), Under(q, d) PROVE ~From(d, q)
    BY <1>1, <1>4, <1>5, <1>9, <2>1
  <2>2. IncrementalFrom(prev, work, marked, skipped, d)[p] = Full(work, skipped)[p]
    BY <1>1, <1>6, <2>1 DEF Directories
  <2> QED  BY <1>9, <2>2 DEF ByEntry
<1> QED  BY <1>7, <1>8, <1>9

\* One call of build_tree_incremental, with what the calls for the entries give.
IncrementalLevel(prev, work, marked, skipped, built, d) ==
    UNION {IF p \notin DirtyChildren(marked, d)
             THEN IF prev[p] # Absent /\ (prev[p] = Dir) = (work[p] = Dir)
                    THEN {e \in Entries(prev) : Below(e[1], p)}
                    ELSE IF work[p] = Dir
                           THEN {<<p, Dir>>} \cup BuildFromWorkdir(work, skipped, p)
                           ELSE FileEntry(work, skipped, p)
             ELSE IF work[p] = Dir /\ prev[p] = Dir
                    THEN {<<p, Dir>>} \cup built[p]
                    ELSE IF work[p] = Dir
                           THEN {<<p, Dir>>} \cup BuildFromWorkdir(work, skipped, p)
                           ELSE FileEntry(work, skipped, p) : p \in OnDisk(work, d)}

LEMMA SameEntries ==
    ASSUME NEW t, NEW u, NEW S, \A p \in S : t[p] = u[p]
    PROVE  EntriesIn(t, S) = EntriesIn(u, S)
BY DEF EntriesIn

LEMMA SubtreeEntries ==
    ASSUME NEW prev, NEW c \in Paths
    PROVE  {e \in Entries(prev) : Below(e[1], c)} = EntriesIn(prev, AllBelow(c))
BY DEF Entries, EntriesIn, AllBelow

LEMMA IncrementalIsALevel ==
    ASSUME NEW depth \in Nat, \A p \in Paths : Len(p) <= depth,
           NEW prev, NEW skipped, NEW work \in Trees, WellFormed(work), NEW marked \in SUBSET Paths, NEW built,
           built = [d \in Directories |->
                       EntriesIn(IncrementalFrom(prev, work, marked, skipped, d), AllUnder(d))],
           NEW d \in Directories
    PROVE  built[d] = IncrementalLevel(prev, work, marked, skipped, built, d)
<1> DEFINE From(e) == IncrementalFrom(prev, work, marked, skipped, e)
           Fresh(c) == IF work[c] = Dir THEN {<<c, Dir>>} \cup BuildFromWorkdir(work, skipped, c)
                                        ELSE FileEntry(work, skipped, c)
           Child(c) ==
               IF c \notin DirtyChildren(marked, d)
                 THEN IF prev[c] # Absent /\ (prev[c] = Dir) = (work[c] = Dir)
                        THEN {e \in Entries(prev) : Below(e[1], c)}
                        ELSE Fresh(c)
                 ELSE IF work[c] = Dir /\ prev[c] = Dir
                        THEN {<<c, Dir>>} \cup built[c]
                        ELSE Fresh(c)
<1>1. ASSUME NEW c \in OnDisk(work, d)
      PROVE  EntriesIn(From(d), AllBelow(c)) = Child(c)
  <2>1. c \in Paths /\ Parent(c) = d /\ work[c] # Absent /\ c \in Directories
    BY <1>1 DEF OnDisk, Directories
  <2>2. c \in DirtyChildren(marked, d) <=> DirtyChild(marked, c)
    BY <2>1, DirtyChildrenOf
  <2>3. SameKind(prev, work, c) <=> prev[c] # Absent /\ (prev[c] = Dir) = (work[c] = Dir)
    BY <2>1 DEF SameKind
  <2>4. built[c] = EntriesIn(From(c), AllUnder(c))
    BY <2>1
  <2>5. Fresh(c) = EntriesIn(Full(work, skipped), AllBelow(c))
    BY <2>1, FreshEntries, DescentOfFull
  <2> DEFINE Listed == DirtyChild(marked, c)
             Same == SameKind(prev, work, c)
             BothDirs == prev[c] = Dir /\ work[c] = Dir
  <2>6. ASSUME NEW p \in AllBelow(c)
        PROVE  /\ ~Listed /\ Same => From(d)[p] = prev[p]
               /\ Listed /\ BothDirs => From(d)[p] = IF p = c THEN Dir ELSE From(c)[p]
               /\ (~Listed /\ ~Same) \/ (Listed /\ ~BothDirs) => From(d)[p] = Full(work, skipped)[p]
    <3>1. p \in Paths /\ Below(p, c)
      BY DEF AllBelow
    <3>2. ByEntry(prev, work, marked, skipped, d, c, p)
      BY <2>1, <3>1, BelowTheEntry
    <3> QED  BY <3>2 DEF ByEntry
  <2> HIDE DEF From, Fresh, Listed, Same
  <2>7. CASE ~Listed /\ Same
    <3>1. \A p \in AllBelow(c) : From(d)[p] = prev[p]
      BY <2>6, <2>7
    <3>2. EntriesIn(From(d), AllBelow(c)) = EntriesIn(prev, AllBelow(c))
      BY <3>1, SameEntries
    <3> QED  BY <2>1, <2>2, <2>3, <2>7, <3>2, SubtreeEntries DEF Listed, Same
  <2>8. CASE Listed /\ BothDirs
    <3>1. \A p \in AllBelow(c) : From(d)[p] = IF p = c THEN Dir ELSE From(c)[p]
      BY <2>6, <2>8
    <3>2. AllBelow(c) = {c} \cup AllUnder(c) /\ c \notin AllUnder(c)
      BY <2>1, UnderFacts, BelowItself DEF AllBelow, AllUnder
    <3>3. Dir # Absent
      BY TreeAssumption
    <3>4. EntriesIn(From(d), AllBelow(c)) = {<<c, Dir>>} \cup EntriesIn(From(c), AllUnder(c))
      BY <3>1, <3>2, <3>3 DEF EntriesIn
    <3> QED  BY <2>2, <2>4, <2>8, <3>4 DEF Listed
  <2>9. CASE (~Listed /\ ~Same) \/ (Listed /\ ~BothDirs)
    <3>1. \A p \in AllBelow(c) : From(d)[p] = Full(work, skipped)[p]
      BY <2>6, <2>9
    <3>2. EntriesIn(From(d), AllBelow(c)) = EntriesIn(Full(work, skipped), AllBelow(c))
      BY <3>1, SameEntries
    <3> QED  BY <2>2, <2>3, <2>5, <2>9, <3>2 DEF Listed, Same, Fresh
  <2> QED  BY <2>7, <2>8, <2>9
<1>2. ASSUME NEW c \in ChildrenOf(d), c \notin OnDisk(work, d)
      PROVE  EntriesIn(From(d), AllBelow(c)) = {}
  <2>1. c \in Paths /\ Parent(c) = d /\ work[c] = Absent
    BY <1>2 DEF ChildrenOf, OnDisk
  <2>2. ~SameKind(prev, work, c) /\ work[c] # Dir
    BY <2>1, TreeAssumption DEF SameKind
  <2>3. ASSUME NEW p \in AllBelow(c)
        PROVE  From(d)[p] = Full(work, skipped)[p] /\ Full(work, skipped)[p] = Absent
    <3>1. p \in Paths /\ Below(p, c)
      BY DEF AllBelow
    <3>2. ByEntry(prev, work, marked, skipped, d, c, p)
      BY <2>1, <3>1, BelowTheEntry
    <3>3. From(d)[p] = Full(work, skipped)[p]
      BY <2>2, <3>2 DEF ByEntry
    <3> QED  BY <2>1, <3>1, <3>3, NothingBelowAbsent
  <2> HIDE DEF From
  <2> QED  BY <2>3 DEF EntriesIn
<1>3. OnDisk(work, d) \subseteq ChildrenOf(d)
  BY DEF OnDisk, ChildrenOf
<1>4. UNION {EntriesIn(From(d), AllBelow(c)) : c \in ChildrenOf(d)} = UNION {Child(c) : c \in OnDisk(work, d)}
  <2> HIDE DEF Child, From
  <2> QED  BY <1>1, <1>2, <1>3
<1>5. built[d] = EntriesIn(From(d), AllUnder(d))
  OBVIOUS
<1> HIDE DEF From
<1> QED  BY <1>4, <1>5, EntriesByChild DEF IncrementalLevel

LEMMA DescentOfIncremental ==
    ASSUME NEW depth \in Nat, \A p \in Paths : Len(p) <= depth,
           NEW prev, NEW skipped, NEW work \in Trees, WellFormed(work), NEW marked \in SUBSET Paths,
           NEW d \in Directories
    PROVE  BuildIncremental(prev, work, marked, skipped, d)
               = EntriesIn(IncrementalFrom(prev, work, marked, skipped, d), AllUnder(d))
<1> DEFINE found == [e \in Directories |->
                        EntriesIn(IncrementalFrom(prev, work, marked, skipped, e), AllUnder(e))]
           Def(f) == [e \in Directories |-> IncrementalLevel(prev, work, marked, skipped, f, e)]
           built == CHOOSE f : f = Def(f)
<1>1. found = Def(found)
  <2>1. \A e \in Directories : found[e] = IncrementalLevel(prev, work, marked, skipped, found, e)
    <3> DEFINE same == found
    <3>1. same = [e \in Directories |->
                     EntriesIn(IncrementalFrom(prev, work, marked, skipped, e), AllUnder(e))]
      OBVIOUS
    <3> HIDE DEF same
    <3>2. \A e \in Directories : same[e] = IncrementalLevel(prev, work, marked, skipped, same, e)
      BY <3>1, IncrementalIsALevel
    <3> QED  BY <3>2 DEF same
  <2>2. found = [e \in Directories |-> found[e]]
    OBVIOUS
  <2> HIDE DEF found
  <2> QED  BY <2>1, <2>2
<1>2. built = Def(built)
  <2> HIDE DEF Def, found
  <2> QED  BY <1>1
<1>3. BuildIncremental(prev, work, marked, skipped, d) = built[d]
  BY DEF BuildIncremental, IncrementalLevel, Directories
<1> HIDE DEF built, found
<1>4. /\ \A e \in Directories : built[e] = IncrementalLevel(prev, work, marked, skipped, built, e)
      /\ \A e \in Directories : found[e] = IncrementalLevel(prev, work, marked, skipped, found, e)
  BY <1>1, <1>2
<1>5. ASSUME NEW e \in Directories, \A c \in Paths : Parent(c) = e => built[c] = found[c]
      PROVE  built[e] = found[e]
  <2>1. \A c \in OnDisk(work, e) : built[c] = found[c]
    BY <1>5 DEF OnDisk
  <2>2. IncrementalLevel(prev, work, marked, skipped, built, e)
            = IncrementalLevel(prev, work, marked, skipped, found, e)
    BY <2>1 DEF IncrementalLevel
  <2> QED  BY <1>4, <2>2
<1>6. built[d] = found[d]
  BY <1>5, DescentDecides
<1> QED  BY <1>3, <1>6 DEF found

\* The two builders, called for one directory after the other as the code writes them,
\* return the trees that Full and Incremental give at once, whatever the previous tree
\* and the listed paths, on any nested working tree (git.rs:1106-1464).
THEOREM DescentsGiveTheTrees ==
    ASSUME NEW depth \in Nat, \A p \in Paths : Len(p) <= depth,
           NEW prev, NEW skipped, NEW work \in Trees, WellFormed(work), NEW marked \in SUBSET Paths
    PROVE  /\ BuildFromWorkdir(work, skipped, Root) = Entries(Full(work, skipped))
           /\ BuildIncremental(prev, work, marked, skipped, Root) = Entries(Incremental(prev, work, marked, skipped))
<1>1. Root \in Directories
  BY DEF Directories
<1>2. AllUnder(Root) = Paths
  BY UnderFacts, <1>1 DEF AllUnder
<1>3. \A tree : Entries(tree) = EntriesIn(tree, Paths)
  BY DEF Entries, EntriesIn
<1>4. BuildFromWorkdir(work, skipped, Root) = EntriesIn(Full(work, skipped), Paths)
  BY <1>1, <1>2, DescentOfFull
<1>5. BuildIncremental(prev, work, marked, skipped, Root)
          = EntriesIn(Incremental(prev, work, marked, skipped), Paths)
  BY <1>1, <1>2, DescentOfIncremental, IncrementalFromRoot
<1> QED  BY <1>3, <1>4, <1>5

\* In every state of GitBackend with one caller a commit that descends the directories
\* writes the tree that the model commits, for whatever list of dirty paths.
THEOREM DescentsAgree ==
    ASSUME NEW depth \in Nat, \A p \in Paths : Len(p) <= depth
    PROVE  TreeSpec => []DescentAgrees
<1>1. TreeInv => DescentAgrees
  <2> SUFFICES ASSUME TreeInv PROVE DescentAgrees
    OBVIOUS
  <2>1. Work \in Trees /\ WellFormed(Work)
    BY WorkIsTree DEF TreeInv, TreeTypeOK, Work
  <2> HIDE DEF TreeInv
  <2> QED  BY <2>1, DescentsGiveTheTrees DEF DescentAgrees
<1> QED  BY <1>1, TreeInvariance, PTL
=============================================================================
