-------------------------- MODULE BackendOpsProofs --------------------------
(***************************************************************************)
(* What the tree builders of TreeBuild return, for every set of paths, every  *)
(* previous tree, every working tree and every list of dirty paths; and what  *)
(* the changes of the working tree in BackendOps keep: the types, the         *)
(* nesting of directories, the files they are not about.                     *)
(***************************************************************************)
EXTENDS BackendOps, SequenceTheorems, TLAPS

-----------------------------------------------------------------------------
(* Paths                                                                    *)

LEMMA PathIsSeq ==
    ASSUME NEW p \in Paths
    PROVE  p \in Seq(STRING) /\ Len(p) \in Nat \ {0} /\ p # <<>>
BY TreeAssumption, EmptySeq

\* A prefix agrees with the longer path name by name.
LEMMA PrefixNames ==
    ASSUME NEW q \in Seq(STRING), NEW p \in Seq(STRING)
    PROVE  IsPrefix(q, p) <=> Len(q) <= Len(p) /\ \A i \in 1..Len(q) : q[i] = p[i]
<1>1. Len(q) \in Nat /\ Len(p) \in Nat
  OBVIOUS
<1>2. CASE Len(q) <= Len(p)
  <2>1. \A i \in 1..Len(q) : q[i] \in STRING /\ p[i] \in STRING
    BY <1>1, <1>2
  <2>2. /\ SubSeq(q, 1, Len(q)) \in Seq(STRING)
        /\ Len(SubSeq(q, 1, Len(q))) = Len(q)
        /\ \A i \in 1..Len(q) : SubSeq(q, 1, Len(q))[i] = q[i]
    BY <1>1, <2>1, SubSeqFull
  <2>3. /\ SubSeq(p, 1, Len(q)) \in Seq(STRING)
        /\ Len(SubSeq(p, 1, Len(q))) = Len(q)
        /\ \A i \in 1..Len(q) : SubSeq(p, 1, Len(q))[i] = p[i]
    BY <1>1, <1>2, <2>1
  <2>4. SubSeq(q, 1, Len(q)) = SubSeq(p, 1, Len(q))
            <=> \A i \in 1..Len(q) : SubSeq(q, 1, Len(q))[i] = SubSeq(p, 1, Len(q))[i]
    BY <2>2, <2>3, SeqEqual
  <2> QED
    BY <1>2, <2>2, <2>3, <2>4 DEF IsPrefix
<1>3. CASE ~(Len(q) <= Len(p))
  BY <1>3 DEF IsPrefix
<1> QED
  BY <1>2, <1>3

LEMMA BelowItself ==
    ASSUME NEW p \in Paths
    PROVE  Below(p, p)
BY PathIsSeq, PrefixNames DEF Below, Ancestry

LEMMA BelowTransitive ==
    ASSUME NEW p \in Paths, NEW q \in Paths, NEW r \in Paths, Below(p, q), Below(q, r)
    PROVE  Below(p, r)
<1>1. IsPrefix(q, p) /\ IsPrefix(r, q)
  BY DEF Below, Ancestry
<1>2. /\ Len(q) <= Len(p) /\ \A i \in 1..Len(q) : q[i] = p[i]
      /\ Len(r) <= Len(q) /\ \A i \in 1..Len(r) : r[i] = q[i]
  BY <1>1, PathIsSeq, PrefixNames
<1>3. Len(r) <= Len(p) /\ \A i \in 1..Len(r) : r[i] = p[i]
  BY <1>2, PathIsSeq
<1> QED
  BY <1>3, PathIsSeq, PrefixNames DEF Below, Ancestry

LEMMA ParentNames ==
    ASSUME NEW s \in Seq(STRING), Len(s) \in Nat \ {0}
    PROVE  /\ Parent(s) \in Seq(STRING)
           /\ Len(Parent(s)) = Len(s) - 1
           /\ \A i \in 1..(Len(s) - 1) : Parent(s)[i] = s[i]
<1> DEFINE n == Len(s) - 1
<1>1. n \in Int /\ n >= 0 /\ \A i \in 1..n : s[i] \in STRING
  OBVIOUS
<1>2. /\ SubSeq(s, 1, n) \in Seq(STRING)
      /\ Len(SubSeq(s, 1, n)) = IF 1 <= n THEN n - 1 + 1 ELSE 0
      /\ \A i \in 1..(n - 1 + 1) : SubSeq(s, 1, n)[i] = s[1 + i - 1]
  <2> HIDE DEF n
  <2> QED
    BY <1>1, SubSeqProperties
<1>3. n - 1 + 1 = n /\ \A i \in 1..n : 1 + i - 1 = i
  BY <1>1
<1> QED
  BY <1>1, <1>2, <1>3 DEF Parent

\* What a path has above it is its parent and what its parent has above it.
LEMMA AncestryOfParent ==
    ASSUME NEW p \in Paths, Parent(p) # Root
    PROVE  /\ Parent(p) \in Paths /\ Parent(p) # p
           /\ \A q \in Paths : Below(p, q) <=> q = p \/ Below(Parent(p), q)
<1> DEFINE n == Len(p) - 1
<1>1. p \in Seq(STRING) /\ Len(p) \in Nat \ {0}
  BY PathIsSeq
<1>2. n \in 1..Len(p)
  <2>1. SubSeq(p, 1, 0) = <<>>
    BY SubSeqEmpty
  <2> QED
    BY <1>1, <2>1 DEF Parent, Root
<1>3. Parent(p) \in Paths
  BY <1>2, TreeAssumption DEF Parent
<1>4. /\ Parent(p) \in Seq(STRING)
      /\ Len(Parent(p)) = n
      /\ \A i \in 1..n : Parent(p)[i] = p[i]
  BY <1>1, <1>2, <1>3, PathIsSeq DEF Parent
<1>5. ASSUME NEW q \in Paths
      PROVE  Below(p, q) <=> q = p \/ Below(Parent(p), q)
  <2>1. q \in Seq(STRING) /\ Len(q) \in Nat
    BY PathIsSeq
  <2>2. Below(p, q) <=> Len(q) <= Len(p) /\ \A i \in 1..Len(q) : q[i] = p[i]
    BY <1>1, <2>1, PrefixNames DEF Below, Ancestry
  <2>3. Below(Parent(p), q) <=> Len(q) <= n /\ \A i \in 1..Len(q) : q[i] = Parent(p)[i]
    BY <1>3, <1>4, <2>1, PrefixNames DEF Below, Ancestry
  <2>4. q = p <=> Len(q) = Len(p) /\ \A i \in 1..Len(q) : q[i] = p[i]
    BY <1>1, <2>1, SeqEqual
  <2>5. CASE Len(q) <= n
    <3>1. \A i \in 1..Len(q) : p[i] = Parent(p)[i]
      BY <1>1, <1>4, <2>1, <2>5
    <3> QED
      BY <1>1, <2>1, <2>2, <2>3, <2>4, <2>5, <3>1
  <2>6. CASE Len(q) = Len(p)
    BY <1>1, <2>1, <2>2, <2>3, <2>4, <2>6
  <2>7. CASE Len(q) > Len(p)
    BY <1>1, <2>1, <2>2, <2>3, <2>4, <2>7
  <2> QED
    BY <1>1, <2>1, <2>5, <2>6, <2>7
<1> QED
  BY <1>1, <1>3, <1>4, <1>5

LEMMA ParentNotBelow ==
    ASSUME NEW p \in Paths, Parent(p) # Root
    PROVE  ~Below(Parent(p), p)
<1>1. p \in Seq(STRING) /\ Len(p) \in Nat \ {0} /\ Parent(p) \in Paths
  BY PathIsSeq, AncestryOfParent
<1>2. Parent(p) \in Seq(STRING) /\ Len(Parent(p)) = Len(p) - 1
  BY <1>1, ParentNames
<1> QED
  BY <1>1, <1>2, PrefixNames DEF Below, Ancestry
-----------------------------------------------------------------------------
(* The builders                                                             *)

LEMMA FullIsTree ==
    ASSUME NEW work \in Trees, NEW skipped
    PROVE  Full(work, skipped) \in Trees
BY DEF Full, Trees, Nodes

\* Whatever is listed, an entry of the incremental tree is the entry of the
\* previous tree or the entry a full build gives (git.rs:1223-1392).
THEOREM IncrementalPicks ==
    ASSUME NEW prev, NEW work, NEW marked, NEW skipped, NEW p \in Paths
    PROVE  Incremental(prev, work, marked, skipped)[p] \in {prev[p], Full(work, skipped)[p]}
BY DEF Incremental

LEMMA IncrementalIsTree ==
    ASSUME NEW prev \in Trees, NEW work \in Trees, NEW marked, NEW skipped
    PROVE  Incremental(prev, work, marked, skipped) \in Trees
<1>1. \A p \in Paths : prev[p] \in Nodes /\ Full(work, skipped)[p] \in Nodes
  BY FullIsTree DEF Trees
<1>2. \A p \in Paths : Incremental(prev, work, marked, skipped)[p] \in Nodes
  BY <1>1, IncrementalPicks
<1>3. Incremental(prev, work, marked, skipped) = [p \in Paths |-> Incremental(prev, work, marked, skipped)[p]]
  BY Zenon DEF Incremental
<1> QED
  BY <1>2, <1>3 DEF Trees

\* A listed path is read from the working tree, and so is every directory on
\* the way to it: nothing above it is reused (git.rs:1264-1330).
THEOREM MarkedIsFresh ==
    ASSUME NEW prev, NEW work, NEW marked \in SUBSET Paths, NEW skipped, NEW p \in Paths,
           DirtyChild(marked, p)
    PROVE  Incremental(prev, work, marked, skipped)[p] = Full(work, skipped)[p]
<1>1. PICK m \in marked : Below(m, p)
  BY DEF DirtyChild
<1>2. ASSUME NEW q \in Ancestry[p]
      PROVE  ~Reused(prev, work, marked, q)
  <2>1. q \in Paths /\ Below(p, q)
    BY <1>2 DEF Below, Ancestry
  <2>2. Below(m, q)
    BY <1>1, <2>1, BelowTransitive
  <2> QED
    BY <2>2 DEF Reused, DirtyChild
<1> QED
  BY <1>2 DEF Incremental

\* The incremental build gives the tree of a full build as soon as every path
\* whose entry is out of date is listed, or has a listed path below it.
THEOREM IncrementalIsFull ==
    ASSUME NEW prev, NEW work, NEW marked \in SUBSET Paths, NEW skipped,
           \A p \in Paths : prev[p] # Full(work, skipped)[p] => DirtyChild(marked, p)
    PROVE  Incremental(prev, work, marked, skipped) = Full(work, skipped)
<1>1. ASSUME NEW p \in Paths
      PROVE  Incremental(prev, work, marked, skipped)[p] = Full(work, skipped)[p]
  <2>1. CASE prev[p] = Full(work, skipped)[p]
    BY <2>1, IncrementalPicks
  <2>2. CASE prev[p] # Full(work, skipped)[p]
    BY <2>2, MarkedIsFresh
  <2> QED
    BY <2>1, <2>2
<1>2. /\ Incremental(prev, work, marked, skipped) = [p \in Paths |-> Incremental(prev, work, marked, skipped)[p]]
      /\ Full(work, skipped) = [p \in Paths |-> Full(work, skipped)[p]]
  BY Zenon DEF Incremental, Full
<1> QED
  BY <1>1, <1>2

\* Neither builder leaves an entry without the directory it is in: a subtree
\* taken from the previous tree is taken whole, below directories that are on
\* disk and are built anew.
THEOREM BuildersNest ==
    ASSUME NEW prev, NEW work \in Trees, NEW marked, NEW skipped,
           WellFormed(prev), WellFormed(work)
    PROVE  WellFormed(Full(work, skipped)) /\ WellFormed(Incremental(prev, work, marked, skipped))
<1> SUFFICES ASSUME NEW p \in Paths, Parent(p) # Root
             PROVE  /\ Full(work, skipped)[p] # Absent => Full(work, skipped)[Parent(p)] = Dir
                    /\ Incremental(prev, work, marked, skipped)[p] # Absent
                           => Incremental(prev, work, marked, skipped)[Parent(p)] = Dir
  BY DEF WellFormed
<1>1. /\ Parent(p) \in Paths /\ Parent(p) # p
      /\ \A q \in Paths : Below(p, q) <=> q = p \/ Below(Parent(p), q)
  BY AncestryOfParent
<1>2. /\ work[p] # Absent => work[Parent(p)] = Dir
      /\ prev[p] # Absent => prev[Parent(p)] = Dir
  BY DEF WellFormed
<1>3. Full(work, skipped)[p] # Absent => Full(work, skipped)[Parent(p)] = Dir
  BY <1>1, <1>2 DEF Full
<1>4. Below(Parent(p), Parent(p))
  BY <1>1, BelowItself
<1>5. CASE \E q \in Ancestry[Parent(p)] : Reused(prev, work, marked, q)
  <2>1. PICK q \in Ancestry[Parent(p)] : Reused(prev, work, marked, q)
    BY <1>5
  <2>2. q \in Ancestry[p]
    BY <1>1, <2>1 DEF Below, Ancestry
  <2>3. /\ Incremental(prev, work, marked, skipped)[p] = prev[p]
        /\ Incremental(prev, work, marked, skipped)[Parent(p)] = prev[Parent(p)]
    BY <1>1, <2>1, <2>2 DEF Incremental
  <2> QED
    BY <1>2, <1>3, <2>3
<1>6. CASE ~\E q \in Ancestry[Parent(p)] : Reused(prev, work, marked, q)
  <2>1. Incremental(prev, work, marked, skipped)[Parent(p)] = Full(work, skipped)[Parent(p)]
    BY <1>1, <1>6 DEF Incremental
  <2>2. CASE Reused(prev, work, marked, p)
    <3>1. Parent(p) \in Ancestry[p] \ {p}
      BY <1>1, <1>4 DEF Below
    <3>2. work[Parent(p)] = Dir
      BY <2>2, <3>1 DEF Reused, Descends
    <3>3. Full(work, skipped)[Parent(p)] = Dir
      BY <1>1, <3>2 DEF Full
    <3> QED
      BY <1>3, <2>1, <3>3
  <2>3. CASE ~Reused(prev, work, marked, p)
    <3>1. \A q \in Ancestry[p] : q = p \/ q \in Ancestry[Parent(p)]
      <4> SUFFICES ASSUME NEW q \in Ancestry[p]
                   PROVE  q = p \/ q \in Ancestry[Parent(p)]
        OBVIOUS
      <4>1. q \in Paths
        BY DEF Ancestry
      <4> QED
        BY <1>1, <4>1 DEF Below
    <3>2. Incremental(prev, work, marked, skipped)[p] = Full(work, skipped)[p]
      BY <1>6, <2>3, <3>1 DEF Incremental
    <3> QED
      BY <1>3, <2>1, <3>2
  <2> QED
    BY <2>2, <2>3
<1> QED
  BY <1>5, <1>6
-----------------------------------------------------------------------------
(* The working tree                                                         *)

LEMMA WorkIsTree ==
    ASSUME NEW nd \in [Paths -> Files \cup {Absent, Dir}], NEW dt \in [Files -> Contents],
           WellFormed(nd), NEW work,
           work = [p \in Paths |-> IF nd[p] \in Files THEN dt[nd[p]] ELSE nd[p]]
    PROVE  work \in Trees /\ WellFormed(work)
<1>1. /\ work \in Trees
      /\ \A p \in Paths : /\ work[p] = Absent <=> nd[p] = Absent
                          /\ work[p] = Dir <=> nd[p] = Dir
  BY TreeAssumption, BackendAssumption DEF Trees, Nodes
<1> SUFFICES ASSUME NEW p \in Paths, work[p] # Absent, Parent(p) # Root
             PROVE  work[Parent(p)] = Dir
  BY <1>1 DEF WellFormed
<1>2. Parent(p) \in Paths
  BY AncestryOfParent
<1>3. nd[Parent(p)] = Dir
  BY <1>1 DEF WellFormed
<1> QED
  BY <1>1, <1>2, <1>3

\* What each change of the disk keeps: types, .gitkeep only in directories,
\* modes only of files with a name, and the nesting.
DiskOK ==
    /\ node \in [Paths -> Files \cup {Absent, Dir}]
    /\ data \in [Files -> Contents]
    /\ kept \subseteq {p \in Paths : node[p] = Dir}
    /\ readonly \subseteq {f \in Files : HasName(node, f)}
    /\ WellFormed(node)

LEMMA ReclaimType ==
    ASSUME NEW nd, data \in [Files -> Contents]
    PROVE  Reclaim(nd, data) \in [Files -> Contents]
BY BackendAssumption DEF Reclaim

LEMMA WriteKeepsDisk ==
    ASSUME DiskOK, NEW p \in Paths, NEW v \in Contents, CanWrite(p), WriteDisk(p, v)
    PROVE  DiskOK'
<1>1. PICK f \in Files : /\ IsFile(p) => f = node[p]
                         /\ node' = [node EXCEPT ![p] = f]
                         /\ data' = [data EXCEPT ![f] = v]
                         /\ readonly' = readonly \ {f}
  BY DEF WriteDisk
<1>2. ASSUME NEW q \in Paths, node'[q] # Absent, Parent(q) # Root
      PROVE  node'[Parent(q)] = Dir
  <2>1. Parent(q) \in Paths /\ Parent(q) # q
    BY <1>2, AncestryOfParent
  <2>2. CASE q = p
    BY <1>1, <1>2, <2>1, <2>2 DEF CanWrite, IsDirectory, DiskOK
  <2>3. CASE q # p
    <3>1. node[Parent(q)] = Dir
      BY <1>1, <1>2, <2>3 DEF DiskOK, WellFormed
    <3>2. Parent(q) # p
      BY <3>1 DEF CanWrite
    <3> QED
      BY <1>1, <2>1, <3>1, <3>2 DEF DiskOK
  <2> QED
    BY <2>2, <2>3
<1>3. WellFormed(node)'
  BY <1>2 DEF WellFormed
<1>4. node[p] # Dir
  BY DEF CanWrite
<1>5. ASSUME NEW g \in readonly'
      PROVE  HasName(node', g)
  <2>1. g # f /\ g \in Files /\ HasName(node, g)
    BY <1>1, <1>5 DEF DiskOK
  <2>2. PICK q \in Paths : node[q] = g
    BY <2>1 DEF HasName
  <2>3. q # p
    BY <1>1, <2>1, <2>2 DEF IsFile
  <2> QED
    BY <1>1, <2>2, <2>3 DEF DiskOK, HasName
<1> QED
  BY <1>1, <1>3, <1>4, <1>5 DEF DiskOK, WriteDisk

LEMMA DeleteKeepsDisk ==
    ASSUME DiskOK, NEW p \in Paths, IsFile(p), DeleteDisk(p)
    PROVE  DiskOK'
<1>1. node' = [node EXCEPT ![p] = Absent] /\ node[p] # Dir
  BY BackendAssumption DEF DeleteDisk, IsFile
<1>2. ASSUME NEW q \in Paths, node'[q] # Absent, Parent(q) # Root
      PROVE  node'[Parent(q)] = Dir
  <2>1. Parent(q) \in Paths
    BY <1>2, AncestryOfParent
  <2>2. node[Parent(q)] = Dir
    BY <1>1, <1>2 DEF DiskOK, WellFormed
  <2> QED
    BY <1>1, <2>1, <2>2 DEF DiskOK
<1>3. WellFormed(node)'
  BY <1>2 DEF WellFormed
<1>4. data' \in [Files -> Contents]
  BY ReclaimType DEF DeleteDisk, DiskOK
<1>5. readonly' \subseteq {f \in Files : HasName(node', f)}
  BY DEF DeleteDisk, DiskOK, ReclaimModes
<1> QED
  BY <1>1, <1>3, <1>4, <1>5 DEF DiskOK, DeleteDisk

\* Making directories on the way to a path takes no file's place.
LEMMA FilesStayNamed ==
    ASSUME DiskOK, NEW f \in readonly,
           \A q \in Paths : node'[q] = node[q] \/ node[q] \in {Absent, Dir}
    PROVE  HasName(node', f)
<1>1. f \in Files /\ HasName(node, f)
  BY DEF DiskOK
<1> QED
  BY <1>1, BackendAssumption DEF HasName

LEMMA CreateDirKeepsDisk ==
    ASSUME DiskOK, NEW p \in Paths, CanCreateDir(p), CreateDirDisk(p)
    PROVE  DiskOK'
<1>1. /\ node' = [a \in Paths |-> IF Below(p, a) THEN Dir ELSE node[a]]
      /\ kept' = kept \cup {p} /\ data' = data /\ readonly' = readonly
  BY DEF CreateDirDisk
<1>2. ASSUME NEW q \in Paths, node'[q] # Absent, Parent(q) # Root
      PROVE  node'[Parent(q)] = Dir
  <2>1. Parent(q) \in Paths /\ Below(q, Parent(q))
    BY <1>2, AncestryOfParent, BelowItself
  <2>2. CASE Below(p, q)
    BY <1>1, <2>1, <2>2, BelowTransitive
  <2>3. CASE ~Below(p, q)
    <3>1. node[Parent(q)] = Dir
      BY <1>1, <1>2, <2>3 DEF DiskOK, WellFormed
    <3> QED
      BY <1>1, <2>1, <3>1
  <2> QED
    BY <2>2, <2>3
<1>3. WellFormed(node)'
  BY <1>2 DEF WellFormed
<1>4. Below(p, p)
  BY BelowItself
<1>5. node' \in [Paths -> Files \cup {Absent, Dir}]
  BY <1>1 DEF DiskOK
<1>6. kept' \subseteq {a \in Paths : node'[a] = Dir}
  BY <1>1, <1>4 DEF DiskOK
<1>7. \A f \in readonly : HasName(node', f)
  BY <1>1, FilesStayNamed DEF CanCreateDir
<1> QED
  BY <1>1, <1>3, <1>5, <1>6, <1>7 DEF DiskOK

LEMMA MakeParentsKeepsDisk ==
    ASSUME DiskOK, NEW p \in Paths, CanMakeParents(p), MakeParentsDisk(p)
    PROVE  DiskOK'
<1>1. /\ node' = [a \in Paths |-> IF Below(p, a) /\ a # p THEN Dir ELSE node[a]]
      /\ kept' = kept /\ data' = data /\ readonly' = readonly
  BY DEF MakeParentsDisk
<1>2. ASSUME NEW q \in Paths, node'[q] # Absent, Parent(q) # Root
      PROVE  node'[Parent(q)] = Dir
  <2>1. /\ Parent(q) \in Paths /\ Below(q, Parent(q)) /\ ~Below(Parent(q), q)
        /\ Parent(q) # q
    BY <1>2, AncestryOfParent, BelowItself, ParentNotBelow
  <2>2. CASE Below(p, q)
    <3>1. Below(p, Parent(q)) /\ Parent(q) # p
      BY <2>1, <2>2, BelowTransitive
    <3> QED
      BY <1>1, <2>1, <3>1
  <2>3. CASE ~Below(p, q)
    <3>1. node[Parent(q)] = Dir
      BY <1>1, <1>2, <2>3 DEF DiskOK, WellFormed
    <3> QED
      BY <1>1, <2>1, <3>1
  <2> QED
    BY <2>2, <2>3
<1>3. WellFormed(node)'
  BY <1>2 DEF WellFormed
<1>4. node' \in [Paths -> Files \cup {Absent, Dir}]
  BY <1>1 DEF DiskOK
<1>5. kept' \subseteq {a \in Paths : node'[a] = Dir}
  BY <1>1 DEF DiskOK
<1>6. \A f \in readonly : HasName(node', f)
  BY <1>1, FilesStayNamed DEF CanMakeParents
<1> QED
  BY <1>1, <1>3, <1>4, <1>5, <1>6 DEF DiskOK

LEMMA SetPermissionsKeepsDisk ==
    ASSUME DiskOK, NEW p \in Paths, IsFile(p), NEW writable, SetPermissionsDisk(p, writable)
    PROVE  DiskOK'
<1>1. /\ node' = node /\ data' = data /\ kept' = kept
      /\ readonly' \subseteq readonly \cup {node[p]}
  BY DEF SetPermissionsDisk
<1>2. node[p] \in Files /\ HasName(node, node[p])
  BY DEF IsFile, HasName
<1> QED
  BY <1>1, <1>2 DEF DiskOK, WellFormed, HasName

LEMMA RemoveDirKeepsDisk ==
    ASSUME DiskOK, NEW p \in Paths, CanRemoveDir(p), RemoveDirDisk(p)
    PROVE  DiskOK'
<1>1. /\ node' = [node EXCEPT ![p] = Absent]
      /\ kept' = kept \ {p} /\ data' = data /\ readonly' = readonly
  BY DEF RemoveDirDisk
<1>2. ASSUME NEW q \in Paths, node'[q] # Absent, Parent(q) # Root
      PROVE  node'[Parent(q)] = Dir
  <2>1. Parent(q) \in Paths
    BY <1>2, AncestryOfParent
  <2>2. node[q] # Absent
    BY <1>1, <1>2 DEF DiskOK
  <2>3. node[Parent(q)] = Dir
    BY <1>2, <2>2 DEF DiskOK, WellFormed
  <2>4. Parent(q) # p
    BY <2>2 DEF CanRemoveDir, Children
  <2> QED
    BY <1>1, <2>1, <2>3, <2>4 DEF DiskOK
<1>3. WellFormed(node)'
  BY <1>2 DEF WellFormed
<1>4. \A f \in readonly : HasName(node', f)
  <2>1. \A q \in Paths : node'[q] = node[q] \/ node[q] \in {Absent, Dir}
    BY <1>1 DEF DiskOK, CanRemoveDir
  <2> QED
    BY <2>1, FilesStayNamed
<1> QED
  BY <1>1, <1>3, <1>4 DEF DiskOK

LEMMA LinkKeepsDisk ==
    ASSUME DiskOK, NEW p \in Paths, NEW target \in Paths, CanLink(p, target), LinkDisk(p, target)
    PROVE  DiskOK'
<1>1. /\ node' = [node EXCEPT ![p] = node[target]]
      /\ kept' = kept /\ data' = data /\ readonly' = readonly
      /\ node[p] = Absent /\ node[target] \in Files
  BY DEF LinkDisk, CanLink, IsFile
<1>2. ASSUME NEW q \in Paths, node'[q] # Absent, Parent(q) # Root
      PROVE  node'[Parent(q)] = Dir
  <2>1. Parent(q) \in Paths /\ Parent(q) # q
    BY <1>2, AncestryOfParent
  <2>2. node[Parent(q)] = Dir
    BY <1>1, <1>2, <2>1 DEF DiskOK, WellFormed, CanLink, IsDirectory
  <2> QED
    BY <1>1, <2>1, <2>2, TreeAssumption DEF DiskOK
<1>3. WellFormed(node)'
  BY <1>2 DEF WellFormed
<1>4. \A f \in readonly : HasName(node', f)
  <2>1. \A q \in Paths : node'[q] = node[q] \/ node[q] \in {Absent, Dir}
    BY <1>1 DEF DiskOK
  <2> QED
    BY <2>1, FilesStayNamed
<1> QED
  BY <1>1, <1>3, <1>4, TreeAssumption DEF DiskOK

LEMMA TailNames ==
    ASSUME NEW u \in Seq(STRING), NEW k \in Nat, k <= Len(u)
    PROVE  /\ SubSeq(u, k + 1, Len(u)) \in Seq(STRING)
           /\ Len(SubSeq(u, k + 1, Len(u))) = Len(u) - k
           /\ \A i \in 1..(Len(u) - k) : SubSeq(u, k + 1, Len(u))[i] = u[k + i]
OBVIOUS

\* A path strictly below `to` and its parent come from a path and its parent.
LEMMA SourceOfParent ==
    ASSUME NEW p \in Paths, NEW from \in Paths, NEW to \in Paths, Below(p, to), p # to
    PROVE  /\ Parent(p) \in Paths /\ Below(Parent(p), to)
           /\ Source(Parent(p), from, to) = Parent(Source(p, from, to))
           /\ Parent(Source(p, from, to)) # Root
<1> DEFINE s == Source(p, from, to)
           n == Len(p) - Len(to)
<1>1. /\ p \in Seq(STRING) /\ from \in Seq(STRING) /\ to \in Seq(STRING)
      /\ Len(p) \in Nat \ {0} /\ Len(from) \in Nat \ {0} /\ Len(to) \in Nat \ {0}
  BY PathIsSeq
<1>2. Len(to) <= Len(p) /\ \A i \in 1..Len(to) : to[i] = p[i]
  BY <1>1, PrefixNames DEF Below, Ancestry
<1>3. n \in Nat \ {0}
  BY <1>1, <1>2, SeqEqual
<1>4. /\ Parent(p) \in Seq(STRING) /\ Len(Parent(p)) = Len(p) - 1
      /\ \A i \in 1..(Len(p) - 1) : Parent(p)[i] = p[i]
  BY <1>1, ParentNames
<1>5. Len(Parent(p)) # 0 /\ Parent(p) # Root
  <2>1. Len(Parent(p)) # 0
    BY <1>1, <1>3, <1>4
  <2>2. Len(<<>>) = 0
    OBVIOUS
  <2> QED
    BY <2>1, <2>2 DEF Root
<1>6. Parent(p) \in Paths /\ Below(Parent(p), to)
  BY <1>5, AncestryOfParent
<1>7. /\ SubSeq(p, Len(to) + 1, Len(p)) \in Seq(STRING)
      /\ Len(SubSeq(p, Len(to) + 1, Len(p))) = n
      /\ \A i \in 1..n : SubSeq(p, Len(to) + 1, Len(p))[i] = p[Len(to) + i]
  BY <1>1, <1>3
<1>8. /\ SubSeq(Parent(p), Len(to) + 1, Len(Parent(p))) \in Seq(STRING)
      /\ Len(SubSeq(Parent(p), Len(to) + 1, Len(Parent(p)))) = n - 1
      /\ \A i \in 1..(n - 1) :
             SubSeq(Parent(p), Len(to) + 1, Len(Parent(p)))[i] = p[Len(to) + i]
  <2>1. /\ Len(to) \in Nat /\ Len(to) <= Len(Parent(p))
        /\ Len(Parent(p)) - Len(to) = n - 1
    BY <1>1, <1>3, <1>4
  <2>2. \A i \in 1..(n - 1) : Parent(p)[Len(to) + i] = p[Len(to) + i]
    BY <1>1, <1>3, <1>4
  <2> HIDE DEF n
  <2> QED
    BY <1>4, <2>1, <2>2, TailNames
<1>9. /\ s \in Seq(STRING) /\ Len(s) = Len(from) + n
      /\ \A i \in 1..Len(s) : s[i] = IF i <= Len(from) THEN from[i] ELSE p[Len(to) + i - Len(from)]
  BY <1>1, <1>3, <1>7 DEF Source
<1>10. /\ Source(Parent(p), from, to) \in Seq(STRING)
       /\ Len(Source(Parent(p), from, to)) = Len(from) + n - 1
       /\ \A i \in 1..(Len(from) + n - 1) :
              Source(Parent(p), from, to)[i]
                  = IF i <= Len(from) THEN from[i] ELSE p[Len(to) + i - Len(from)]
  <2> DEFINE t == SubSeq(Parent(p), Len(to) + 1, Len(Parent(p)))
  <2>1. /\ from \o t \in Seq(STRING)
        /\ Len(from \o t) = Len(from) + Len(t)
        /\ \A i \in 1..(Len(from) + Len(t)) :
               (from \o t)[i] = IF i <= Len(from) THEN from[i] ELSE t[i - Len(from)]
    <3> HIDE DEF t
    <3>1. t \in Seq(STRING)
      BY <1>8 DEF t
    <3> QED
      BY <1>1, <3>1, ConcatProperties
  <2>2. Len(t) = n - 1 /\ Len(from) + Len(t) = Len(from) + n - 1
    BY <1>1, <1>3, <1>8
  <2>3. ASSUME NEW i \in 1..(Len(from) + n - 1), ~(i <= Len(from))
        PROVE  t[i - Len(from)] = p[Len(to) + i - Len(from)]
    <3>1. i - Len(from) \in 1..(n - 1) /\ Len(to) + (i - Len(from)) = Len(to) + i - Len(from)
      BY <1>1, <1>3, <2>3
    <3> QED
      BY <1>8, <3>1
  <2>4. Source(Parent(p), from, to) = from \o t
    BY DEF Source
  <2> HIDE DEF t
  <2> QED
    BY <2>1, <2>2, <2>3, <2>4
<1>11. /\ Parent(s) \in Seq(STRING) /\ Len(Parent(s)) = Len(from) + n - 1
       /\ \A i \in 1..(Len(from) + n - 1) : Parent(s)[i] = s[i]
  <2> HIDE DEF s, n
  <2>1. Len(s) \in Nat \ {0} /\ Len(s) - 1 = Len(from) + n - 1
    BY <1>1, <1>3, <1>9
  <2> QED
    BY <1>9, <2>1, ParentNames
<1>12. Source(Parent(p), from, to) = Parent(s)
  <2> HIDE DEF s, n
  <2>1. \A i \in 1..(Len(from) + n - 1) : i \in 1..Len(s)
    BY <1>1, <1>3, <1>9
  <2>2. \A i \in 1..(Len(from) + n - 1) : Source(Parent(p), from, to)[i] = Parent(s)[i]
    BY <1>9, <1>10, <1>11, <2>1
  <2> QED
    BY <1>10, <1>11, <2>2, SeqEqual
<1>13. Parent(s) # Root
  BY <1>1, <1>3, <1>11 DEF Root
<1> QED
  BY <1>6, <1>12, <1>13

LEMMA SourceOfTarget ==
    ASSUME NEW from \in Paths, NEW to \in Paths
    PROVE  Source(to, from, to) = from
<1>1. from \in Seq(STRING) /\ to \in Seq(STRING)
  BY PathIsSeq
<1>2. SubSeq(to, Len(to) + 1, Len(to)) = <<>>
  BY <1>1, SubSeqEmpty
<1> QED
  BY <1>1, <1>2 DEF Source

LEMMA RenameKeepsDisk ==
    ASSUME DiskOK, NEW from \in Paths, NEW to \in Paths,
           CanRename(from, to), RenameDisk(from, to)
    PROVE  DiskOK'
<1>1. CASE IsFile(from) /\ node[from] = node[to]
  BY <1>1 DEF RenameDisk, disk, DiskOK, WellFormed
<1>2. CASE ~(IsFile(from) /\ node[from] = node[to])
  <2>1. /\ node' = [p \in Paths |->
                       IF Below(p, to) THEN Moved(p, from, to)
                       ELSE IF Below(p, from) THEN Absent
                       ELSE IF Below(to, p) THEN Dir
                       ELSE node[p]]
        /\ data' = Reclaim(node', data)
        /\ readonly' = ReclaimModes(node', readonly)
        /\ kept' = {p \in Paths : IF Below(p, to) THEN Source(p, from, to) \in kept
                                  ELSE p \in kept /\ ~Below(p, from)}
    BY <1>2 DEF RenameDisk
  <2>2. /\ node' \in [Paths -> Files \cup {Absent, Dir}]
        /\ data' \in [Files -> Contents]
    BY <2>1, ReclaimType DEF DiskOK, Moved
  <2>3. kept' \subseteq {p \in Paths : node'[p] = Dir}
    <3> SUFFICES ASSUME NEW p \in Paths, p \in kept'
                 PROVE  node'[p] = Dir
      BY <2>1
    <3>1. CASE Below(p, to)
      <4>1. Source(p, from, to) \in kept
        BY <2>1, <3>1
      <4>2. Source(p, from, to) \in Paths /\ node[Source(p, from, to)] = Dir
        BY <4>1 DEF DiskOK
      <4> QED
        BY <2>1, <3>1, <4>2 DEF Moved
    <3>2. CASE ~Below(p, to)
      BY <2>1, <3>2 DEF DiskOK
    <3> QED
      BY <3>1, <3>2
  <2>4. ASSUME NEW q \in Paths, node'[q] # Absent, Parent(q) # Root
        PROVE  node'[Parent(q)] = Dir
    <3>1. /\ Parent(q) \in Paths /\ Parent(q) # q /\ Below(q, Parent(q))
          /\ Below(q, to) => q = to \/ Below(Parent(q), to)
      BY <2>4, AncestryOfParent, BelowItself
    <3>2. CASE q = to
      <4>1. /\ \A r \in Paths : Below(q, r) <=> q = r \/ Below(Parent(q), r)
            /\ ~Below(Parent(q), q) /\ Below(q, q)
        BY <2>4, ParentNotBelow, AncestryOfParent, BelowItself
      <4>2. ~Below(Parent(q), to) /\ ~Below(Parent(q), from) /\ Below(to, Parent(q))
        BY <3>1, <3>2, <4>1 DEF CanRename
      <4> QED
        BY <2>1, <3>1, <4>2
    <3>3. CASE Below(q, to) /\ q # to
      <4>1. /\ Below(Parent(q), to)
            /\ Source(Parent(q), from, to) = Parent(Source(q, from, to))
            /\ Parent(Source(q, from, to)) # Root
        BY <3>3, SourceOfParent
      <4>2. Source(q, from, to) \in Paths /\ node[Source(q, from, to)] # Absent
        BY <2>1, <2>4, <3>3 DEF Moved
      <4>3. Parent(Source(q, from, to)) \in Paths
        BY <4>1, <4>2, AncestryOfParent
      <4>4. node[Parent(Source(q, from, to))] = Dir
        BY <4>1, <4>2 DEF DiskOK, WellFormed
      <4> QED
        BY <2>1, <3>1, <4>1, <4>3, <4>4 DEF Moved
    <3>4. CASE ~Below(q, to)
      <4>1. ~Below(q, from) /\ ~Below(Parent(q), from) /\ ~Below(Parent(q), to)
        BY <2>1, <2>4, <3>1, <3>4, BelowTransitive
      <4>2. CASE Below(to, q)
        <5>1. Below(to, Parent(q))
          BY <3>1, <4>2, BelowTransitive
        <5> QED
          BY <2>1, <3>1, <4>1, <5>1
      <4>3. CASE ~Below(to, q)
        <5>1. node[Parent(q)] = Dir
          BY <2>1, <2>4, <3>4, <4>1, <4>3 DEF DiskOK, WellFormed
        <5> QED
          BY <2>1, <3>1, <4>1, <5>1
      <4> QED
        BY <4>2, <4>3
    <3> QED
      BY <3>2, <3>3, <3>4
  <2>5. WellFormed(node)'
    BY <2>4 DEF WellFormed
  <2>6. readonly' \subseteq {f \in Files : HasName(node', f)}
    BY <2>1 DEF DiskOK, ReclaimModes
  <2> QED
    BY <2>2, <2>3, <2>5, <2>6 DEF DiskOK
<1> QED
  BY <1>1, <1>2

\* A file at a path that a rename neither moves nor replaces stays, with its
\* content.
LEMMA RenameSpares ==
    ASSUME DiskOK, NEW from \in Paths, NEW to \in Paths,
           CanRename(from, to), RenameDisk(from, to),
           NEW p \in Paths, IsFile(p), ~Below(p, from), ~Below(p, to)
    PROVE  node'[p] = node[p] /\ Work'[p] = Work[p]
<1>1. CASE IsFile(from) /\ node[from] = node[to]
  BY <1>1 DEF RenameDisk, disk, Work
<1>2. CASE ~(IsFile(from) /\ node[from] = node[to])
  <2>1. /\ node' = [q \in Paths |->
                       IF Below(q, to) THEN Moved(q, from, to)
                       ELSE IF Below(q, from) THEN Absent
                       ELSE IF Below(to, q) THEN Dir
                       ELSE node[q]]
        /\ data' = Reclaim(node', data)
    BY <1>2 DEF RenameDisk
  <2>2. ~Below(to, p)
    <3>1. to # p
      BY BelowItself
    <3> QED
      BY <3>1, BackendAssumption DEF CanRename, CanMakeParents, IsFile
  <2>3. node'[p] = node[p]
    BY <2>1, <2>2
  <2>4. data'[node[p]] = data[node[p]]
    BY <2>1, <2>3 DEF Reclaim, HasName, IsFile
  <2> QED
    BY <2>3, <2>4 DEF Work
<1> QED
  BY <1>1, <1>2
-----------------------------------------------------------------------------
(* The list of dirty files                                                  *)

LEMMA ElementsOfAppend ==
    ASSUME NEW S, pending \in Seq(S), NEW p \in S
    PROVE  /\ Append(pending, p) \in Seq(S)
           /\ Elements(pending) \subseteq S
           /\ Elements(Append(pending, p)) = Elements(pending) \cup {p}
<1>1. /\ Append(pending, p) \in Seq(S)
      /\ Len(pending) \in Nat
      /\ Len(Append(pending, p)) = Len(pending) + 1
      /\ \A i \in 1..Len(pending) : Append(pending, p)[i] = pending[i]
      /\ Append(pending, p)[Len(pending) + 1] = p
  BY AppendProperties
<1>2. /\ DOMAIN pending = 1..Len(pending)
      /\ DOMAIN Append(pending, p) = 1..(Len(pending) + 1)
      /\ \A i \in 1..Len(pending) : pending[i] \in S
  BY <1>1
<1>3. 1..(Len(pending) + 1) = 1..Len(pending) \cup {Len(pending) + 1}
  BY <1>1
<1>4. Elements(Append(pending, p))
          = {Append(pending, p)[i] : i \in 1..Len(pending)} \cup {p}
  BY <1>1, <1>2, <1>3 DEF Elements
<1>5. {Append(pending, p)[i] : i \in 1..Len(pending)} = Elements(pending)
  BY <1>1, <1>2 DEF Elements
<1> QED
  BY <1>1, <1>2, <1>4, <1>5 DEF Elements
=============================================================================
