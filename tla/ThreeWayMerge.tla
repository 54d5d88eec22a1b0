---------------------------- MODULE ThreeWayMerge ----------------------------
(***************************************************************************)
(* three_way_merge of ForkManager (src/src/fork.rs), entry by entry: b is    *)
(* what the fork point holds at a path, o what the parent branch ("ours")    *)
(* and t what the fork ("theirs") holds there now, Absent when there is no    *)
(* file.                                                                   *)
(***************************************************************************)
CONSTANT Absent

Strategies == {"ThreeWay", "Ours", "Theirs", "Rebase"}

\* Both sides changed the entry.  The same file added on both sides, or deleted
\* on both, is no conflict; the same change made to it on both sides is one.
Conflicting(b, o, t) ==
    /\ o # b /\ t # b
    /\ IF b = Absent THEN o # t ELSE ~(o = Absent /\ t = Absent)

\* ThreeWay and Rebase keep ours, unless one side deleted the file: then the
\* result has no entry.
Resolution(o, t, strategy) ==
    IF strategy = "Ours" THEN o
    ELSE IF strategy = "Theirs" THEN t
    ELSE IF o = Absent \/ t = Absent THEN Absent
    ELSE o

MutantMergedEntry(b, o, t, strategy) ==     \* a deletion by the fork is not honoured
    IF Conflicting(b, o, t) THEN Resolution(o, t, strategy)
    ELSE IF o = b /\ t # Absent THEN t
    ELSE o
MergedEntry(b, o, t, strategy) ==
    IF Conflicting(b, o, t) THEN Resolution(o, t, strategy)
    ELSE IF o = b THEN t
    ELSE o

Merged(base, ours, theirs, strategy) ==
    [p \in DOMAIN base |-> MergedEntry(base[p], ours[p], theirs[p], strategy)]

\* The conflicts three_way_merge returns.
Conflicts(base, ours, theirs, strategy) ==
    {p \in DOMAIN base : /\ strategy \in {"ThreeWay", "Rebase"}
                         /\ Conflicting(base[p], ours[p], theirs[p])}
=============================================================================
