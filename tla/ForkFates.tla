----------------------------- MODULE ForkFates -----------------------------
(***************************************************************************)
(* What users of forks rely on: a fork is on record from its creation until *)
(* it is abandoned, always with the same parent and base; it is merged at   *)
(* most once in that time, and nothing else happens to it - the end of the  *)
(* process that knows it and the start of the next least of all.           *)
(* ForkManager implements it for one caller and without failures.          *)
(***************************************************************************)
CONSTANTS Managers, Names, NoFork

VARIABLE records        \* what each manager knows of each name

Set(m, n, record) == records' = [records EXCEPT ![m][n] = record]

Init == records = [m \in Managers |-> [n \in Names |-> NoFork]]

Create(m, n) ==
    /\ records[m][n] = NoFork
    /\ records'[m][n] # NoFork /\ ~records'[m][n].merged
    /\ Set(m, n, records'[m][n])

Merge(m, n) ==
    /\ records[m][n] # NoFork /\ ~records[m][n].merged
    /\ Set(m, n, [records[m][n] EXCEPT !.merged = TRUE])

Abandon(m, n) == records[m][n] # NoFork /\ Set(m, n, NoFork)

Next == \E m \in Managers, n \in Names : Create(m, n) \/ Merge(m, n) \/ Abandon(m, n)

Spec == Init /\ [][Next]_records
=============================================================================
