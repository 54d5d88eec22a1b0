-------------------------- MODULE MCCommitProtocol --------------------------
(***************************************************************************)
(* CommitProtocol for TLC: the deployments the runs use.                    *)
(*   Single     one thread of one process (the FUSE dispatch loop), files   *)
(*              f, g and h (h is ignored)                                   *)
(*   Shared     two threads of one process, each on a file of its own (what *)
(*              tests/test_concurrency.rs does)                             *)
(*   Processes  the mount and a command-line process on one repository      *)
(***************************************************************************)
EXTENDS CommitProtocol

CONSTANTS t1, t2, mount, cli, f, g, h

SingleBackendOf == [t \in {t1} |-> mount]
SingleOwn == [t \in {t1} |-> {f, g, h}]

SharedBackendOf == [t \in {t1, t2} |-> mount]
SharedOwn == [t \in {t1, t2} |-> IF t = t1 THEN {f} ELSE {g}]

ProcessesBackendOf == [t \in {t1, t2} |-> IF t = t1 THEN mount ELSE cli]
ProcessesOwn == [t \in {t1, t2} |-> IF t = t1 THEN {f, g} ELSE {}]

ThreeInodes == 1..3
FourInodes == 1..4
=============================================================================
