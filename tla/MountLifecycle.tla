--------------------------- MODULE MountLifecycle ---------------------------
(***************************************************************************)
(* The mounts of several processes together with a health server that one  *)
(* of them runs.  Mounts and the server have only the process in common:   *)
(* what the server learns of a mount point is any answer of the file       *)
(* system.                                                                 *)
(***************************************************************************)
EXTENDS MountRegistry, HealthServer

CONSTANTS
    Monitor,        \* the process with the health server: a command (main.rs:321-337)
                    \* or one that uses the library
    ServerAlone     \* bounds the interleaving: no mounts in a life with a server

ASSUME LifecycleAssumption == Monitor \in Processes /\ ServerAlone \in BOOLEAN

vars == <<mountVars, healthVars>>

Init == MountInit /\ HealthInit

Quiet == spawned = 0 /\ \A c \in Callers : pc[c] = "idle"

\* The end of the process takes the server with it.
MountStep ==
    /\ MountNext
    /\ ServerAlone => handle = "none" \/ Quiet'
    /\ IF Monitor \in up /\ Monitor \notin up' THEN ServerDies ELSE UNCHANGED healthVars

ServerStep ==
    /\ HealthNext /\ UNCHANGED mountVars
    /\ Monitor \in up
    /\ ServerAlone => Quiet

Next == MountStep \/ ServerStep

Spec == Init /\ [][Next]_vars

\* Threads are scheduled again: the command's Ctrl+C handler goes on, the
\* server's thread comes to its next test.
Fairness ==
    /\ \A c \in Callers : Command(c) => WF_vars(CallerStep(c) /\ UNCHANGED healthVars)
    /\ WF_vars(LoopStep /\ UNCHANGED mountVars)

FairSpec == Spec /\ Fairness
=============================================================================
