--------------------------- MODULE MountRegistry ---------------------------
(***************************************************************************)
(* Mounting, unmounting and shutting down (src/src/fs.rs,                  *)
(* src/src/main.rs): the registry of a process, the kernel's mount table,  *)
(* the FUSE sessions with what they have not committed yet, and the `gofs  *)
(* mount` command from its start to the exit of its process.               *)
(*                                                                         *)
(* Mounts are numbered in the order of their sessions.  Of the mounts      *)
(* listed at one point the latest is on top; fusermount takes that one     *)
(* away.                                                                   *)
(***************************************************************************)
EXTENDS Naturals

CONSTANTS
    Processes,
    Commands,       \* the processes that run `gofs mount`, the others use the library
    Callers,        \* threads that call mount and unmount
    ProcessOf,      \* the process of a caller
    Repos, Points,
    NoRepo,         \* no entry in a registry
    Plans,          \* bounds what a caller mounts: repositories and points
    Writers,        \* bounds the files written: only in mounts of these processes
    MaxMounts       \* bounds the sessions ever spawned

ASSUME MountAssumption ==
    /\ Commands \subseteq Processes
    /\ ProcessOf \in [Callers -> Processes]
    /\ Plans \in [Callers -> SUBSET (Repos \X Points)]
    /\ NoRepo \notin Repos
    /\ Processes # {} /\ Repos # {} /\ Points # {}
    /\ MaxMounts \in Nat \ {0}

Mounts == 1..MaxMounts
Command(c) == ProcessOf[c] \in Commands

VARIABLES
    up,             \* the processes that run
    registry,       \* active_mounts of each process
    session,        \* of each mount
    spawned,        \* how many there have been
    pc, job,        \* where a caller is, and what it mounts or unmounts
    disturbed,      \* history: mounts the registry cannot be right about
    lost            \* history: mounts whose process exited before destroy() was done

mountVars == <<up, registry, session, spawned, pc, job, disturbed, lost>>

\* serving: the session's thread runs.  listed: the kernel has the mount.
Sessions == [serving : BOOLEAN, listed : BOOLEAN, repo : Repos, point : Points,
             process : Processes, auto : BOOLEAN, pending : BOOLEAN]
Steps == {"idle", "checked", "spawned", "started", "parked", "interrupted",
          "unmounted", "leaving"}
Jobs == [repo : Repos, point : Points, mount : Mounts]

Unused == CHOOSE s \in Sessions : ~s.serving /\ ~s.listed
NoJob == CHOOSE j \in Jobs : TRUE

Listed(pt) == {m \in Mounts : session[m].listed /\ session[m].point = pt}
OnTop(m) == m \in Listed(session[m].point) /\ \A n \in Listed(session[m].point) : n <= m
Mounted(m) == session[m].listed /\ session[m].serving
\* "Transport endpoint is not connected": listed, but nobody serves it.
Dead(m) == session[m].listed /\ ~session[m].serving
DeadEnd(pt) == \E m \in Listed(pt) : OnTop(m) /\ Dead(m)

Registering(m) == \E c \in Callers : pc[c] = "spawned" /\ job[c].mount = m
Removing(p, pt) ==
    \E c \in Callers : ProcessOf[c] = p /\ pc[c] = "unmounted" /\ job[c].point = pt

NoEntries == [pt \in Points |-> NoRepo]
Has(p, r) == \E pt \in Points : registry[p][pt] = r

MountTypeOK ==
    /\ up \subseteq Processes
    /\ registry \in [Processes -> [Points -> Repos \cup {NoRepo}]]
    /\ session \in [Mounts -> Sessions]
    /\ spawned \in 0..MaxMounts
    /\ pc \in [Callers -> Steps]
    /\ job \in [Callers -> Jobs]
    /\ disturbed \subseteq Mounts
    /\ lost \subseteq Mounts

MountInit ==
    /\ up = Processes
    /\ registry = [p \in Processes |-> NoEntries]
    /\ session = [m \in Mounts |-> Unused]
    /\ spawned = 0
    /\ pc = [c \in Callers |-> "idle"]
    /\ job = [c \in Callers |-> NoJob]
    /\ disturbed = {}
    /\ lost = {}
-----------------------------------------------------------------------------
(* The end of a process and its next start                                 *)

Runs(p, m) == session[m].process = p /\ session[m].serving

\* Threads and memory are gone, mounts stay listed.
End(p) ==
    /\ up' = up \ {p}
    /\ registry' = [registry EXCEPT ![p] = NoEntries]
    /\ session' = [m \in Mounts |->
                     IF Runs(p, m)
                       THEN [session[m] EXCEPT !.serving = FALSE, !.pending = FALSE]
                       ELSE session[m]]
    /\ pc' = [c \in Callers |-> IF ProcessOf[c] = p THEN "idle" ELSE pc[c]]
    /\ job' = [c \in Callers |-> IF ProcessOf[c] = p THEN NoJob ELSE job[c]]
    /\ UNCHANGED <<spawned, disturbed>>

Crash(p) == p \in up /\ End(p) /\ UNCHANGED lost

\* The end the program chooses.
ExitProcess(p) ==
    /\ End(p)
    /\ lost' = lost \cup {m \in Mounts : Runs(p, m) /\ ~session[m].listed /\ session[m].pending}

Start(p) ==
    /\ p \notin up
    /\ up' = up \cup {p}
    /\ UNCHANGED <<registry, session, spawned, pc, job, disturbed, lost>>

\* A call of the library is over; the command goes on to its next step.
Return(c, next) ==
    IF Command(c)
      THEN /\ pc' = [pc EXCEPT ![c] = next]
           /\ job' = [job EXCEPT ![c] = [NoJob EXCEPT !.point = job[c].point]]
      ELSE pc' = [pc EXCEPT ![c] = "idle"] /\ job' = [job EXCEPT ![c] = NoJob]

\* What a caller does with an error: the command prints it and exits.
Fail(c) ==
    IF Command(c)
      THEN ExitProcess(ProcessOf[c])
      ELSE Return(c, "idle") /\ UNCHANGED <<up, registry, session, spawned, disturbed, lost>>
-----------------------------------------------------------------------------
(* mount: the check, the session and the entry are three steps             *)

At(c, step) == ProcessOf[c] \in up /\ pc[c] = step

Refused(c, r) == Has(ProcessOf[c], r)

\* canonicalize() fails on a dead mount.
CheckRegistry(c, r, pt) ==
    /\ At(c, "idle")
    /\ ~DeadEnd(pt)
    /\ ~Refused(c, r)
    /\ pc' = [pc EXCEPT ![c] = "checked"]
    /\ job' = [job EXCEPT ![c].repo = r, ![c].point = pt]
    /\ UNCHANGED <<up, registry, session, spawned, disturbed, lost>>

SpawnFails(c) == At(c, "checked") /\ Fail(c)

\* Another call of the process is about to change the entry of this point.
Overtaken(c) ==
    \/ \E d \in Callers \ {c} :
           ProcessOf[d] = ProcessOf[c] /\ pc[d] = "spawned" /\ job[d].point = job[c].point
    \/ Removing(ProcessOf[c], job[c].point)

\* mount asks for AutoUnmount, mount_with_options only when told to.
\* The mount hides those listed at its point.
Spawn(c) ==
    LET n == spawned + 1 IN
    /\ At(c, "checked")
    /\ spawned < MaxMounts
    /\ ~DeadEnd(job[c].point)
    /\ \E auto \in BOOLEAN :
           /\ Command(c) => auto
           /\ session' = [session EXCEPT ![n] =
                            [serving |-> TRUE, listed |-> TRUE, repo |-> job[c].repo,
                             point |-> job[c].point, process |-> ProcessOf[c],
                             auto |-> auto, pending |-> FALSE]]
    /\ spawned' = n
    /\ disturbed' = disturbed \cup Listed(job[c].point) \cup (IF Overtaken(c) THEN {n} ELSE {})
    /\ pc' = [pc EXCEPT ![c] = "spawned"]
    /\ job' = [job EXCEPT ![c].mount = n]
    /\ UNCHANGED <<up, registry, lost>>

MutantEntry(c) ==                           \* key and value exchanged
    [registry EXCEPT ![ProcessOf[c]] = [pt \in Points |->
        IF pt = job[c].point THEN pt ELSE @[pt]]]
Entry(c) == [registry EXCEPT ![ProcessOf[c]][job[c].point] = job[c].repo]

Register(c) ==
    /\ At(c, "spawned")
    /\ registry' = Entry(c)
    /\ Return(c, "started")
    /\ UNCHANGED <<up, session, spawned, disturbed, lost>>
-----------------------------------------------------------------------------
(* unmount: fusermount, then the entry                                     *)

\* Nothing tells a process that another one unmounted its mount, or a mount
\* call that its mount is gone before it is registered.
Unnoticed(c, m) == session[m].process # ProcessOf[c] \/ Registering(m)

CallsUnmount(c, pt) ==
    \/ At(c, "idle") /\ ~Command(c)
    \/ At(c, "interrupted") /\ pt = job[c].point

Unmount(c, m) ==
    /\ OnTop(m)
    /\ CallsUnmount(c, session[m].point)
    /\ session' = [session EXCEPT ![m].listed = FALSE]
    /\ disturbed' = IF Unnoticed(c, m) THEN disturbed \cup {m} ELSE disturbed
    /\ pc' = [pc EXCEPT ![c] = "unmounted"]
    /\ job' = [job EXCEPT ![c].point = session[m].point]
    /\ UNCHANGED <<up, registry, spawned, lost>>

MutantRemoval1(c) == registry               \* the entry stays
MutantRemoval2(c) == [registry EXCEPT ![ProcessOf[c]] = NoEntries]  \* every entry goes
Removal(c) == [registry EXCEPT ![ProcessOf[c]][job[c].point] = NoRepo]

RemoveEntry(c) ==
    /\ At(c, "unmounted")
    /\ registry' = Removal(c)
    /\ Return(c, "leaving")
    /\ UNCHANGED <<up, session, spawned, disturbed, lost>>
-----------------------------------------------------------------------------
(* The rest of the command                                                 *)

\* With --daemon, or if the health server cannot start, run() returns and the
\* process exits.
LeaveMounted(c) == At(c, "started") /\ ExitProcess(ProcessOf[c])

Go(c, from, to) ==
    /\ At(c, from)
    /\ pc' = [pc EXCEPT ![c] = to]
    /\ UNCHANGED <<up, registry, session, spawned, job, disturbed, lost>>

Park(c) == Go(c, "started", "parked")
Interrupt(c) == Go(c, "parked", "interrupted")

\* The mount is busy or gone: a warning, and the handler goes on to exit.
MutantUnmountFails(c) == Go(c, "interrupted", "parked")     \* it goes on serving
UnmountFails(c) == Go(c, "interrupted", "leaving")

Exit(c) == At(c, "leaving") /\ ExitProcess(ProcessOf[c])
-----------------------------------------------------------------------------
(* The session's thread, and the helper that unmounts for a dead process   *)

Update(m, s) ==
    /\ session' = [session EXCEPT ![m] = s]
    /\ UNCHANGED <<up, registry, spawned, pc, job, disturbed, lost>>

Write(m) ==         \* anything that marks a path dirty
    Mounted(m) /\ session[m].process \in Writers /\ Update(m, [session[m] EXCEPT !.pending = TRUE])

Commit(m) ==        \* a full batch, flush, release, fsync
    Mounted(m) /\ Update(m, [session[m] EXCEPT !.pending = FALSE])

\* The thread finds that it was unmounted and flushes what is pending.
Destroy(m) ==
    /\ session[m].serving /\ ~session[m].listed
    /\ Update(m, [session[m] EXCEPT !.serving = FALSE, !.pending = FALSE])

AutoUnmount(m) ==
    OnTop(m) /\ Dead(m) /\ session[m].auto /\ Update(m, [session[m] EXCEPT !.listed = FALSE])
-----------------------------------------------------------------------------
\* What a caller does once it has called.
CallerStep(c) ==
    \/ SpawnFails(c) \/ Spawn(c) \/ Register(c)
    \/ LeaveMounted(c) \/ Park(c)
    \/ At(c, "interrupted") /\ \E m \in Mounts : Unmount(c, m)
    \/ UnmountFails(c)
    \/ RemoveEntry(c) \/ Exit(c)

Call(c) ==
    \/ \E plan \in Plans[c] : CheckRegistry(c, plan[1], plan[2])
    \/ At(c, "idle") /\ \E m \in Mounts : Unmount(c, m)
    \/ Interrupt(c)

MountNext ==
    \/ \E c \in Callers : Call(c) \/ CallerStep(c)
    \/ \E m \in Mounts : Write(m) \/ Commit(m) \/ Destroy(m) \/ AutoUnmount(m)
    \/ \E p \in Processes : Crash(p) \/ Start(p)

MountSpec == MountInit /\ [][MountNext]_mountVars
-----------------------------------------------------------------------------
(* "Track active mounts ... for double-mount prevention and cleanup on     *)
(* unmount" (fs.rs:35-36).  The registry is a copy of the kernel's table   *)
(* kept by hand; `disturbed` names the mounts for which the code lets it   *)
(* slip: hidden by a later mount, unmounted unnoticed, or spawned while    *)
(* another call is about to change the entry of their point.  That a       *)
(* repository is mounted once is not among the properties: calls that pass *)
(* the check together mount it twice, and so does one that finds the entry *)
(* overwritten by a later mount at the same point.                         *)

\* Every other mount of a running process has its entry, whatever callers
\* mount, unmount and fail in between (fs.rs:1144-1184, 1232-1264).
MountedIsRegistered ==
    \A m \in Mounts \ disturbed :
        Mounted(m) /\ ~Registering(m) =>
            registry[session[m].process][session[m].point] = session[m].repo

\* Every entry stands for a mount, so a repository is refused only while it is
\* mounted, or while its removal is under way (fs.rs:1153, 1250-1256).
RegisteredIsMounted ==
    \A p \in Processes, pt \in Points : registry[p][pt] # NoRepo =>
        \/ Removing(p, pt)
        \/ \E m \in Mounts :
               /\ session[m].process = p /\ session[m].point = pt
               /\ session[m].repo = registry[p][pt]
               /\ Mounted(m) \/ m \in disturbed

\* "flush pending debounced auto-commits before unmounting, ensuring no data
\* loss on shutdown" (CHANGELOG.md:57-58): an unmounted session has committed
\* what it had before its process exits.  Refuted: exit overtakes destroy.
ShutdownLosesNothing == lost = {}

\* After Ctrl+C the process ends, whether the mount is busy, hidden or gone
\* (main.rs:343-350).
InterruptEnds ==
    \A c \in Callers : pc[c] = "interrupted" ~> ProcessOf[c] \notin up
=============================================================================
