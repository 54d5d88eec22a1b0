------------------------ MODULE MountLifecycleProofs ------------------------
(***************************************************************************)
(* The registry of mounts is right about every mount that is not           *)
(* disturbed, for any number of processes, callers, repositories, points   *)
(* and mounts; and no client that asks after the health server was stopped *)
(* hears that the mount is ready.                                          *)
(***************************************************************************)
EXTENDS MountLifecycle, TLAPS
-----------------------------------------------------------------------------
(* The inductive invariant of the mounts                                   *)

\* A call that has spawned knows its session, and what happens to it before it
\* is registered is disturbance.
SpawnedJobs ==
    \A c \in Callers : pc[c] = "spawned" =>
        LET m == job[c].mount
        IN  /\ m <= spawned
            /\ session[m].process = ProcessOf[c]
            /\ session[m].repo = job[c].repo /\ session[m].point = job[c].point
            /\ Mounted(m) \/ m \in disturbed

LaterUnused ==
    /\ \A m \in disturbed : m <= spawned
    /\ \A m \in Mounts : spawned < m => ~session[m].serving /\ ~session[m].listed

\* Of the mounts listed at a point all but the latest are disturbed.
HiddenDisturbed ==
    \A m, n \in Mounts :
        m < n /\ n <= spawned /\ session[m].listed /\ session[m].point = session[n].point
            => m \in disturbed

\* So is one whose entry an earlier call is about to overwrite,
OverwrittenDisturbed ==
    \A c \in Callers, n \in Mounts :
        /\ pc[c] = "spawned" /\ job[c].mount < n /\ n <= spawned
        /\ session[n].process = ProcessOf[c] /\ session[n].point = job[c].point
        => n \in disturbed

\* or an unmount call is about to remove.
RemovedDisturbed ==
    \A c \in Callers, m \in Mounts :
        /\ pc[c] = "unmounted"
        /\ session[m].process = ProcessOf[c] /\ session[m].point = job[c].point
        /\ Mounted(m)
        => m \in disturbed

MountInv ==
    /\ MountTypeOK
    /\ SpawnedJobs /\ LaterUnused
    /\ HiddenDisturbed /\ OverwrittenDisturbed /\ RemovedDisturbed
    /\ MountedIsRegistered /\ RegisteredIsMounted

HealthInv ==
    /\ HealthTypeOK
    /\ NotReadyOnceStopped
    /\ request = "late" => stop
    /\ loop = "off" => request = "none"
    /\ loop \in {"serving", "ready", "not_ready"} => request # "none"
-----------------------------------------------------------------------------
(* Types                                                                   *)

LEMMA UnusedIsSession == Unused \in Sessions /\ ~Unused.serving /\ ~Unused.listed
<1>1. PICK r \in Repos, pt \in Points, p \in Processes : TRUE
  BY MountAssumption
<1> DEFINE s == [serving |-> FALSE, listed |-> FALSE, repo |-> r, point |-> pt,
                 process |-> p, auto |-> FALSE, pending |-> FALSE]
<1>2. s \in Sessions /\ ~s.serving /\ ~s.listed
  BY <1>1 DEF Sessions
<1> QED
  BY <1>2 DEF Unused

LEMMA NoJobIsJob == NoJob \in Jobs
<1>1. PICK r \in Repos, pt \in Points : TRUE
  BY MountAssumption
<1>2. 1 \in Mounts
  BY MountAssumption DEF Mounts
<1>3. [repo |-> r, point |-> pt, mount |-> 1] \in Jobs
  BY <1>1, <1>2 DEF Jobs
<1> QED
  BY <1>3 DEF NoJob

LEMMA MountTypesStart == MountInit => MountTypeOK
BY UnusedIsSession, NoJobIsJob, MountAssumption
   DEF MountInit, MountTypeOK, Steps, NoEntries

LEMMA EndTypes ==
    ASSUME MountTypeOK, NEW p \in Processes, End(p), lost' \subseteq Mounts
    PROVE  MountTypeOK'
<1>1. up' \subseteq Processes /\ spawned' \in 0..MaxMounts /\ disturbed' \subseteq Mounts
  BY DEF MountTypeOK, End
<1>2. registry' \in [Processes -> [Points -> Repos \cup {NoRepo}]]
  BY DEF MountTypeOK, End, NoEntries
<1>3. session' \in [Mounts -> Sessions]
  <2>1. ASSUME NEW m \in Mounts
        PROVE  [session[m] EXCEPT !.serving = FALSE, !.pending = FALSE] \in Sessions
    BY DEF MountTypeOK, Sessions
  <2> QED
    BY <2>1 DEF MountTypeOK, End
<1>4. pc' \in [Callers -> Steps] /\ job' \in [Callers -> Jobs]
  BY NoJobIsJob DEF MountTypeOK, End, Steps
<1> QED
  BY <1>1, <1>2, <1>3, <1>4 DEF MountTypeOK

LEMMA ReturnTypes ==
    ASSUME MountTypeOK, NEW c \in Callers, NEW next \in Steps, Return(c, next)
    PROVE  pc' \in [Callers -> Steps] /\ job' \in [Callers -> Jobs]
<1>1. [NoJob EXCEPT !.point = job[c].point] \in Jobs
  BY NoJobIsJob DEF MountTypeOK, Jobs
<1>2. "idle" \in Steps
  BY DEF Steps
<1> QED
  BY <1>1, <1>2, NoJobIsJob DEF MountTypeOK, Return

LEMMA ExitTypes ==
    ASSUME MountTypeOK, NEW p \in Processes, ExitProcess(p)
    PROVE  MountTypeOK'
<1>1. lost' \subseteq Mounts
  BY DEF MountTypeOK, ExitProcess
<1> QED
  BY <1>1, EndTypes DEF ExitProcess

LEMMA GoTypes ==
    ASSUME MountTypeOK, NEW c \in Callers, NEW from, NEW to \in Steps, Go(c, from, to)
    PROVE  MountTypeOK'
BY DEF MountTypeOK, Go

LEMMA UpdateTypes ==
    ASSUME MountTypeOK, NEW m \in Mounts, NEW s \in Sessions, Update(m, s)
    PROVE  MountTypeOK'
BY DEF MountTypeOK, Update

LEMMA CallerTypes ==
    ASSUME MountTypeOK, NEW c \in Callers, Call(c) \/ CallerStep(c)
    PROVE  MountTypeOK'
<1> USE DEF Steps
<1>0. ProcessOf[c] \in Processes
  BY MountAssumption
<1>1. CASE \E plan \in Plans[c] : CheckRegistry(c, plan[1], plan[2])
  <2>1. PICK r \in Repos, pt \in Points : CheckRegistry(c, r, pt)
    BY <1>1, MountAssumption
  <2>2. job' \in [Callers -> Jobs]
    <3> DEFINE j1 == [job EXCEPT ![c].repo = r]
               j2 == [j1 EXCEPT ![c].point = pt]
    <3>1. j1 \in [Callers -> Jobs]
      BY DEF MountTypeOK, Jobs
    <3>2. j2 \in [Callers -> Jobs]
      BY <3>1 DEF Jobs
    <3> QED
      BY <2>1, <3>2 DEF CheckRegistry
  <2> QED
    BY <2>1, <2>2 DEF CheckRegistry, MountTypeOK
<1>2. ASSUME NEW m \in Mounts, Unmount(c, m) PROVE MountTypeOK'
  <2>1. [session[m] EXCEPT !.listed = FALSE] \in Sessions
    BY DEF MountTypeOK, Sessions
  <2>2. [job[c] EXCEPT !.point = session[m].point] \in Jobs
    BY DEF MountTypeOK, Sessions, Jobs
  <2> QED
    BY <1>2, <2>1, <2>2 DEF Unmount, MountTypeOK
<1>3. CASE Interrupt(c) \/ Park(c) \/ UnmountFails(c)
  BY <1>3, GoTypes DEF Interrupt, Park, UnmountFails
<1>4. CASE SpawnFails(c)
  <2>1. CASE Command(c)
    BY <1>0, <1>4, <2>1, ExitTypes DEF SpawnFails, Fail
  <2>2. CASE ~Command(c)
    BY <1>4, <2>2, ReturnTypes DEF SpawnFails, Fail, MountTypeOK
  <2> QED
    BY <2>1, <2>2
<1>5. CASE Spawn(c)
  <2>1. spawned' \in 1..MaxMounts /\ spawned' \in Mounts
    BY <1>5, MountAssumption DEF Spawn, MountTypeOK, Mounts
  <2>2. PICK auto \in BOOLEAN :
            session' = [session EXCEPT ![spawned + 1] =
                            [serving |-> TRUE, listed |-> TRUE, repo |-> job[c].repo,
                             point |-> job[c].point, process |-> ProcessOf[c],
                             auto |-> auto, pending |-> FALSE]]
    BY <1>5 DEF Spawn
  <2>3. session' \in [Mounts -> Sessions]
    <3>1. [serving |-> TRUE, listed |-> TRUE, repo |-> job[c].repo,
           point |-> job[c].point, process |-> ProcessOf[c],
           auto |-> auto, pending |-> FALSE] \in Sessions
      BY <1>0 DEF MountTypeOK, Sessions, Jobs
    <3> QED
      BY <2>2, <3>1 DEF MountTypeOK
  <2>4. [job[c] EXCEPT !.mount = spawned + 1] \in Jobs
    BY <1>5, <2>1 DEF Spawn, MountTypeOK, Jobs
  <2>5. job' \in [Callers -> Jobs]
    BY <1>5, <2>4 DEF Spawn, MountTypeOK
  <2>6. disturbed' \subseteq Mounts
    BY <1>5, <2>1 DEF Spawn, MountTypeOK, Listed
  <2> QED
    BY <1>5, <2>1, <2>3, <2>5, <2>6 DEF Spawn, MountTypeOK
<1>6. CASE Register(c)
  <2>1. registry' \in [Processes -> [Points -> Repos \cup {NoRepo}]]
    BY <1>0, <1>6 DEF Register, Entry, MountTypeOK, Jobs
  <2> QED
    BY <1>6, <2>1, ReturnTypes DEF Register, MountTypeOK
<1>7. CASE RemoveEntry(c)
  <2>1. registry' \in [Processes -> [Points -> Repos \cup {NoRepo}]]
    BY <1>0, <1>7 DEF RemoveEntry, Removal, MountTypeOK, Jobs
  <2> QED
    BY <1>7, <2>1, ReturnTypes DEF RemoveEntry, MountTypeOK
<1>8. CASE LeaveMounted(c) \/ Exit(c)
  BY <1>0, <1>8, ExitTypes DEF LeaveMounted, Exit
<1> QED
  BY <1>1, <1>2, <1>3, <1>4, <1>5, <1>6, <1>7, <1>8 DEF Call, CallerStep

LEMMA MountTypesStep == MountTypeOK /\ [MountNext]_mountVars => MountTypeOK'
<1> SUFFICES ASSUME MountTypeOK, [MountNext]_mountVars
             PROVE  MountTypeOK'
  OBVIOUS
<1>1. ASSUME NEW m \in Mounts, Write(m) \/ Commit(m) \/ Destroy(m) \/ AutoUnmount(m)
      PROVE  MountTypeOK'
  <2>1. /\ [session[m] EXCEPT !.pending = TRUE] \in Sessions
        /\ [session[m] EXCEPT !.pending = FALSE] \in Sessions
        /\ [session[m] EXCEPT !.serving = FALSE, !.pending = FALSE] \in Sessions
        /\ [session[m] EXCEPT !.listed = FALSE] \in Sessions
    BY DEF MountTypeOK, Sessions
  <2> QED
    BY <1>1, <2>1, UpdateTypes DEF Write, Commit, Destroy, AutoUnmount
<1>2. ASSUME NEW p \in Processes, Crash(p)
      PROVE  MountTypeOK'
  BY <1>2, EndTypes DEF Crash, MountTypeOK
<1>3. ASSUME NEW p \in Processes, Start(p)
      PROVE  MountTypeOK'
  BY <1>3 DEF Start, MountTypeOK
<1>4. CASE UNCHANGED mountVars
  BY <1>4 DEF mountVars, MountTypeOK
<1> QED
  BY <1>1, <1>2, <1>3, <1>4, CallerTypes DEF MountNext
-----------------------------------------------------------------------------
(* Steps that neither spawn, register, unmount nor end a process           *)

\* Who and where a session is does not change.
SameSessions ==
    \A m \in Mounts : /\ session'[m].repo = session[m].repo
                      /\ session'[m].point = session[m].point
                      /\ session'[m].process = session[m].process

\* No mount comes or goes, no call gets to spawn or unmount or leaves there.
QuietStep ==
    /\ UNCHANGED <<registry, spawned, disturbed>>
    /\ SameSessions
    /\ \A m \in Mounts : /\ session'[m].listed => session[m].listed
                         /\ session'[m].serving => session[m].serving
                         /\ Mounted(m)' = Mounted(m)
    /\ \A c \in Callers :
          \/ pc'[c] = pc[c] /\ job'[c] = job[c]
          \/ /\ pc[c] \notin {"spawned", "unmounted"}
             /\ pc'[c] \notin {"spawned", "unmounted"}

LEMMA QuietKeeps == MountInv /\ MountTypeOK' /\ QuietStep => MountInv'
<1> SUFFICES ASSUME MountInv, MountTypeOK', QuietStep
             PROVE  MountInv'
  OBVIOUS
<1> USE DEF QuietStep
<1>1. \A c \in Callers : pc'[c] = "spawned" <=> pc[c] = "spawned"
  OBVIOUS
<1>2. \A c \in Callers : pc'[c] = "unmounted" <=> pc[c] = "unmounted"
  OBVIOUS
<1>3. \A c \in Callers : pc[c] \in {"spawned", "unmounted"} => job'[c] = job[c]
  OBVIOUS
<1>4. ASSUME NEW c \in Callers PROVE job[c].mount \in Mounts
  BY DEF MountInv, MountTypeOK, Jobs
<1>5. SpawnedJobs'
  BY <1>1, <1>3, <1>4 DEF MountInv, SpawnedJobs, SameSessions
<1>7. LaterUnused'
  BY DEF MountInv, LaterUnused
<1>8. HiddenDisturbed'
  BY DEF MountInv, HiddenDisturbed, SameSessions
<1>9. OverwrittenDisturbed'
  BY <1>1, <1>3 DEF MountInv, OverwrittenDisturbed, SameSessions
<1>10. RemovedDisturbed'
  BY <1>2, <1>3 DEF MountInv, RemovedDisturbed, SameSessions
<1>11. \A m \in Mounts : Registering(m)' <=> Registering(m)
  BY <1>1, <1>3 DEF Registering
<1>12. MountedIsRegistered'
  BY <1>11 DEF MountInv, MountedIsRegistered, SameSessions
<1>13. \A p \in Processes, pt \in Points : Removing(p, pt)' <=> Removing(p, pt)
  BY <1>2, <1>3 DEF Removing
<1>14. RegisteredIsMounted'
  BY <1>13 DEF MountInv, RegisteredIsMounted, SameSessions
<1> QED
  BY <1>5, <1>7, <1>8, <1>9, <1>10, <1>12, <1>14 DEF MountInv

LEMMA UpdateIsQuiet ==
    ASSUME MountInv, NEW m \in Mounts, NEW s \in Sessions, Update(m, s),
           s.repo = session[m].repo, s.point = session[m].point,
           s.process = session[m].process,
           s.listed => session[m].listed, s.serving => session[m].serving,
           (s.listed /\ s.serving) = Mounted(m)
    PROVE  QuietStep
<1>1. session' = [session EXCEPT ![m] = s] /\ session \in [Mounts -> Sessions]
  BY DEF Update, MountInv, MountTypeOK
<1>2. \A n \in Mounts : session'[n] = IF n = m THEN s ELSE session[n]
  BY <1>1
<1>3. \A n \in Mounts : Mounted(n)' = (session'[n].listed /\ session'[n].serving)
  BY DEF Mounted
<1>4. \A n \in Mounts : Mounted(n)' = Mounted(n)
  BY <1>2, <1>3 DEF Mounted
<1> QED
  BY <1>2, <1>4 DEF QuietStep, SameSessions, Update

LEMMA SessionStepsAreQuiet ==
    ASSUME MountInv, NEW m \in Mounts,
           Write(m) \/ Commit(m) \/ Destroy(m) \/ AutoUnmount(m)
    PROVE  QuietStep
<1>1. session[m] \in Sessions
  BY DEF MountInv, MountTypeOK
<1>2. CASE Write(m)
  <2> DEFINE s == [session[m] EXCEPT !.pending = TRUE]
  <2>1. s \in Sessions /\ s.repo = session[m].repo /\ s.point = session[m].point
        /\ s.process = session[m].process /\ s.listed = session[m].listed
        /\ s.serving = session[m].serving
    BY <1>1 DEF Sessions
  <2> QED
    BY <1>2, <2>1, UpdateIsQuiet DEF Write, Mounted
<1>3. CASE Commit(m)
  <2> DEFINE s == [session[m] EXCEPT !.pending = FALSE]
  <2>1. s \in Sessions /\ s.repo = session[m].repo /\ s.point = session[m].point
        /\ s.process = session[m].process /\ s.listed = session[m].listed
        /\ s.serving = session[m].serving
    BY <1>1 DEF Sessions
  <2> QED
    BY <1>3, <2>1, UpdateIsQuiet DEF Commit, Mounted
<1>4. CASE Destroy(m)
  <2> DEFINE s == [session[m] EXCEPT !.serving = FALSE, !.pending = FALSE]
  <2>1. s \in Sessions /\ s.repo = session[m].repo /\ s.point = session[m].point
        /\ s.process = session[m].process /\ s.listed = session[m].listed
        /\ s.serving = FALSE
    BY <1>1 DEF Sessions
  <2> QED
    BY <1>4, <2>1, UpdateIsQuiet DEF Destroy, Mounted
<1>5. CASE AutoUnmount(m)
  <2> DEFINE s == [session[m] EXCEPT !.listed = FALSE]
  <2>1. s \in Sessions /\ s.repo = session[m].repo /\ s.point = session[m].point
        /\ s.process = session[m].process /\ s.listed = FALSE
        /\ s.serving = session[m].serving
    BY <1>1 DEF Sessions
  <2> QED
    BY <1>1, <1>5, <2>1, UpdateIsQuiet DEF AutoUnmount, Mounted, Dead
<1> QED
  BY <1>2, <1>3, <1>4, <1>5

LEMMA GoIsQuiet ==
    ASSUME MountInv, NEW c \in Callers, NEW from, NEW to, Go(c, from, to),
           from \notin {"spawned", "unmounted"},
           to \notin {"spawned", "unmounted"}
    PROVE  QuietStep
BY DEF MountInv, MountTypeOK, Go, At, QuietStep, SameSessions, Mounted

LEMMA CheckIsQuiet ==
    ASSUME MountInv, NEW c \in Callers, NEW r \in Repos, NEW pt \in Points,
           CheckRegistry(c, r, pt)
    PROVE  QuietStep
<1>1. \A d \in Callers \ {c} : pc'[d] = pc[d] /\ job'[d] = job[d]
  BY DEF MountInv, MountTypeOK, CheckRegistry
<1>2. pc[c] = "idle" /\ pc'[c] = "checked"
  BY DEF MountInv, MountTypeOK, CheckRegistry, At
<1>3. UNCHANGED <<registry, session, spawned, disturbed>>
  BY DEF CheckRegistry
<1> QED
  BY <1>1, <1>2, <1>3 DEF QuietStep, SameSessions, Mounted
-----------------------------------------------------------------------------
(* The end of a process                                                    *)

LEMMA EndKeeps ==
    ASSUME MountInv, MountTypeOK', NEW p \in Processes, End(p)
    PROVE  MountInv'
<1>1. UNCHANGED <<spawned, disturbed>>
  BY DEF End
<1>2. \A m \in Mounts :
          /\ session'[m].repo = session[m].repo
          /\ session'[m].point = session[m].point
          /\ session'[m].process = session[m].process
          /\ session'[m].listed = session[m].listed
          /\ session'[m].serving = (session[m].serving /\ session[m].process # p)
  <2> SUFFICES ASSUME NEW m \in Mounts
               PROVE  /\ session'[m].repo = session[m].repo
                      /\ session'[m].point = session[m].point
                      /\ session'[m].process = session[m].process
                      /\ session'[m].listed = session[m].listed
                      /\ session'[m].serving = (session[m].serving /\ session[m].process # p)
    OBVIOUS
  <2>1. session[m] \in Sessions
    BY DEF MountInv, MountTypeOK
  <2>2. CASE Runs(p, m)
    <3>1. session'[m] = [session[m] EXCEPT !.serving = FALSE, !.pending = FALSE]
      BY <2>2 DEF End
    <3> QED
      BY <2>1, <2>2, <3>1 DEF Sessions, Runs
  <2>3. CASE ~Runs(p, m)
    <3>1. session'[m] = session[m]
      BY <2>3 DEF End
    <3> QED
      BY <2>1, <2>3, <3>1 DEF Sessions, Runs
  <2> QED
    BY <2>2, <2>3
<1>3. \A m \in Mounts : Mounted(m)' <=> Mounted(m) /\ session[m].process # p
  BY <1>2 DEF Mounted
<1>4. \A c \in Callers :
          \/ ProcessOf[c] = p /\ pc'[c] = "idle"
          \/ ProcessOf[c] # p /\ pc'[c] = pc[c] /\ job'[c] = job[c]
  BY DEF End
<1>5. ASSUME NEW c \in Callers PROVE job[c].mount \in Mounts
  BY DEF MountInv, MountTypeOK, Jobs
<1>6. SpawnedJobs'
  BY <1>1, <1>2, <1>3, <1>4, <1>5 DEF MountInv, SpawnedJobs
<1>8. LaterUnused'
  BY <1>1, <1>2 DEF MountInv, LaterUnused
<1>9. HiddenDisturbed'
  BY <1>1, <1>2 DEF MountInv, HiddenDisturbed
<1>10. OverwrittenDisturbed'
  BY <1>1, <1>2, <1>4 DEF MountInv, OverwrittenDisturbed
<1>11. RemovedDisturbed'
  BY <1>1, <1>2, <1>3, <1>4 DEF MountInv, RemovedDisturbed
<1>12. \A q \in Processes : registry'[q] = IF q = p THEN NoEntries ELSE registry[q]
  BY DEF MountInv, MountTypeOK, End
<1>13. MountedIsRegistered'
  <2> SUFFICES ASSUME NEW m \in Mounts, m \notin disturbed', Mounted(m)', ~Registering(m)'
               PROVE  registry'[session'[m].process][session'[m].point] = session'[m].repo
    BY DEF MountedIsRegistered
  <2>1. Mounted(m) /\ session[m].process # p /\ m \notin disturbed
    BY <1>1, <1>3
  <2>2. ~Registering(m)
    <3> SUFFICES ASSUME NEW c \in Callers, pc[c] = "spawned", job[c].mount = m
                 PROVE  FALSE
      BY DEF Registering
    <3>1. session[m].process = ProcessOf[c]
      BY DEF MountInv, SpawnedJobs
    <3> QED
      BY <1>4, <2>1, <3>1 DEF Registering
  <2>3. session[m].process \in Processes
    BY DEF MountInv, MountTypeOK, Sessions
  <2> QED
    BY <1>2, <1>12, <2>1, <2>2, <2>3 DEF MountInv, MountedIsRegistered
<1>14. RegisteredIsMounted'
  <2> SUFFICES ASSUME NEW q \in Processes, NEW pt \in Points, registry'[q][pt] # NoRepo,
                      ~Removing(q, pt)'
               PROVE  \E m \in Mounts :
                         /\ session'[m].process = q /\ session'[m].point = pt
                         /\ session'[m].repo = registry'[q][pt]
                         /\ Mounted(m)' \/ m \in disturbed'
    BY DEF RegisteredIsMounted
  <2>1. q # p /\ registry'[q] = registry[q]
    BY <1>12 DEF NoEntries
  <2>2. ~Removing(q, pt)
    BY <1>4, <2>1 DEF Removing
  <2>3. PICK m \in Mounts :
            /\ session[m].process = q /\ session[m].point = pt
            /\ session[m].repo = registry[q][pt]
            /\ Mounted(m) \/ m \in disturbed
    BY <2>1, <2>2 DEF MountInv, RegisteredIsMounted
  <2> QED
    BY <1>1, <1>2, <1>3, <2>1, <2>3
<1> QED
  BY <1>6, <1>8, <1>9, <1>10, <1>11, <1>13, <1>14 DEF MountInv
-----------------------------------------------------------------------------
(* mount: a new session, and its entry                                     *)

LEMMA SpawnKeeps ==
    ASSUME MountInv, MountTypeOK', NEW c \in Callers, Spawn(c)
    PROVE  MountInv'
<1> DEFINE P == ProcessOf[c]
<1>a. spawned + 1 \in Mounts
  BY MountAssumption DEF MountInv, MountTypeOK, Spawn, Mounts
<1>b. PICK n \in Mounts : n = spawned + 1
  BY <1>a
<1>0. /\ n = spawned + 1 /\ spawned' = n /\ spawned \in Nat
      /\ pc[c] = "checked" /\ pc'[c] = "spawned"
      /\ registry' = registry /\ P \in Processes
  BY <1>b, MountAssumption DEF MountInv, MountTypeOK, Spawn, At
<1>1. /\ job'[c].mount = n /\ job'[c].repo = job[c].repo /\ job'[c].point = job[c].point
      /\ job[c].repo \in Repos /\ job[c].point \in Points
  BY <1>0 DEF MountInv, MountTypeOK, Jobs, Spawn
<1>2. \A d \in Callers \ {c} : pc'[d] = pc[d] /\ job'[d] = job[d]
  BY DEF MountInv, MountTypeOK, Spawn
<1>3. /\ session'[n].process = P
      /\ session'[n].repo = job[c].repo /\ session'[n].point = job[c].point
      /\ Mounted(n)'
  BY <1>0 DEF MountInv, MountTypeOK, Spawn, Mounted
<1>4. \A m \in Mounts : m # n => session'[m] = session[m]
  BY <1>0 DEF MountInv, MountTypeOK, Spawn
<1>5. \A m \in Mounts : m # n => Mounted(m)' = Mounted(m)
  BY <1>4 DEF Mounted
<1>6. /\ disturbed \subseteq disturbed'
      /\ \A m \in Listed(job[c].point) : m \in disturbed'
      /\ \A m \in disturbed' : m = n \/ m \in disturbed \/ m \in Listed(job[c].point)
      /\ n \in disturbed' <=> n \in disturbed \/ n \in Listed(job[c].point) \/ Overtaken(c)
  BY <1>0 DEF Spawn
<1>7. n \notin disturbed /\ ~session[n].listed /\ ~Mounted(n)
  BY <1>0 DEF MountInv, LaterUnused, Mounted
<1>8. \A m \in Mounts : Mounted(m) \/ session[m].listed \/ m \in disturbed => m <= spawned
  BY <1>0 DEF MountInv, LaterUnused, Mounted, Mounts
<1>9. \A d \in Callers : job[d].mount \in Mounts
  BY DEF MountInv, MountTypeOK, Jobs
<1>10. SpawnedJobs'
  <2> SUFFICES ASSUME NEW d \in Callers, pc'[d] = "spawned"
               PROVE  LET m == job'[d].mount
                      IN  /\ m <= spawned'
                          /\ session'[m].process = ProcessOf[d]
                          /\ session'[m].repo = job'[d].repo
                          /\ session'[m].point = job'[d].point
                          /\ \/ session'[m].listed /\ session'[m].serving
                             \/ m \in disturbed'
    BY DEF SpawnedJobs, Mounted
  <2>1. CASE d = c
    BY <1>0, <1>1, <1>3, <2>1 DEF Mounted
  <2>2. CASE d # c
    <3>1. LET m == job[d].mount
          IN  /\ m <= spawned /\ session[m].process = ProcessOf[d]
              /\ session[m].repo = job[d].repo /\ session[m].point = job[d].point
              /\ Mounted(m) \/ m \in disturbed
      BY <1>2, <2>2 DEF MountInv, SpawnedJobs
    <3>2. job[d].mount # n /\ job[d].mount \in Mounts /\ job[d].mount <= n
      BY <1>0, <1>9, <3>1 DEF Mounts
    <3> QED
      BY <1>0, <1>2, <1>4, <1>6, <2>2, <3>1, <3>2 DEF Mounted
  <2> QED
    BY <2>1, <2>2
<1>12. LaterUnused'
  <2>1. \A m \in disturbed' : m <= n
    <3>1. \A m \in disturbed' : m \in Mounts
      BY DEF MountTypeOK
    <3> QED
      BY <1>0, <1>6, <1>8, <3>1 DEF Listed, Mounts
  <2>2. \A m \in Mounts : n < m => spawned < m /\ m # n
    BY <1>0 DEF Mounts
  <2> QED
    BY <1>0, <1>4, <2>1, <2>2 DEF MountInv, LaterUnused
<1>13. HiddenDisturbed'
  <2> SUFFICES ASSUME NEW m \in Mounts, NEW k \in Mounts, m < k, k <= n,
                      session'[m].listed, session'[m].point = session'[k].point
               PROVE  m \in disturbed'
    BY <1>0 DEF HiddenDisturbed
  <2>1. m # n
    BY <1>0 DEF Mounts
  <2>2. CASE k = n
    BY <1>3, <1>4, <1>6, <2>1, <2>2 DEF Listed
  <2>3. CASE k # n
    <3>1. k <= spawned
      BY <1>0, <2>3 DEF Mounts
    <3> QED
      BY <1>4, <1>6, <2>1, <2>3, <3>1 DEF MountInv, HiddenDisturbed
  <2> QED
    BY <2>2, <2>3
<1>14. OverwrittenDisturbed'
  <2> SUFFICES ASSUME NEW d \in Callers, NEW m \in Mounts,
                      pc'[d] = "spawned", job'[d].mount < m, m <= n,
                      session'[m].process = ProcessOf[d], session'[m].point = job'[d].point
               PROVE  m \in disturbed'
    BY <1>0 DEF OverwrittenDisturbed
  <2>1. d # c
    BY <1>0, <1>1 DEF Mounts
  <2>2. pc[d] = "spawned" /\ job'[d] = job[d]
    BY <1>2, <2>1
  <2>3. CASE m = n
    <3>1. Overtaken(c)
      BY <1>3, <2>1, <2>2, <2>3 DEF Overtaken
    <3> QED
      BY <1>6, <2>3, <3>1
  <2>4. CASE m # n
    <3>1. m <= spawned
      BY <1>0, <2>4 DEF Mounts
    <3> QED
      BY <1>4, <1>6, <2>2, <2>4, <3>1 DEF MountInv, OverwrittenDisturbed
  <2> QED
    BY <2>3, <2>4
<1>15. RemovedDisturbed'
  <2> SUFFICES ASSUME NEW d \in Callers, NEW m \in Mounts, pc'[d] = "unmounted",
                      session'[m].process = ProcessOf[d], session'[m].point = job'[d].point,
                      Mounted(m)'
               PROVE  m \in disturbed'
    BY DEF RemovedDisturbed
  <2>1. pc[d] = "unmounted" /\ job'[d] = job[d]
    BY <1>0, <1>2
  <2>2. CASE m = n
    <3>1. Overtaken(c)
      BY <1>3, <2>1, <2>2 DEF Overtaken, Removing
    <3> QED
      BY <1>6, <2>2, <3>1
  <2>3. CASE m # n
    BY <1>4, <1>5, <1>6, <2>1, <2>3 DEF MountInv, RemovedDisturbed
  <2> QED
    BY <2>2, <2>3
<1>16. \A m \in Mounts : m # n /\ Registering(m) => Registering(m)'
  BY <1>0, <1>2 DEF Registering
<1>17. Registering(n)'
  BY <1>0, <1>1 DEF Registering
<1>18. MountedIsRegistered'
  <2> SUFFICES ASSUME NEW m \in Mounts, m \notin disturbed', Mounted(m)', ~Registering(m)'
               PROVE  registry'[session'[m].process][session'[m].point] = session'[m].repo
    BY DEF MountedIsRegistered
  <2>1. m # n /\ ~Registering(m)
    BY <1>16, <1>17
  <2> QED
    BY <1>0, <1>4, <1>5, <1>6, <2>1 DEF MountInv, MountedIsRegistered
<1>19. \A q \in Processes, pt \in Points : Removing(q, pt) => Removing(q, pt)'
  BY <1>0, <1>2 DEF Removing
<1>20. RegisteredIsMounted'
  <2> SUFFICES ASSUME NEW q \in Processes, NEW pt \in Points, registry[q][pt] # NoRepo,
                      ~Removing(q, pt)
               PROVE  \E m \in Mounts :
                         /\ session'[m].process = q /\ session'[m].point = pt
                         /\ session'[m].repo = registry[q][pt]
                         /\ Mounted(m)' \/ m \in disturbed'
    BY <1>0, <1>19 DEF RegisteredIsMounted
  <2>1. PICK m \in Mounts :
            /\ session[m].process = q /\ session[m].point = pt
            /\ session[m].repo = registry[q][pt]
            /\ Mounted(m) \/ m \in disturbed
    BY DEF MountInv, RegisteredIsMounted
  <2>2. m # n
    BY <1>7, <2>1
  <2> QED
    BY <1>4, <1>5, <1>6, <2>1, <2>2
<1> QED
  BY <1>10, <1>12, <1>13, <1>14, <1>15, <1>18, <1>20 DEF MountInv

\* Whatever the caller does next, its call is over.
LEMMA Returned ==
    ASSUME MountInv, NEW c \in Callers, NEW next, Return(c, next)
    PROVE  /\ pc'[c] \in {"idle", next}
           /\ \A d \in Callers \ {c} : pc'[d] = pc[d] /\ job'[d] = job[d]
BY DEF MountInv, MountTypeOK, Return

LEMMA RegisterKeeps ==
    ASSUME MountInv, MountTypeOK', NEW c \in Callers, Register(c)
    PROVE  MountInv'
<1> DEFINE n == job[c].mount
           P == ProcessOf[c]
<1>0. /\ P \in Processes /\ pc[c] = "spawned"
      /\ UNCHANGED <<session, spawned, disturbed>>
      /\ job[c].point \in Points /\ job[c].repo \in Repos /\ n \in Mounts
  BY MountAssumption DEF MountInv, MountTypeOK, Jobs, Register, At
<1>1. pc'[c] \in {"idle", "started"} /\ \A d \in Callers \ {c} : pc'[d] = pc[d] /\ job'[d] = job[d]
  BY Returned DEF Register
<1>2. \A q \in Processes, pt \in Points :
          registry'[q][pt] = IF q = P /\ pt = job[c].point THEN job[c].repo ELSE registry[q][pt]
  BY <1>0 DEF MountInv, MountTypeOK, Register, Entry
<1>3. \A m \in Mounts : Mounted(m)' = Mounted(m)
  BY <1>0 DEF Mounted
<1>4. /\ n <= spawned /\ session[n].process = P
      /\ session[n].repo = job[c].repo /\ session[n].point = job[c].point
      /\ Mounted(n) \/ n \in disturbed
  BY <1>0 DEF MountInv, SpawnedJobs
<1>5. SpawnedJobs'
  <2>1. \A d \in Callers : job[d].mount \in Mounts
    BY DEF MountInv, MountTypeOK, Jobs
  <2> QED
    BY <1>0, <1>1, <1>3, <2>1 DEF MountInv, SpawnedJobs
<1>7. LaterUnused' /\ HiddenDisturbed'
  BY <1>0 DEF MountInv, LaterUnused, HiddenDisturbed
<1>8. OverwrittenDisturbed'
  BY <1>0, <1>1 DEF MountInv, OverwrittenDisturbed
<1>9. RemovedDisturbed'
  BY <1>0, <1>1, <1>3 DEF MountInv, RemovedDisturbed
<1>10. MountedIsRegistered'
  <2> SUFFICES ASSUME NEW m \in Mounts, m \notin disturbed, Mounted(m), ~Registering(m)'
               PROVE  registry'[session[m].process][session[m].point] = session[m].repo
    BY <1>0, <1>3 DEF MountedIsRegistered
  <2>1. session[m].process \in Processes /\ session[m].point \in Points
    BY DEF MountInv, MountTypeOK, Sessions
  <2>2. CASE m = n
    BY <1>0, <1>2, <1>4, <2>2
  <2>3. CASE m # n /\ session[m].process = P /\ session[m].point = job[c].point
    <3>1. m <= spawned
      BY <1>0 DEF MountInv, LaterUnused, Mounted, Mounts, MountTypeOK
    <3>2. m < n \/ n < m
      BY <1>0, <2>3 DEF Mounts
    <3>3. CASE m < n
      BY <1>0, <1>4, <2>3, <3>3 DEF MountInv, HiddenDisturbed, Mounted
    <3>4. CASE n < m
      BY <1>0, <2>3, <3>1, <3>4 DEF MountInv, OverwrittenDisturbed
    <3> QED
      BY <3>2, <3>3, <3>4
  <2>4. CASE m # n /\ ~(session[m].process = P /\ session[m].point = job[c].point)
    <3>1. ~Registering(m)
      BY <1>1, <2>4 DEF Registering
    <3> QED
      BY <1>2, <2>1, <2>4, <3>1 DEF MountInv, MountedIsRegistered
  <2> QED
    BY <2>2, <2>3, <2>4
<1>11. \A q \in Processes, pt \in Points : Removing(q, pt)' <=> Removing(q, pt)
  BY <1>0, <1>1 DEF Removing
<1>12. RegisteredIsMounted'
  <2> SUFFICES ASSUME NEW q \in Processes, NEW pt \in Points, registry'[q][pt] # NoRepo,
                      ~Removing(q, pt)
               PROVE  \E m \in Mounts :
                         /\ session[m].process = q /\ session[m].point = pt
                         /\ session[m].repo = registry'[q][pt]
                         /\ Mounted(m) \/ m \in disturbed
    BY <1>0, <1>3, <1>11 DEF RegisteredIsMounted
  <2>1. CASE q = P /\ pt = job[c].point
    BY <1>0, <1>2, <1>4, <2>1
  <2>2. CASE ~(q = P /\ pt = job[c].point)
    BY <1>2, <2>2 DEF MountInv, RegisteredIsMounted
  <2> QED
    BY <2>1, <2>2
<1> QED
  BY <1>5, <1>7, <1>8, <1>9, <1>10, <1>12 DEF MountInv
-----------------------------------------------------------------------------
(* unmount: the session is cut off, and its entry                          *)

LEMMA UnmountKeeps ==
    ASSUME MountInv, MountTypeOK', NEW c \in Callers, NEW n \in Mounts, Unmount(c, n)
    PROVE  MountInv'
<1> DEFINE P == ProcessOf[c]
<1>0. /\ P \in Processes /\ UNCHANGED <<registry, spawned>>
      /\ pc[c] \in {"idle", "interrupted"} /\ pc'[c] = "unmounted"
      /\ job'[c].point = session[n].point
  BY MountAssumption DEF MountInv, MountTypeOK, Jobs, Unmount, CallsUnmount, At
<1>1. \A d \in Callers \ {c} : pc'[d] = pc[d] /\ job'[d] = job[d]
  BY DEF MountInv, MountTypeOK, Unmount
<1>2. \A m \in Mounts :
          /\ session'[m].repo = session[m].repo
          /\ session'[m].point = session[m].point
          /\ session'[m].process = session[m].process
          /\ session'[m].serving = session[m].serving
          /\ session'[m].listed = (session[m].listed /\ m # n)
  <2>1. session \in [Mounts -> Sessions]
    BY DEF MountInv, MountTypeOK
  <2>2. session'[n] = [session[n] EXCEPT !.listed = FALSE]
    BY <2>1 DEF Unmount
  <2>3. \A m \in Mounts \ {n} : session'[m] = session[m] /\ session[m] \in Sessions
    BY <2>1 DEF Unmount
  <2>4. /\ session'[n].repo = session[n].repo /\ session'[n].point = session[n].point
        /\ session'[n].process = session[n].process
        /\ session'[n].serving = session[n].serving /\ session'[n].listed = FALSE
    BY <2>1, <2>2 DEF Sessions
  <2>5. \A m \in Mounts : session[m].listed \in BOOLEAN
    BY <2>1 DEF Sessions
  <2> QED
    BY <2>3, <2>4, <2>5
<1>3. \A m \in Mounts : Mounted(m)' <=> Mounted(m) /\ m # n
  BY <1>2 DEF Mounted
<1>4. session[n].listed /\ \A m \in Mounts :
          session[m].listed /\ session[m].point = session[n].point => m <= n
  BY DEF Unmount, OnTop, Listed
<1>5. n <= spawned
  BY <1>4 DEF MountInv, LaterUnused, Mounts, MountTypeOK
<1>6. /\ disturbed \subseteq disturbed' /\ disturbed' \subseteq disturbed \cup {n}
      /\ Unnoticed(c, n) => n \in disturbed'
  BY DEF Unmount
<1>7. \A d \in Callers : pc'[d] = "spawned" => d # c /\ pc[d] = "spawned" /\ job'[d] = job[d]
  BY <1>0, <1>1
<1>8. SpawnedJobs'
  <2> SUFFICES ASSUME NEW d \in Callers, pc'[d] = "spawned"
               PROVE  LET m == job[d].mount
                      IN  /\ m <= spawned'
                          /\ session'[m].process = ProcessOf[d]
                          /\ session'[m].repo = job[d].repo
                          /\ session'[m].point = job[d].point
                          /\ Mounted(m)' \/ m \in disturbed'
    BY <1>7 DEF SpawnedJobs
  <2>1. job[d].mount \in Mounts
    BY DEF MountInv, MountTypeOK, Jobs
  <2>2. job[d].mount = n => n \in disturbed'
    BY <1>6, <1>7 DEF Unnoticed, Registering
  <2> QED
    BY <1>0, <1>2, <1>3, <1>6, <1>7, <2>1, <2>2 DEF MountInv, SpawnedJobs
<1>10. LaterUnused'
  BY <1>0, <1>2, <1>5, <1>6 DEF MountInv, LaterUnused
<1>11. HiddenDisturbed'
  BY <1>0, <1>2, <1>6 DEF MountInv, HiddenDisturbed
<1>12. OverwrittenDisturbed'
  BY <1>0, <1>2, <1>6, <1>7 DEF MountInv, OverwrittenDisturbed
<1>13. RemovedDisturbed'
  <2> SUFFICES ASSUME NEW d \in Callers, NEW m \in Mounts, pc'[d] = "unmounted",
                      session[m].process = ProcessOf[d], session[m].point = job'[d].point,
                      Mounted(m), m # n
               PROVE  m \in disturbed'
    BY <1>2, <1>3 DEF RemovedDisturbed
  <2>1. CASE d = c
    <3>1. m < n
      BY <1>0, <1>4, <2>1 DEF Mounts, Mounted
    <3> QED
      BY <1>0, <1>5, <1>6, <2>1, <3>1 DEF MountInv, HiddenDisturbed, Mounted
  <2>2. CASE d # c
    BY <1>1, <1>6, <2>2 DEF MountInv, RemovedDisturbed
  <2> QED
    BY <2>1, <2>2
<1>14. \A m \in Mounts : Registering(m) => Registering(m)'
  BY <1>0, <1>1 DEF Registering
<1>15. MountedIsRegistered'
  BY <1>0, <1>2, <1>3, <1>6, <1>14 DEF MountInv, MountedIsRegistered
<1>16. RegisteredIsMounted'
  <2> SUFFICES ASSUME NEW q \in Processes, NEW pt \in Points, registry[q][pt] # NoRepo,
                      ~Removing(q, pt)'
               PROVE  \E m \in Mounts :
                         /\ session[m].process = q /\ session[m].point = pt
                         /\ session[m].repo = registry[q][pt]
                         /\ Mounted(m)' \/ m \in disturbed'
    BY <1>0, <1>2 DEF RegisteredIsMounted
  <2>1. ~Removing(q, pt)
    BY <1>0, <1>1 DEF Removing
  <2>2. PICK m \in Mounts :
            /\ session[m].process = q /\ session[m].point = pt
            /\ session[m].repo = registry[q][pt]
            /\ Mounted(m) \/ m \in disturbed
    BY <2>1 DEF MountInv, RegisteredIsMounted
  <2>3. CASE m = n
    <3>1. q # P
      BY <1>0, <2>2, <2>3 DEF Removing
    <3> QED
      BY <1>6, <2>2, <2>3, <3>1 DEF Unnoticed
  <2>4. CASE m # n
    BY <1>3, <1>6, <2>2, <2>4
  <2> QED
    BY <2>3, <2>4
<1> QED
  BY <1>8, <1>10, <1>11, <1>12, <1>13, <1>15, <1>16 DEF MountInv

LEMMA RemoveEntryKeeps ==
    ASSUME MountInv, MountTypeOK', NEW c \in Callers, RemoveEntry(c)
    PROVE  MountInv'
<1> DEFINE P == ProcessOf[c]
<1>0. /\ P \in Processes /\ pc[c] = "unmounted" /\ job[c].point \in Points
      /\ UNCHANGED <<session, spawned, disturbed>>
  BY MountAssumption DEF MountInv, MountTypeOK, Jobs, RemoveEntry, At
<1>1. pc'[c] \in {"idle", "leaving"} /\ \A d \in Callers \ {c} : pc'[d] = pc[d] /\ job'[d] = job[d]
  BY Returned DEF RemoveEntry
<1>2. \A q \in Processes, pt \in Points :
          registry'[q][pt] = IF q = P /\ pt = job[c].point THEN NoRepo ELSE registry[q][pt]
  BY <1>0 DEF MountInv, MountTypeOK, RemoveEntry, Removal
<1>3. \A m \in Mounts : Mounted(m)' = Mounted(m)
  BY <1>0 DEF Mounted
<1>4. SpawnedJobs'
  <2>1. \A d \in Callers : job[d].mount \in Mounts
    BY DEF MountInv, MountTypeOK, Jobs
  <2> QED
    BY <1>0, <1>1, <1>3, <2>1 DEF MountInv, SpawnedJobs
<1>6. LaterUnused' /\ HiddenDisturbed'
  BY <1>0 DEF MountInv, LaterUnused, HiddenDisturbed
<1>7. OverwrittenDisturbed'
  BY <1>0, <1>1 DEF MountInv, OverwrittenDisturbed
<1>8. RemovedDisturbed'
  BY <1>0, <1>1, <1>3 DEF MountInv, RemovedDisturbed
<1>9. \A m \in Mounts : Registering(m)' <=> Registering(m)
  BY <1>0, <1>1 DEF Registering
<1>10. MountedIsRegistered'
  <2> SUFFICES ASSUME NEW m \in Mounts, m \notin disturbed, Mounted(m), ~Registering(m)
               PROVE  registry'[session[m].process][session[m].point] = session[m].repo
    BY <1>0, <1>3, <1>9 DEF MountedIsRegistered
  <2>1. session[m].process \in Processes /\ session[m].point \in Points
    BY DEF MountInv, MountTypeOK, Sessions
  <2>2. ~(session[m].process = P /\ session[m].point = job[c].point)
    BY <1>0 DEF MountInv, RemovedDisturbed
  <2> QED
    BY <1>2, <2>1, <2>2 DEF MountInv, MountedIsRegistered
<1>11. RegisteredIsMounted'
  <2> SUFFICES ASSUME NEW q \in Processes, NEW pt \in Points, registry'[q][pt] # NoRepo,
                      ~Removing(q, pt)'
               PROVE  \E m \in Mounts :
                         /\ session[m].process = q /\ session[m].point = pt
                         /\ session[m].repo = registry'[q][pt]
                         /\ Mounted(m) \/ m \in disturbed
    BY <1>0, <1>3 DEF RegisteredIsMounted
  <2>1. ~(q = P /\ pt = job[c].point)
    BY <1>2
  <2>2. ~Removing(q, pt)
    BY <1>1, <2>1 DEF Removing
  <2> QED
    BY <1>2, <2>1, <2>2 DEF MountInv, RegisteredIsMounted
<1> QED
  BY <1>4, <1>6, <1>7, <1>8, <1>10, <1>11 DEF MountInv
-----------------------------------------------------------------------------
(* All steps of the mounts                                                 *)

LEMMA CallerKeeps ==
    ASSUME MountInv, MountTypeOK', NEW c \in Callers, Call(c) \/ CallerStep(c)
    PROVE  MountInv'
<1>0. ProcessOf[c] \in Processes
  BY MountAssumption
<1>1. CASE \E plan \in Plans[c] : CheckRegistry(c, plan[1], plan[2])
  <2>1. PICK r \in Repos, pt \in Points : CheckRegistry(c, r, pt)
    BY <1>1, MountAssumption
  <2> QED
    BY <2>1, CheckIsQuiet, QuietKeeps
<1>2. CASE \E m \in Mounts : Unmount(c, m)
  BY <1>2, UnmountKeeps
<1>3. CASE Interrupt(c) \/ Park(c) \/ UnmountFails(c)
  BY <1>3, GoIsQuiet, QuietKeeps DEF Interrupt, Park, UnmountFails
<1>4. CASE SpawnFails(c)
  <2>1. CASE Command(c)
    BY <1>0, <1>4, <2>1, EndKeeps DEF SpawnFails, Fail, ExitProcess
  <2>2. CASE ~Command(c)
    <3>1. /\ pc'[c] = "idle" /\ pc[c] = "checked"
          /\ \A d \in Callers \ {c} : pc'[d] = pc[d] /\ job'[d] = job[d]
          /\ UNCHANGED <<registry, session, spawned, disturbed>>
      BY <1>4, <2>2, Returned DEF SpawnFails, Fail, At
    <3>2. QuietStep
      BY <3>1 DEF QuietStep, SameSessions, Mounted
    <3> QED
      BY <3>2, QuietKeeps
  <2> QED
    BY <2>1, <2>2
<1>5. CASE LeaveMounted(c) \/ Exit(c)
  BY <1>0, <1>5, EndKeeps DEF LeaveMounted, Exit, ExitProcess
<1> QED
  BY <1>1, <1>2, <1>3, <1>4, <1>5, SpawnKeeps, RegisterKeeps, RemoveEntryKeeps
     DEF Call, CallerStep

LEMMA MountInvStarts == MountInit => MountInv
<1> SUFFICES ASSUME MountInit PROVE MountInv
  OBVIOUS
<1>1. \A m \in Mounts : ~session[m].serving /\ ~session[m].listed
  BY UnusedIsSession DEF MountInit
<1>2. \A c \in Callers : pc[c] = "idle"
  BY DEF MountInit
<1>3. SpawnedJobs /\ OverwrittenDisturbed /\ RemovedDisturbed
  BY <1>2 DEF SpawnedJobs, OverwrittenDisturbed, RemovedDisturbed
<1>4. LaterUnused /\ HiddenDisturbed /\ MountedIsRegistered
  BY <1>1 DEF MountInit, LaterUnused, HiddenDisturbed, MountedIsRegistered,
              Mounted
<1>5. RegisteredIsMounted
  BY DEF MountInit, NoEntries, RegisteredIsMounted
<1> QED
  BY <1>3, <1>4, <1>5, MountTypesStart DEF MountInv

LEMMA MountInvKept == MountInv /\ [MountNext]_mountVars => MountInv'
<1> SUFFICES ASSUME MountInv, [MountNext]_mountVars
             PROVE  MountInv'
  OBVIOUS
<1>0. MountTypeOK'
  BY MountTypesStep DEF MountInv
<1>1. ASSUME NEW m \in Mounts, Write(m) \/ Commit(m) \/ Destroy(m) \/ AutoUnmount(m)
      PROVE  MountInv'
  BY <1>0, <1>1, SessionStepsAreQuiet, QuietKeeps
<1>2. ASSUME NEW p \in Processes, Crash(p)
      PROVE  MountInv'
  BY <1>0, <1>2, EndKeeps DEF Crash
<1>3. ASSUME NEW p \in Processes, Start(p)
      PROVE  MountInv'
  <2>1. QuietStep
    BY <1>3 DEF Start, QuietStep, SameSessions, Mounted
  <2> QED
    BY <1>0, <2>1, QuietKeeps
<1>4. CASE UNCHANGED mountVars
  <2>1. QuietStep
    BY <1>4 DEF mountVars, QuietStep, SameSessions, Mounted
  <2> QED
    BY <1>0, <2>1, QuietKeeps
<1> QED
  BY <1>0, <1>1, <1>2, <1>3, <1>4, CallerKeeps DEF MountNext
-----------------------------------------------------------------------------
(* The health server and the composition                                   *)

LEMMA HealthInvStarts == HealthInit => HealthInv
BY DEF HealthInit, HealthInv, HealthTypeOK, NotReadyOnceStopped

LEMMA HealthInvKept ==
    HealthInv /\ (HealthNext \/ ServerDies \/ UNCHANGED healthVars) => HealthInv'
<1> SUFFICES ASSUME HealthInv, HealthNext \/ ServerDies \/ UNCHANGED healthVars
             PROVE  HealthInv'
  OBVIOUS
<1> USE DEF HealthInv, HealthTypeOK, NotReadyOnceStopped
<1>1. CASE StartServer \/ Shutdown \/ Drop \/ Join \/ Ask
  BY <1>1 DEF StartServer, Shutdown, Drop, Join, Ask
<1>2. CASE TestFlag \/ Receive
  BY <1>2 DEF TestFlag, Receive, Over, Goto
<1>3. CASE Decide
  BY <1>3 DEF Decide, Goto
<1>4. CASE Respond
  BY <1>4 DEF Respond
<1>5. CASE ServerDies \/ UNCHANGED healthVars
  BY <1>5 DEF ServerDies, healthVars
<1> QED
  BY <1>1, <1>2, <1>3, <1>4, <1>5 DEF HealthNext, LoopStep

\* The composition is a mount system: what its steps do to the mounts, mount,
\* unmount and the command do.
THEOREM LifecycleImplementsMounts == Spec => MountSpec
<1>1. Init => MountInit
  BY DEF Init
<1>2. [Next]_vars => [MountNext]_mountVars
  BY DEF Next, MountStep, ServerStep, vars
<1> QED
  BY <1>1, <1>2, PTL DEF Spec, MountSpec

\* The registry, its entries and the sessions are of their types (fs.rs:37-40).
THEOREM MountTypesCorrect == MountSpec => []MountTypeOK
<1> QED
  BY MountTypesStart, MountTypesStep, PTL DEF MountSpec

LEMMA MountInvHolds == MountSpec => []MountInv
BY MountInvStarts, MountInvKept, PTL DEF MountSpec

\* Every mount of a running process has its entry, unless it was hidden, taken
\* away unnoticed, or spawned on a check that no longer held (fs.rs:1144-1184).
THEOREM MountsAreRegistered == MountSpec => []MountedIsRegistered
<1>1. MountInv => MountedIsRegistered
  BY DEF MountInv
<1> QED
  BY <1>1, MountInvHolds, PTL

\* Every entry stands for a mount or for a removal under way, so that no
\* repository stays refused once it is unmounted (fs.rs:1250-1263).
THEOREM EntriesAreMounts == MountSpec => []RegisteredIsMounted
<1>1. MountInv => RegisteredIsMounted
  BY DEF MountInv
<1> QED
  BY <1>1, MountInvHolds, PTL

\* Who asks after shutdown() does not hear that the mount is ready (health.rs:9,
\* 124-138), also in the composition, where processes end and start.
THEOREM StoppedIsNotReady == Spec => []NotReadyOnceStopped
<1>1. Init => HealthInv
  BY HealthInvStarts DEF Init
<1>2. HealthInv /\ [Next]_vars => HealthInv'
  <2>1. [Next]_vars => HealthNext \/ ServerDies \/ UNCHANGED healthVars
    BY DEF Next, MountStep, ServerStep, vars
  <2> QED
    BY <2>1, HealthInvKept
<1>3. HealthInv => NotReadyOnceStopped
  BY DEF HealthInv
<1> QED
  BY <1>1, <1>2, <1>3, PTL DEF Spec
=============================================================================
