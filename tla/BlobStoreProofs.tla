-------------------------- MODULE BlobStoreProofs --------------------------
(***************************************************************************)
(* Proofs about BlobStore, for every set of callers, files and contents and  *)
(* with any number of calls, commits, rollbacks, failures and crashes.       *)
(*                                                                         *)
(* OrphansDeleted needs to know who is going to look after a blob that      *)
(* nothing points to any more: LookedAfter.  A caller that takes a pointer    *)
(* away takes it away before it searches, so whichever caller searches last   *)
(* finds none; and it knows of the pointer it takes away, or the blob is on   *)
(* record (Aware), as it is when a commit puts a pointer under its feet.      *)
(*                                                                         *)
(* ReadsBack rests on ContentInv.  A content that one caller stores only ever *)
(* is in that caller's files (OwnContents), so only this caller can delete its *)
(* blob, and by then it has searched all of its files (Searched, BlobIsThere). *)
(* What the committer has in hand is what the file held when it was read, or   *)
(* the race is on record (InHand).                                         *)
(***************************************************************************)
EXTENDS BlobStore, TLAPS

LEMMA PointerFacts ==
  /\ \A c \in Large : Pointer(c) \in Pointers /\ Pointer(c).blob = c
  /\ \A q \in Pointers : q.blob \in Large /\ q = Pointer(q.blob)
  BY DEF Pointer, Pointers

\* What pointers are made and read.
LEMMA PointerTypes ==
  /\ \A q \in Stored : PointerOf(q) \in Large \cup {NoBlob} /\ Pointerized(q) \in Stored
  /\ \A q \in Stored, c \in Large : PointerOf(q) = c <=> q = Pointer(c)
  /\ \A c \in Contents : Pointerized(c) \in Stored
  /\ \A c \in Large : Pointerized(c) = Pointer(c)
  /\ \A q : Pointerized(q) \notin Large /\ Pointerized(Pointerized(q)) = Pointerized(q)
  /\ \A c \in Large : Pointerized(Pointer(c)) = Pointer(c)
  /\ \A q, c : Pointerized(q) = Pointer(c) => q \in {c, Pointer(c)}
  <1> USE BlobAssumption
  <1>1. \A q \in Stored : PointerOf(q) \in Large \cup {NoBlob}
    BY PointerFacts DEF PointerOf
  <1>2. \A q \in Stored : Pointerized(q) \in Stored
    BY PointerFacts DEF Pointerized, Stored
  <1>3. \A q \in Stored, c \in Large : PointerOf(q) = c <=> q = Pointer(c)
    BY PointerFacts DEF PointerOf, Contents
  <1>4. \A c \in Contents : Pointerized(c) \in Stored
    BY <1>2 DEF Stored
  <1>5. \A c \in Large : Pointerized(c) = Pointer(c)
    BY DEF Pointerized
  <1>6. \A c \in Large : Pointer(c) \notin Large
    BY PointerFacts DEF Contents
  <1>7. \A q : Pointerized(q) \notin Large
    BY <1>6 DEF Pointerized
  <1>8. \A q : Pointerized(Pointerized(q)) = Pointerized(q)
    BY <1>7 DEF Pointerized
  <1>9. \A c \in Large : Pointerized(Pointer(c)) = Pointer(c)
    BY <1>6 DEF Pointerized
  <1>10. \A q, c : Pointerized(q) = Pointer(c) => q \in {c, Pointer(c)}
    BY PointerFacts DEF Pointerized, Pointer
  <1> QED
    BY <1>1, <1>2, <1>3, <1>4, <1>5, <1>7, <1>8, <1>9, <1>10

LEMMA NoJobTyped == NoJob \in Jobs /\ NoTree \in [Files -> Stored]
  BY DEF NoJob, NoTree, Jobs, Stored

LEMMA InitTyped == Init => TypeOK
  <1> SUFFICES ASSUME Init PROVE TypeOK
    OBVIOUS
  <1> USE BlobAssumption DEF Init
  <1>1. work \in [Files -> Contents \cup {Absent}]
    OBVIOUS
  <1>2. work \in [Files -> Stored] /\ expected \in [Files -> Contents \cup {Absent, Unknown}]
    BY <1>1 DEF Stored
  <1>3. commits \in Seq([Files -> Stored])
    OBVIOUS
  <1>4. job \in [Threads -> Jobs] /\ pc \in [Threads -> Locations]
    BY NoJobTyped DEF Locations
  <1>5. \A t \in Threads : JobOK(t, pc[t], job[t])
    BY DEF JobOK, Idle, NoJob
  <1>6. blobs \in [Large -> {"none", "partial", "whole"}]
    OBVIOUS
  <1>7. calls \in 0..MaxCalls /\ faults \in 0..MaxFaults
    OBVIOUS
  <1>8. /\ target \in Files \cup {Absent} /\ ~(target # Absent) /\ raced \in BOOLEAN /\ ~raced
        /\ torn \subseteq Large /\ leaked \subseteq Large
    OBVIOUS
  <1> QED
    BY ONLY <1>2, <1>3, <1>4, <1>5, <1>6, <1>7, <1>8 DEF TypeOK

\* A step of one thread leaves the jobs of the others alone.
LEMMA CallsTyped ==
  ASSUME TypeOK, NEW t \in Threads, NEW l \in Locations, NEW j \in Jobs, JobOK(t, l, j),
         pc' = [pc EXCEPT ![t] = l], job' = [job EXCEPT ![t] = j]
  PROVE  /\ pc' \in [Threads -> Locations] /\ job' \in [Threads -> Jobs]
         /\ \A u \in Threads : JobOK(u, pc'[u], job'[u])
  <1>1. pc' \in [Threads -> Locations] /\ job' \in [Threads -> Jobs]
    BY DEF TypeOK
  <1>2. \A u \in Threads : u # t => pc'[u] = pc[u] /\ job'[u] = job[u]
    BY DEF TypeOK
  <1>3. pc'[t] = l /\ job'[t] = j
    BY DEF TypeOK
  <1> QED
    BY <1>1, <1>2, <1>3 DEF TypeOK

\* The jobs a step makes.
LEMMA JobsTyped ==
  ASSUME TypeOK, NEW t \in Threads
  PROVE  /\ job[t] \in Jobs
         /\ \A f \in Files, c \in Contents, q \in Large \cup {NoBlob} :
               [NoJob EXCEPT !.file = f, !.content = c, !.previous = q] \in Jobs
         /\ \A f \in Files, q \in Large \cup {NoBlob} :
               [NoJob EXCEPT !.file = f, !.previous = q] \in Jobs
         /\ \A S \in SUBSET Files : [job[t] EXCEPT !.left = S] \in Jobs
         /\ \A b \in BOOLEAN : [job[t] EXCEPT !.linked = b] \in Jobs
         /\ \A S \in SUBSET Files, f \in Files, q \in Stored \ {Absent} :
               [job[t] EXCEPT !.left = S, !.file = f, !.content = q] \in Jobs
         /\ \A S \in SUBSET Files, tree \in [Files -> Stored] :
               [NoJob EXCEPT !.left = S, !.tree = tree] \in Jobs
         /\ \A S \in SUBSET Files : [NoJob EXCEPT !.left = S] \in Jobs
  <1>1. job[t] \in Jobs
    BY DEF TypeOK
  <1>2. Contents \subseteq Stored \ {Absent}
    BY BlobAssumption DEF Stored
  <1>3. NoJob \in Jobs
    BY NoJobTyped
  <1>4. \A f \in Files, c \in Contents, q \in Large \cup {NoBlob} :
               [NoJob EXCEPT !.file = f, !.content = c, !.previous = q] \in Jobs
    BY <1>2, <1>3 DEF Jobs, NoJob
  <1>5. \A f \in Files, q \in Large \cup {NoBlob} :
               [NoJob EXCEPT !.file = f, !.previous = q] \in Jobs
    BY <1>3 DEF Jobs, NoJob
  <1>6. \A S \in SUBSET Files : [job[t] EXCEPT !.left = S] \in Jobs
    BY <1>1 DEF Jobs
  <1>7. \A b \in BOOLEAN : [job[t] EXCEPT !.linked = b] \in Jobs
    BY <1>1 DEF Jobs
  <1>8. \A S \in SUBSET Files, f \in Files, q \in Stored \ {Absent} :
               [job[t] EXCEPT !.left = S, !.file = f, !.content = q] \in Jobs
    BY <1>1 DEF Jobs
  <1>9. \A S \in SUBSET Files, tree \in [Files -> Stored] :
               [NoJob EXCEPT !.left = S, !.tree = tree] \in Jobs
    BY <1>3 DEF Jobs, NoJob
  <1>10. \A S \in SUBSET Files : [NoJob EXCEPT !.left = S] \in Jobs
    BY <1>3 DEF Jobs, NoJob
  <1> QED
    BY <1>1, <1>4, <1>5, <1>6, <1>7, <1>8, <1>9, <1>10, Zenon

LEMMA SetLeft ==
  ASSUME NEW j \in Jobs, NEW S \in SUBSET Files, NEW t, NEW l, JobOK(t, l, j)
  PROVE  JobOK(t, l, [j EXCEPT !.left = S])
  BY DEF Jobs, JobOK

LEMMA ReturnTyped ==
  ASSUME TypeOK, NEW t \in Threads, Return(t)
  PROVE  /\ pc' \in [Threads -> Locations] /\ job' \in [Threads -> Jobs]
         /\ \A u \in Threads : JobOK(u, pc'[u], job'[u])
  <1>1. JobOK(t, Idle, NoJob) /\ Idle \in Locations
    BY DEF JobOK, Idle, Locations, NoJob
  <1> QED
    BY <1>1, CallsTyped, NoJobTyped DEF Return, Goto

LEMMA LookAfterTyped ==
  ASSUME TypeOK, NEW t \in Callers, pc[t] \in {"fill", "remove"}, NEW l \in SUBSET Files, NEW now,
         LookAfter(t, l, now)
  PROVE  /\ pc' \in [Threads -> Locations] /\ job' \in [Threads -> Jobs]
         /\ \A u \in Threads : JobOK(u, pc'[u], job'[u])
  <1>0. t \in Threads /\ t # Committer
    BY BlobAssumption DEF Threads
  <1>1. CASE job[t].previous \in Large /\ PointerOf(now) # job[t].previous
    <2>1. JobOK(t, "scan", job[t]) /\ "scan" \in Locations
      BY <1>0, <1>1 DEF TypeOK, JobOK, Locations, Idle
    <2>2. JobOK(t, "scan", [job[t] EXCEPT !.left = l]) /\ [job[t] EXCEPT !.left = l] \in Jobs
      BY <1>0, <2>1, SetLeft, JobsTyped, Zenon
    <2>3. /\ pc' = [pc EXCEPT ![t] = "scan"]
          /\ job' = [job EXCEPT ![t] = [job[t] EXCEPT !.left = l]]
      BY <1>1 DEF LookAfter, Goto
    <2> QED
      BY <1>0, <2>1, <2>2, <2>3, CallsTyped
  <1>2. CASE ~(job[t].previous \in Large /\ PointerOf(now) # job[t].previous)
    BY <1>0, <1>2, ReturnTyped DEF LookAfter
  <1> QED
    BY <1>1, <1>2

\* A file is filled with the text, or torn by it; a pointer is written whole, and so
\* is what is written to an empty file.
LEMMA FillFacts ==
  ASSUME work \in [Files -> Stored], NEW f \in Files, NEW text \in Stored, Fill(f, text)
  PROVE  /\ work' \in [Files -> Stored]
         /\ \A g \in Files : g # f => work'[g] = work[g]
         /\ work'[f] \in {text, Torn} \/ (text = Empty /\ work'[f] = work[f])
         /\ text \in Pointers \/ work[f] = Empty => work'[f] = text
  <1>1. PICK left \in {text, Torn} :
           /\ left = Torn => work[f] \notin {Empty, text} /\ text \notin Pointers
           /\ work' = [work EXCEPT ![f] = IF text = Empty THEN @ ELSE left]
    BY DEF Fill
  <1>2. Torn \in Stored /\ Empty \in Stored /\ Empty \notin Pointers
    BY BlobAssumption DEF Stored
  <1>3. left \in Stored /\ work' \in [Files -> Stored]
    BY <1>1, <1>2
  <1>4. work'[f] = IF text = Empty THEN work[f] ELSE left
    BY <1>1
  <1> QED
    BY <1>1, <1>2, <1>3, <1>4

CallsOK == /\ pc' \in [Threads -> Locations] /\ job' \in [Threads -> Jobs]
           /\ \A u \in Threads : JobOK(u, pc'[u], job'[u])

\* What a step that leaves the committer alone must see to.
LEMMA CallerTyped ==
  ASSUME TypeOK, CallsOK, work' \in [Files -> Stored],
         blobs' \in [Large -> {"none", "partial", "whole"}], commits' = commits,
         pc'[Committer] = pc[Committer], target' \in {target, Absent}, raced' \in BOOLEAN,
         raced' /\ ~raced => job[Committer].file \in Files \/ target # Absent,
         calls' \in 0..MaxCalls, faults' \in 0..MaxFaults,
         expected' \in [Files -> Contents \cup {Absent, Unknown}],
         torn' \subseteq Large, leaked' \subseteq Large
  PROVE  TypeOK'
  <1>1. Committer \in Threads
    BY DEF Threads
  <1>2. JobOK(Committer, pc[Committer], job[Committer])
    BY <1>1 DEF TypeOK
  <1>3. job[Committer].file \in Files => ~(At(Committer, Idle) \/ At(Committer, "build"))
    BY <1>2, BlobAssumption DEF JobOK, At
  <1>4. target # Absent => ~(At(Committer, Idle) \/ At(Committer, "build"))
    BY DEF TypeOK, At, Idle
  <1> QED
    BY <1>3, <1>4 DEF TypeOK, CallsOK, At

LEMMA TouchTyped ==
  ASSUME TypeOK, NEW f \in Files, Touch(f)
  PROVE  /\ raced' \in BOOLEAN
         /\ raced' /\ ~raced => job[Committer].file \in Files \/ target # Absent
  BY BlobAssumption DEF Touch, TypeOK

LEMMA CountTyped ==
  ASSUME TypeOK
  PROVE  /\ Count => calls' \in 0..MaxCalls
         /\ Fault => faults' \in 0..MaxFaults /\ calls' \in 0..MaxCalls
  BY BlobAssumption DEF TypeOK, Count, Fault

LEMMA ThreadFacts ==
  /\ Callers \subseteq Threads /\ Committer \in Threads
  /\ \A t \in Callers : t # Committer
  BY BlobAssumption DEF Threads

LEMMA WriteTyped ==
  ASSUME TypeOK, NEW t \in Callers, OpenFile(t) \/ FillFile(t)
  PROVE  TypeOK'
  <1>0. t \in Threads /\ t # Committer
    BY ThreadFacts
  <1>d. Absent \in Stored /\ Empty \in Stored
    BY DEF Stored
  <1>1. CASE OpenFile(t)
    <2>1. job[t] \in Jobs /\ JobOK(t, "fill", job[t]) /\ job[t].file \in Files
      BY <1>0, <1>1 DEF TypeOK, JobOK, OpenFile, At, Idle
    <2>2. pc' = [pc EXCEPT ![t] = "fill"] /\ job' = [job EXCEPT ![t] = job[t]]
      BY <1>0, <1>1 DEF OpenFile, Goto, TypeOK
    <2>3. CallsOK
      BY <1>0, <2>1, <2>2, CallsTyped DEF CallsOK, Locations
    <2>4. work' \in [Files -> Stored] /\ expected' \in [Files -> Contents \cup {Absent, Unknown}]
      BY <1>1, <1>d DEF OpenFile, TypeOK
    <2>5. /\ pc'[Committer] = pc[Committer]
          /\ UNCHANGED <<blobs, commits, target, calls, faults, torn, leaked>>
          /\ Touch(job[t].file)
      BY <1>0, <1>1, <2>2 DEF OpenFile, bounds
    <2> QED
      BY <2>1, <2>3, <2>4, <2>5, TouchTyped, CallerTyped DEF TypeOK
  <1>2. CASE FillFile(t)
    <2>1. job[t].content \in Contents /\ job[t].file \in Files /\ pc[t] = "fill"
      BY <1>0, <1>2 DEF TypeOK, JobOK, FillFile, At, Idle
    <2>2. LookAfter(t, Files, Pointerized(job[t].content))
      BY <1>2 DEF FillFile
    <2>3. CallsOK
      BY <2>1, <2>2, LookAfterTyped DEF CallsOK
    <2>4. Pointerized(job[t].content) \in Stored
      BY <2>1, PointerTypes
    <2>5. work' \in [Files -> Stored]
      BY <1>2, <2>1, <2>4, FillFacts DEF FillFile, TypeOK
    <2>6. expected' \in [Files -> Contents \cup {Absent, Unknown}]
      BY <1>2, <2>1 DEF FillFile, TypeOK
    <2>7. pc'[Committer] = pc[Committer]
      BY <1>0, <2>2, ThreadFacts DEF LookAfter, Goto, Return, TypeOK
    <2>8. /\ UNCHANGED <<blobs, commits, target, calls, faults, torn, leaked>>
          /\ Touch(job[t].file)
      BY <1>2 DEF FillFile, bounds
    <2> QED
      BY <2>1, <2>3, <2>5, <2>6, <2>7, <2>8, TouchTyped, CallerTyped DEF TypeOK
  <1> QED
    BY <1>1, <1>2

LEMMA RemoveTyped ==
  ASSUME TypeOK, NEW t \in Callers, RemoveFile(t)
  PROVE  TypeOK'
  <1>0. t \in Threads /\ t # Committer
    BY ThreadFacts
  <1>1. job[t].file \in Files /\ pc[t] = "remove"
    BY <1>0 DEF TypeOK, JobOK, RemoveFile, At, Idle
  <1>2. LookAfter(t, Files \ {job[t].file}, Absent)
    BY DEF RemoveFile
  <1>3. CallsOK
    BY <1>1, <1>2, LookAfterTyped DEF CallsOK
  <1>4. work' \in [Files -> Stored] /\ expected' \in [Files -> Contents \cup {Absent, Unknown}]
    BY DEF RemoveFile, TypeOK, Stored
  <1>5. pc'[Committer] = pc[Committer]
    BY <1>0, <1>2, ThreadFacts DEF LookAfter, Goto, Return, TypeOK
  <1>6. /\ UNCHANGED <<blobs, commits, calls, faults, torn, leaked>>
        /\ Touch(job[t].file) /\ target' \in {target, Absent}
    BY DEF RemoveFile, bounds
  <1> QED
    BY <1>1, <1>3, <1>4, <1>5, <1>6, TouchTyped, CallerTyped DEF TypeOK

\* The file that is truncated moves with its name, the committer stays where it is.
LEMMA RenameTyped ==
  ASSUME TypeOK, NEW t \in Callers, NEW f \in Files, NEW g \in Files, Rename(t, f, g)
  PROVE  TypeOK'
  <1>1. work' \in [Files -> Stored] /\ expected' \in [Files -> Contents \cup {Absent, Unknown}]
    BY DEF Rename, TypeOK, Stored
  <1>2. /\ leaked' \subseteq Large /\ calls' \in 0..MaxCalls
        /\ UNCHANGED <<blobs, commits, pc, job, faults, torn>>
    BY CountTyped DEF Rename, Dropped, TypeOK
  <1>3. target' \in Files \cup {Absent} /\ (target' # Absent => target # Absent)
    BY BlobAssumption DEF Rename, TypeOK
  <1>4. /\ raced' \in BOOLEAN
        /\ raced' /\ ~raced => job[Committer].file \in Files \/ target # Absent
    BY BlobAssumption DEF Rename, TypeOK
  <1>5. job[Committer].file \in Files => ~(At(Committer, Idle) \/ At(Committer, "build"))
    BY ThreadFacts, BlobAssumption DEF TypeOK, JobOK, At
  <1> QED
    BY <1>1, <1>2, <1>3, <1>4, <1>5 DEF TypeOK, At, Idle

LEMMA CallTyped ==
  ASSUME TypeOK, NEW t \in Callers, Call(t)
  PROVE  TypeOK'
  <1>0. t \in Threads /\ t # Committer
    BY ThreadFacts
  <1>b. \A f \in Files : PointerOf(work[f]) \in Large \cup {NoBlob}
    BY PointerTypes DEF TypeOK
  <1>1. ASSUME NEW f \in Files, NEW c \in Contents, WriteFile(t, f, c) PROVE TypeOK'
    <2> DEFINE l == IF c \in Large THEN "store" ELSE "open"
               j == [NoJob EXCEPT !.file = f, !.content = c, !.previous = PointerOf(work[f])]
    <2>1. j \in Jobs /\ l \in Locations
      BY <1>0, <1>b, JobsTyped, Zenon DEF Locations
    <2>2. JobOK(t, l, j)
      BY <1>0, <1>1 DEF JobOK, WriteFile, NoJob, Idle
    <2>3. pc' = [pc EXCEPT ![t] = l] /\ job' = [job EXCEPT ![t] = j] /\ calls' \in 0..MaxCalls
      BY <1>1, CountTyped DEF WriteFile, Begin, Goto
    <2> HIDE DEF l, j
    <2>4. CallsOK
      BY <1>0, <2>1, <2>2, <2>3, CallsTyped DEF CallsOK
    <2>5. pc'[Committer] = pc[Committer]
      BY <1>0, <2>3
    <2> QED
      BY <1>1, <2>3, <2>4, <2>5, CallerTyped DEF WriteFile, TypeOK, history
  <1>2. ASSUME NEW f \in Files, DeleteFile(t, f) PROVE TypeOK'
    <2> DEFINE j == [NoJob EXCEPT !.file = f, !.previous = PointerOf(work[f])]
    <2>1. j \in Jobs
      BY <1>0, <1>b, JobsTyped, Zenon
    <2>2. JobOK(t, "remove", j)
      BY <1>0, <1>2 DEF JobOK, DeleteFile, NoJob, Idle
    <2>3. pc' = [pc EXCEPT ![t] = "remove"] /\ job' = [job EXCEPT ![t] = j] /\ calls' \in 0..MaxCalls
      BY <1>2, CountTyped DEF DeleteFile, Begin, Goto
    <2> HIDE DEF j
    <2>4. CallsOK
      BY <1>0, <2>1, <2>2, <2>3, CallsTyped DEF CallsOK, Locations
    <2>5. pc'[Committer] = pc[Committer]
      BY <1>0, <2>3
    <2> QED
      BY <1>2, <2>3, <2>4, <2>5, CallerTyped DEF DeleteFile, TypeOK, history
  <1> QED
    BY <1>1, <1>2, RenameTyped DEF Call

LEMMA ScanTyped ==
  ASSUME TypeOK, NEW t \in Callers, NEW f \in Files, Scan(t, f)
  PROVE  TypeOK'
  <1>0. t \in Threads /\ t # Committer
    BY ThreadFacts
  <1>1. CallsOK
    <2>1. CASE PointerOf(work[f]) = job[t].previous
      BY <1>0, <2>1, ReturnTyped DEF Scan, CallsOK
    <2>2. CASE PointerOf(work[f]) # job[t].previous
      <3> DEFINE j == [job[t] EXCEPT !.left = @ \ {f}]
      <3>1. job[t] \in Jobs /\ JobOK(t, pc[t], job[t]) /\ pc[t] \in Locations
        BY <1>0 DEF TypeOK
      <3>2. j \in Jobs /\ JobOK(t, pc[t], j)
        BY <3>1 DEF Jobs, JobOK
      <3>3. pc' = [pc EXCEPT ![t] = pc[t]] /\ job' = [job EXCEPT ![t] = j]
        BY <2>2 DEF Scan, TypeOK
      <3> HIDE DEF j
      <3> QED
        BY <1>0, <3>1, <3>2, <3>3, CallsTyped DEF CallsOK
    <2> QED
      BY <2>1, <2>2
  <1>2. pc'[Committer] = pc[Committer]
    BY <1>0, ThreadFacts DEF Scan, Goto, Return, TypeOK
  <1>3. raced' \in BOOLEAN /\ (raced' /\ ~raced => target # Absent)
    BY BlobAssumption DEF Scan, TypeOK
  <1> QED
    BY <1>1, <1>2, <1>3, CallerTyped DEF Scan, TypeOK, bounds

LEMMA DeleteTyped ==
  ASSUME TypeOK, NEW t \in Callers, DeleteBlob(t)
  PROVE  TypeOK'
  <1>0. t \in Threads /\ t # Committer
    BY ThreadFacts
  <1>1. \A u \in Threads : job[u] \in Jobs /\ JobOK(u, pc[u], job[u])
    BY DEF TypeOK
  <1>2. \A u \in Threads : /\ [job[u] EXCEPT !.linked = FALSE] \in Jobs
                            /\ JobOK(u, pc[u], [job[u] EXCEPT !.linked = FALSE])
    BY ZenonT(40), <1>1 DEF Jobs, JobOK
  <1>3. job' \in [Threads -> Jobs] /\ pc' \in [Threads -> Locations]
    BY <1>1, <1>2, NoJobTyped DEF DeleteBlob, Goto, TypeOK, Locations
  <1>4. JobOK(t, Idle, NoJob)
    BY <1>0 DEF JobOK, Idle, NoJob
  <1>5. \A u \in Threads : JobOK(u, pc'[u], job'[u])
    BY <1>0, <1>1, <1>2, <1>4 DEF DeleteBlob, Goto, TypeOK
  <1>6. blobs' \in [Large -> {"none", "partial", "whole"}]
    BY DEF DeleteBlob, TypeOK
  <1>7. torn' \subseteq Large /\ leaked' \subseteq Large /\ pc'[Committer] = pc[Committer]
    BY <1>0 DEF DeleteBlob, TypeOK, Goto
  <1>8. CallsOK
    BY <1>3, <1>5 DEF CallsOK
  <1> QED
    BY <1>6, <1>7, <1>8, CallerTyped DEF DeleteBlob, TypeOK, bounds

\* A content is what a file may hold.
LEMMA ContentsStored ==
  /\ Contents \subseteq Stored \ {Absent} /\ Large \subseteq Contents /\ Pointers \subseteq Stored \ {Absent}
  /\ Empty \in Stored \ {Absent} /\ Absent \in Stored /\ Torn \in Stored \ {Absent}
  BY BlobAssumption DEF Stored, Contents

LEMMA StoreTyped ==
  ASSUME TypeOK, NEW t \in Threads, FindBlob(t) \/ CreateBlob(t) \/ FillBlob(t)
  PROVE  TypeOK'
  <1>1. job[t] \in Jobs /\ JobOK(t, pc[t], job[t]) /\ pc[t] \in Locations
    BY DEF TypeOK
  <1>2. ASSUME NEW l \in {"create", "fillBlob", "open"}, NEW b \in BOOLEAN,
               pc[t] \in {"store", "create", "fillBlob"},
               pc' = [pc EXCEPT ![t] = l], job' = [job EXCEPT ![t] = [job[t] EXCEPT !.linked = b]],
               blobs' \in [Large -> {"none", "partial", "whole"}],
               UNCHANGED <<work, commits, target, bounds, history>>
        PROVE  TypeOK'
    <2> DEFINE j == [job[t] EXCEPT !.linked = b]
    <2>1. j \in Jobs /\ l \in Locations
      BY JobsTyped, Zenon DEF Locations
    <2>2. JobOK(t, l, j)
      <3>1. /\ j.file = job[t].file /\ j.content = job[t].content /\ j.previous = job[t].previous
        BY <1>1 DEF Jobs
      <3>2. j.content \in Large /\ j.file \in Files
        BY <1>1, <1>2, <3>1 DEF JobOK, Idle
      <3> HIDE DEF j
      <3> QED
        BY <1>1, <1>2, <3>1, <3>2, ContentsStored DEF JobOK, Idle
    <2> HIDE DEF j
    <2>3. CallsOK
      BY <1>2, <2>1, <2>2, CallsTyped DEF CallsOK, j
    <2>4. target' # Absent => pc'[Committer] = "fill"
      BY <1>2, ThreadFacts DEF TypeOK, At
    <2>5. pc'[Committer] \in {Idle, "build"} => pc[Committer] = pc'[Committer]
      BY <1>2, ThreadFacts DEF TypeOK, Idle
    <2> QED
      BY <1>2, <2>3, <2>4, <2>5, Zenon DEF TypeOK, CallsOK, At, bounds, history
  <1>3. job = [job EXCEPT ![t] = [job[t] EXCEPT !.linked = job[t].linked]] /\ job[t].linked \in BOOLEAN
    BY <1>1 DEF TypeOK, Jobs
  <1>4. CASE FindBlob(t)
    <2>1. PICK l \in {"create", "open"} : pc' = [pc EXCEPT ![t] = l]
      BY <1>4 DEF FindBlob, Goto
    <2> QED
      BY <1>2, <1>3, <1>4, <2>1 DEF FindBlob, At, TypeOK
  <1>5. CASE CreateBlob(t)
    <2>1. job' = [job EXCEPT ![t] = [job[t] EXCEPT !.linked = TRUE]] /\ pc' = [pc EXCEPT ![t] = "fillBlob"]
      BY <1>5 DEF CreateBlob, Goto
    <2>2. blobs' \in [Large -> {"none", "partial", "whole"}]
      BY <1>5 DEF CreateBlob, TypeOK
    <2> QED
      BY <1>2, <1>5, <2>1, <2>2 DEF CreateBlob, At
  <1>6. CASE FillBlob(t)
    <2>1. job' = job /\ pc' = [pc EXCEPT ![t] = "open"]
      BY <1>6 DEF FillBlob, Goto
    <2>2. blobs' \in [Large -> {"none", "partial", "whole"}]
      BY <1>6 DEF FillBlob, TypeOK
    <2> QED
      BY <1>2, <1>3, <1>6, <2>1, <2>2 DEF FillBlob, At
  <1> QED
    BY <1>4, <1>5, <1>6

LEMMA GivenUpTyped == \A t : GivenUp(t) \subseteq Large
  BY DEF GivenUp

LEMMA UnfinishedTyped == TypeOK => \A t \in Threads : Unfinished(t) \subseteq Large
  BY DEF TypeOK, JobOK, Unfinished, At

LEMMA FillFailsTyped ==
  ASSUME TypeOK, NEW t \in Threads, FillFails(t)
  PROVE  TypeOK'
  <1>1. CallsOK
    BY ReturnTyped DEF FillFails, CallsOK
  <1>2. pc' = [pc EXCEPT ![t] = Idle]
    BY DEF FillFails, Return, Goto
  <1>3. torn' \subseteq Large /\ leaked' \subseteq Large
    BY GivenUpTyped, UnfinishedTyped DEF FillFails, TypeOK
  <1>4. calls' \in 0..MaxCalls /\ faults' \in 0..MaxFaults
    BY CountTyped DEF FillFails
  <1>5. raced' \in BOOLEAN /\ (raced' => raced /\ t # Committer)
    BY DEF FillFails, TypeOK
  <1>6. UNCHANGED <<work, blobs, commits, target, expected>>
    BY DEF FillFails
  <1>7. target # Absent => t # Committer
    BY DEF FillFails, TypeOK, At
  <1>8. t # Committer => pc'[Committer] = pc[Committer]
    BY <1>2, ThreadFacts DEF TypeOK
  <1> QED
    BY <1>1, <1>3, <1>4, <1>5, <1>6, <1>7, <1>8 DEF TypeOK, CallsOK, At

\* The committer reads a file, or has none in hand.
LEMMA BuildTyped ==
  ASSUME TypeOK, NEW l \in Locations, NEW j \in Jobs, JobOK(Committer, l, j),
         pc' = [pc EXCEPT ![Committer] = l], job' = [job EXCEPT ![Committer] = j],
         work' \in [Files -> Stored], blobs' = blobs, commits' \in Seq([Files -> Stored]),
         target' \in Files \cup {Absent}, target' # Absent => l = "fill",
         raced' \in BOOLEAN, l \in {Idle, "build"} => ~raced',
         calls' \in 0..MaxCalls, faults' \in 0..MaxFaults,
         expected' \in [Files -> Contents \cup {Absent, Unknown}],
         torn' \subseteq Large, leaked' \subseteq Large
  PROVE  TypeOK'
  <1>1. CallsOK
    BY ThreadFacts, CallsTyped DEF CallsOK
  <1>2. pc'[Committer] = l
    BY ThreadFacts DEF TypeOK
  <1> QED
    BY <1>1, <1>2 DEF TypeOK, CallsOK, At

LEMMA HandTyped ==
  ASSUME TypeOK
  PROVE  /\ Hand \in Jobs /\ pc[Committer] \in Locations /\ JobOK(Committer, pc[Committer], Hand)
         /\ pc[Committer] \in {"open", "fill"} =>
               /\ Hand.file \in Files /\ Hand.content \in Stored \ {Absent}
               /\ Pointerized(Hand.content) \in Stored \ {Absent}
  <1>1. Hand \in Jobs /\ pc[Committer] \in Locations /\ JobOK(Committer, pc[Committer], Hand)
    BY ThreadFacts DEF TypeOK, Hand
  <1>2. \A q \in Stored \ {Absent} : Pointerized(q) \in Stored \ {Absent}
    BY PointerFacts, ContentsStored DEF Pointerized
  <1>3. pc[Committer] \in {"open", "fill"} => Hand.file \in Files /\ Hand.content \in Stored \ {Absent}
    BY <1>1 DEF JobOK, Idle
  <1> QED
    BY <1>1, <1>2, <1>3

LEMMA ResumeTyped ==
  ASSUME TypeOK, pc[Committer] \in {"open", "fill"}, NEW entry \in Stored, Resume(entry),
         work' \in [Files -> Stored], blobs' = blobs, commits' = commits,
         calls' \in 0..MaxCalls, faults' \in 0..MaxFaults,
         expected' \in [Files -> Contents \cup {Absent, Unknown}],
         torn' \subseteq Large, leaked' \subseteq Large
  PROVE  TypeOK'
  <1> DEFINE tree == [Hand.tree EXCEPT ![Hand.file] = entry]
             j == [NoJob EXCEPT !.left = Hand.left, !.tree = tree]
  <1>1. Hand.left \in SUBSET Files /\ Hand.tree \in [Files -> Stored]
    BY HandTyped DEF Jobs
  <1>2. tree \in [Files -> Stored]
    BY <1>1
  <1>3. j \in Jobs
    <2> HIDE DEF tree
    <2> QED
      BY <1>1, <1>2, JobsTyped, ThreadFacts, Zenon
  <1>4. JobOK(Committer, "build", j) /\ "build" \in Locations
    BY DEF JobOK, NoJob, Idle, Locations
  <1>5. /\ pc' = [pc EXCEPT ![Committer] = "build"] /\ job' = [job EXCEPT ![Committer] = j]
        /\ target' = Absent /\ raced' = FALSE
    BY DEF Resume, Goto
  <1> HIDE DEF j
  <1> QED
    BY <1>3, <1>4, <1>5, BuildTyped DEF TypeOK

LEMMA CommitTyped ==
  ASSUME TypeOK, CommitStep
  PROVE  TypeOK'
  <1>h. Hand \in Jobs /\ pc[Committer] \in Locations /\ JobOK(Committer, pc[Committer], Hand)
    BY HandTyped
  <1>1. CASE Commit
    <2> DEFINE j == [NoJob EXCEPT !.left = Files]
    <2>1. j \in Jobs
      BY JobsTyped, ThreadFacts, Zenon
    <2>5. JobOK(Committer, "build", j) /\ "build" \in Locations
      BY DEF JobOK, NoJob, Idle, Locations
    <2>2. /\ pc' = [pc EXCEPT ![Committer] = "build"] /\ job' = [job EXCEPT ![Committer] = j]
          /\ calls' \in 0..MaxCalls
      BY <1>1, CountTyped DEF Commit, Begin, Goto
    <2>3. At(Committer, Idle) /\ UNCHANGED <<work, blobs, commits, target, faults, history>>
      BY <1>1 DEF Commit, Begin
    <2>4. target' = Absent /\ ~raced'
      BY <2>3 DEF TypeOK, At, Idle, history
    <2> HIDE DEF j
    <2> QED
      BY <2>1, <2>2, <2>3, <2>4, <2>5, BuildTyped DEF TypeOK, history
  <1>2. ASSUME NEW f \in Files, ReadFile(f) PROVE TypeOK'
    <2>1. /\ At(Committer, "build") /\ UNCHANGED <<work, blobs, commits, target, bounds, history>>
      BY <1>2 DEF ReadFile
    <2>2. target' = Absent /\ ~raced'
      BY <2>1 DEF TypeOK, At, history
    <2>3. work[f] \in Stored /\ Hand.left \ {f} \in SUBSET Files
      BY <1>h DEF TypeOK, Jobs
    <2>4. CASE work[f] = Absent
      <3> DEFINE j == [Hand EXCEPT !.left = @ \ {f}]
      <3>1. j \in Jobs /\ JobOK(Committer, "build", j)
        BY <1>h, <2>1, <2>3, SetLeft DEF At, Jobs
      <3>2. pc' = [pc EXCEPT ![Committer] = "build"] /\ job' = [job EXCEPT ![Committer] = j]
        BY <1>2, <2>1, <2>4 DEF ReadFile, At, Hand, TypeOK
      <3> HIDE DEF j
      <3> QED
        BY <2>1, <2>2, <3>1, <3>2, BuildTyped DEF TypeOK, history, bounds, Locations
    <2>5. CASE work[f] # Absent
      <3> DEFINE j == [Hand EXCEPT !.left = @ \ {f}, !.file = f, !.content = work[f]]
                 l == IF work[f] \in Large THEN "store" ELSE "open"
      <3>1. /\ j.file = f /\ j.content = work[f] /\ j.previous = Hand.previous /\ j \in Jobs
        BY <1>h, <2>3, <2>5 DEF Jobs
      <3>2. pc' = [pc EXCEPT ![Committer] = l] /\ job' = [job EXCEPT ![Committer] = j]
        BY <1>2, <2>5 DEF ReadFile, Goto, Hand
      <3> HIDE DEF j
      <3>3. JobOK(Committer, l, j) /\ l \in Locations
        <4>1. Hand.previous = NoBlob
          BY <1>h DEF JobOK
        <4>2. CASE work[f] \in Large
          BY <2>3, <2>5, <3>1, <4>1, <4>2 DEF JobOK, Locations, Idle
        <4>3. CASE work[f] \notin Large
          BY <2>3, <2>5, <3>1, <4>1, <4>3 DEF JobOK, Locations, Idle
        <4> QED
          BY <4>2, <4>3
      <3>4. l \notin {Idle, "build"}
        BY DEF Idle
      <3> HIDE DEF l
      <3> QED
        BY <2>1, <2>2, <3>1, <3>2, <3>3, <3>4, BuildTyped DEF TypeOK, history, bounds
    <2> QED
      BY <2>4, <2>5
  <1>3. CASE OpenWriteBack
    <2>1. pc[Committer] = "open" /\ Hand.file \in Files
      BY <1>3, HandTyped DEF OpenWriteBack, At
    <2>2. JobOK(Committer, "fill", Hand) /\ "fill" \in Locations
      BY <1>h, <2>1 DEF JobOK, Idle, Locations
    <2>3. pc' = [pc EXCEPT ![Committer] = "fill"] /\ job' = [job EXCEPT ![Committer] = Hand]
      BY <1>3 DEF OpenWriteBack, Goto, Hand, TypeOK
    <2>4. work' \in [Files -> Stored] /\ leaked' \subseteq Large
      BY <1>3, ContentsStored DEF OpenWriteBack, TypeOK, Dropped
    <2>5. target' = Hand.file /\ UNCHANGED <<blobs, commits, job, bounds, expected, raced, torn>>
      BY <1>3 DEF OpenWriteBack
    <2> QED
      BY <1>h, <2>1, <2>2, <2>3, <2>4, <2>5, BuildTyped DEF TypeOK, bounds, Idle
  <1>4. CASE FillWriteBack
    <2>1. pc[Committer] = "fill" /\ Hand.file \in Files /\ Pointerized(Hand.content) \in Stored
      BY <1>4, HandTyped DEF FillWriteBack, At
    <2>2. work' \in [Files -> Stored]
      BY <1>4, <2>1, FillFacts DEF FillWriteBack, TypeOK
    <2>3. expected' \in [Files -> Contents \cup {Absent, Unknown}]
      BY <1>4 DEF FillWriteBack, TypeOK
    <2>4. leaked' \subseteq Large
      BY <1>4 DEF FillWriteBack, TypeOK, Dropped
    <2>5. PICK entry \in Stored : Resume(entry)
      BY <1>4, <2>1, ContentsStored DEF FillWriteBack
    <2>6. UNCHANGED <<blobs, commits, calls, faults, torn>>
      BY <1>4 DEF FillWriteBack, bounds
    <2> QED
      BY <2>1, <2>2, <2>3, <2>4, <2>5, <2>6, ResumeTyped DEF TypeOK
  <1>5. CASE WriteBackFails
    <2>1. leaked' \subseteq Large
      BY <1>5, GivenUpTyped DEF WriteBackFails, TypeOK
    <2>2. expected' \in [Files -> Contents \cup {Absent, Unknown}]
      BY <1>5 DEF WriteBackFails, TargetLost, TypeOK
    <2>3. /\ pc[Committer] \in {"open", "fill"} /\ Resume(Absent)
          /\ UNCHANGED <<work, blobs, commits, torn>>
      BY <1>5 DEF WriteBackFails
    <2>4. calls' \in 0..MaxCalls /\ faults' \in 0..MaxFaults
      BY <1>5, CountTyped DEF WriteBackFails
    <2> QED
      BY <2>1, <2>2, <2>3, <2>4, ContentsStored, ResumeTyped DEF TypeOK
  <1>6. CASE WriteCommit
    <2>1. Hand.tree \in [Files -> Stored] /\ commits' = Append(commits, Hand.tree)
      BY <1>6, <1>h DEF WriteCommit, Jobs
    <2>2. commits' \in Seq([Files -> Stored])
      BY <2>1 DEF TypeOK
    <2>3. JobOK(Committer, Idle, NoJob) /\ Idle \in Locations
      BY DEF JobOK, NoJob, Idle, Locations
    <2>4. /\ pc' = [pc EXCEPT ![Committer] = Idle] /\ job' = [job EXCEPT ![Committer] = NoJob]
          /\ At(Committer, "build") /\ UNCHANGED <<work, blobs, target, bounds, history>>
      BY <1>6 DEF WriteCommit, Return, Goto
    <2>5. target' = Absent /\ ~raced'
      BY <2>4 DEF TypeOK, At, history
    <2> QED
      BY <2>2, <2>3, <2>4, <2>5, NoJobTyped, BuildTyped DEF TypeOK, bounds, history
  <1> QED
    BY <1>1, <1>2, <1>3, <1>4, <1>5, <1>6 DEF CommitStep

LEMMA RollbackTyped ==
  ASSUME TypeOK, NEW id \in DOMAIN commits, Rollback(id)
  PROVE  TypeOK'
  <1>1. work' \in [Files -> Stored]
    BY DEF Rollback, TypeOK
  <1>2. expected' \in [Files -> Contents \cup {Absent, Unknown}] /\ leaked' \subseteq Large
    BY DEF Rollback, TypeOK, Dropped
  <1> QED
    BY <1>1, <1>2 DEF Rollback, TypeOK, bounds, At

LEMMA CrashTyped == TypeOK /\ Crash => TypeOK'
  <1> SUFFICES ASSUME TypeOK, Crash PROVE TypeOK'
    OBVIOUS
  <1>1. torn' \subseteq Large /\ leaked' \subseteq Large
    BY UnfinishedTyped, GivenUpTyped DEF Crash, Filling, TypeOK
  <1>2. pc' \in [Threads -> Locations] /\ job' \in [Threads -> Jobs]
    BY NoJobTyped DEF Crash, Locations
  <1>3. \A t \in Threads : JobOK(t, pc'[t], job'[t])
    BY DEF Crash, JobOK, NoJob, Idle
  <1>4. /\ UNCHANGED <<work, blobs, commits>>
        /\ calls' \in 0..MaxCalls /\ faults' \in 0..MaxFaults /\ target' = Absent /\ raced' = FALSE
    BY CountTyped DEF Crash
  <1>5. expected' \in [Files -> Contents \cup {Absent, Unknown}]
    BY DEF Crash, TargetLost, TypeOK
  <1> QED
    BY <1>1, <1>2, <1>3, <1>4, <1>5 DEF TypeOK

LEMMA NextTyped == TypeOK /\ [Next]_vars => TypeOK'
  <1> SUFFICES ASSUME TypeOK, [Next]_vars PROVE TypeOK'
    OBVIOUS
  <1>1. ASSUME NEW t \in Callers, Step(t) PROVE TypeOK'
    BY <1>1, WriteTyped, RemoveTyped, ScanTyped, DeleteTyped DEF Step
  <1>2. ASSUME NEW t \in Threads, StoreStep(t) PROVE TypeOK'
    BY <1>2, StoreTyped, FillFailsTyped DEF StoreStep
  <1>3. CASE UNCHANGED vars
    BY <1>3 DEF vars, TypeOK, At
  <1> QED
    BY <1>1, <1>2, <1>3, CallTyped, CommitTyped, RollbackTyped, CrashTyped DEF Next

\* Type correctness: a thread that fills a file or a blob has one in hand, a caller
\* that searches has a blob to delete, and a file is open for write-back only while
\* the committer is at it.
THEOREM BlobTypeCorrect == Spec => []TypeOK
  BY InitTyped, NextTyped, PTL DEF Spec
-----------------------------------------------------------------------------
Pointed(c) == \E f \in Files : work[f] = Pointer(c)

LookedAfter ==
    \A c \in Large : \/ blobs[c] = "none"
                     \/ Pointed(c)
                     \/ c \in leaked
                     \/ \E t \in Threads : c \in GivenUp(t)

\* What the call of t knows of the file that it is about to change.
AwareOf(t) ==
    pc[t] \notin {Idle, "scan"} =>
        \A c \in Large : work[job[t].file] = Pointer(c) => job[t].previous = c \/ c \in leaked

Aware == \A t \in Callers : AwareOf(t)

CleanupInv == TypeOK /\ LookedAfter /\ Aware

CallerMoves(t) == Call(t) \/ Step(t)
Moves(t) == \/ t \in Callers /\ CallerMoves(t)
            \/ StoreStep(t)
            \/ t = Committer /\ CommitStep

\* A step of t leaves the other threads where they are.
LEMMA OthersStay ==
  ASSUME TypeOK, NEW t \in Threads, Moves(t), NEW u \in Threads, u # t
  PROVE  /\ pc'[u] = pc[u] /\ job'[u].file = job[u].file
         /\ job'[u].content = job[u].content /\ job'[u].previous = job[u].previous
         /\ job'[u].left = job[u].left /\ job'[u].tree = job[u].tree
  <1> USE DEF TypeOK
  <1>1. CASE t \in Callers /\ Step(t)
    <2>1. CASE DeleteBlob(t)
      <3>1. pc'[u] = pc[u] /\ job[u] \in Jobs
        BY <2>1 DEF DeleteBlob, Goto
      <3>2. job'[u] = job[u] \/ job'[u] = [job[u] EXCEPT !.linked = FALSE]
        BY <2>1 DEF DeleteBlob
      <3> QED
        BY <3>1, <3>2 DEF Jobs
    <2>2. CASE ~DeleteBlob(t)
      BY <1>1, <2>2 DEF Step, OpenFile, FillFile, RemoveFile, Scan, LookAfter, Return, Goto
    <2> QED
      BY <2>1, <2>2
  <1>2. CASE t \in Callers /\ Call(t)
    BY <1>2, Zenon DEF Call, WriteFile, DeleteFile, Rename, Begin, Goto
  <1>3. CASE StoreStep(t)
    BY <1>3, Zenon DEF StoreStep, FindBlob, CreateBlob, FillBlob, FillFails, Return, Goto
  <1>4. CASE t = Committer /\ CommitStep
    BY <1>4, Zenon DEF CommitStep, Commit, ReadFile, OpenWriteBack, FillWriteBack, WriteBackFails,
       WriteCommit, Resume, Begin, Return, Goto
  <1> QED
    BY <1>1, <1>2, <1>3, <1>4 DEF Moves, CallerMoves

\* Of the callers only t changes the files of t.
LEMMA OthersAware ==
  ASSUME TypeOK, Aware, NEW t \in Threads, Moves(t), NEW u \in Callers, u # t,
         \A f \in Files : Owner[f] = u => work'[f] = work[f],
         \A c \in leaked : c \in leaked' \/ ~Pointed(c)
  PROVE  AwareOf(u)'
  <1>0. u \in Threads /\ u # Committer
    BY ThreadFacts
  <1>1. pc'[u] = pc[u] /\ job'[u].file = job[u].file /\ job'[u].previous = job[u].previous
    BY <1>0, OthersStay
  <1>2. pc[u] # Idle => /\ job[u].file \in Files
                        /\ work'[job[u].file] = work[job[u].file]
    BY <1>0 DEF TypeOK, JobOK
  <1>3. AwareOf(u)
    BY DEF Aware
  <1> QED
    BY <1>1, <1>2, <1>3 DEF AwareOf, Idle, Pointed

\* What a step of t must see to for each blob.
LEMMA StepLooksAfter ==
  ASSUME TypeOK, LookedAfter, NEW t \in Threads, Moves(t),
         \A c \in Large :
            \/ blobs'[c] = "none"
            \/ /\ blobs[c] # "none" \/ c \in GivenUp(t)' \/ Pointed(c)'
               /\ Pointed(c) => Pointed(c)' \/ c \in GivenUp(t)' \/ c \in leaked'
               /\ c \in leaked => c \in leaked'
               /\ c \in GivenUp(t) => c \in GivenUp(t)' \/ Pointed(c)' \/ c \in leaked'
  PROVE  LookedAfter'
  <1>1. ASSUME NEW c \in Large, NEW u \in Threads, u # t, c \in GivenUp(u) PROVE c \in GivenUp(u)'
    <2>1. pc'[u] = pc[u] /\ job'[u].content = job[u].content /\ job'[u].previous = job[u].previous
      BY <1>1, OthersStay
    <2> QED
      BY <1>1, <2>1 DEF GivenUp
  <1> SUFFICES ASSUME NEW c \in Large, blobs'[c] # "none"
               PROVE  Pointed(c)' \/ c \in leaked' \/ \E u \in Threads : c \in GivenUp(u)'
    BY DEF LookedAfter
  <1>2. blobs[c] = "none" \/ Pointed(c) \/ c \in leaked \/ \E u \in Threads : c \in GivenUp(u)
    BY DEF LookedAfter
  <1> QED
    BY <1>1, <1>2

LEMMA CleanupInit == Init => CleanupInv
  <1> SUFFICES ASSUME Init PROVE CleanupInv
    OBVIOUS
  <1>1. TypeOK
    BY InitTyped
  <1>2. LookedAfter
    BY DEF Init, LookedAfter
  <1>3. Aware
    BY ThreadFacts DEF Init, Aware, AwareOf, Idle
  <1> QED
    BY <1>1, <1>2, <1>3 DEF CleanupInv

\* Calls that begin, and the steps that change no file.
LEMMA BeginCleans ==
  ASSUME CleanupInv, NEW t \in Callers, NEW f \in Files, pc[t] = Idle, CallerMoves(t),
         pc'[t] \in {"store", "open", "remove"},
         job'[t].file = f, job'[t].previous = PointerOf(work[f]),
         UNCHANGED <<work, blobs, leaked>>
  PROVE  LookedAfter' /\ Aware'
  <1> USE DEF CleanupInv
  <1>0. Moves(t) /\ t \in Threads
    BY ThreadFacts DEF Moves
  <1>2. LookedAfter'
    <2>1. \A c \in Large : c \notin GivenUp(t) /\ (Pointed(c) => Pointed(c)')
      BY DEF GivenUp, Pointed, Idle
    <2> QED
      BY <1>0, <2>1, StepLooksAfter
  <1>3. AwareOf(t)'
    BY PointerTypes DEF AwareOf, TypeOK
  <1>4. \A u \in Callers : u # t => AwareOf(u)'
    BY <1>0, OthersAware
  <1> QED
    BY <1>2, <1>3, <1>4 DEF Aware

LEMMA CallCleans ==
  ASSUME CleanupInv, NEW t \in Callers, NEW f \in Files,
         (\E c \in Contents : WriteFile(t, f, c)) \/ DeleteFile(t, f)
  PROVE  LookedAfter' /\ Aware'
  <1>0. CallerMoves(t) /\ t \in Threads
    BY ThreadFacts DEF CallerMoves, Call
  <1>1. CASE \E c \in Contents : WriteFile(t, f, c)
    <2>1. PICK c \in Contents : WriteFile(t, f, c)
      BY <1>1
    <2>2. /\ pc[t] = Idle /\ pc'[t] \in {"store", "open"}
          /\ job'[t].file = f /\ job'[t].previous = PointerOf(work[f])
          /\ UNCHANGED <<work, blobs, leaked>>
      BY <1>0, <2>1, Zenon DEF WriteFile, Begin, Goto, At, CleanupInv, TypeOK, NoJob, history
    <2> QED
      BY <1>0, <2>2, BeginCleans
  <1>2. CASE DeleteFile(t, f)
    <2>2. /\ pc[t] = Idle /\ pc'[t] = "remove"
          /\ job'[t].file = f /\ job'[t].previous = PointerOf(work[f])
          /\ UNCHANGED <<work, blobs, leaked>>
      BY <1>0, <1>2 DEF DeleteFile, Begin, Goto, At, CleanupInv, TypeOK, NoJob, history
    <2> QED
      BY <1>0, <2>2, BeginCleans
  <1> QED
    BY <1>1, <1>2

LEMMA StoreCleans ==
  ASSUME CleanupInv, NEW t \in Threads, FindBlob(t) \/ CreateBlob(t) \/ FillBlob(t)
  PROVE  LookedAfter' /\ Aware'
  <1> USE DEF CleanupInv
  <1>0. Moves(t)
    BY DEF Moves, StoreStep
  <1>1. /\ pc[t] \in {"store", "create", "fillBlob"} /\ job[t].content \in Large
        /\ job[t] \in Jobs
    BY DEF FindBlob, CreateBlob, FillBlob, At, TypeOK, JobOK
  <1>2. /\ pc'[t] \in {"create", "fillBlob", "open"}
        /\ job'[t].file = job[t].file /\ job'[t].previous = job[t].previous
        /\ job'[t].content = job[t].content
    BY <1>1 DEF FindBlob, CreateBlob, FillBlob, Goto, TypeOK, Jobs
  <1>3. pc'[t] \in {"fillBlob", "open"} \/ blobs' = blobs
    BY <1>1 DEF FindBlob, CreateBlob, FillBlob, Goto, TypeOK
  <1>4. \A c \in Large : c # job[t].content => blobs'[c] = blobs[c]
    BY DEF FindBlob, CreateBlob, FillBlob, TypeOK
  <1>5. work' = work /\ leaked' = leaked
    BY DEF FindBlob, CreateBlob, FillBlob, history
  <1>6. pc[t] = "fillBlob" => pc'[t] = "open"
    BY DEF FindBlob, CreateBlob, FillBlob, Goto, At, TypeOK
  <1>7. LookedAfter'
    <2>1. ASSUME NEW c \in Large PROVE Pointed(c) => Pointed(c)'
      BY <1>5 DEF Pointed
    <2>2. ASSUME NEW c \in Large, c \in GivenUp(t) PROVE c \in GivenUp(t)'
      BY <1>1, <1>2, <1>6, <2>2 DEF GivenUp
    <2>3. ASSUME NEW c \in Large, blobs'[c] # "none", blobs[c] = "none" PROVE c \in GivenUp(t)'
      BY <1>1, <1>2, <1>3, <1>4, <2>3 DEF GivenUp
    <2> QED
      BY <1>0, <1>5, <2>1, <2>2, <2>3, StepLooksAfter
  <1>8. t \in Callers => AwareOf(t)'
    BY <1>1, <1>2, <1>5 DEF AwareOf, Aware, Idle
  <1>9. \A u \in Callers : u # t => AwareOf(u)'
    BY <1>0, <1>5, OthersAware
  <1> QED
    BY <1>7, <1>8, <1>9 DEF Aware

\* Steps that change the caller's file.
LEMMA OpenFileCleans ==
  ASSUME CleanupInv, NEW t \in Callers, OpenFile(t)
  PROVE  LookedAfter' /\ Aware'
  <1> USE DEF CleanupInv
  <1> DEFINE f == job[t].file
  <1>0. Moves(t) /\ t \in Threads
    BY ThreadFacts DEF Moves, CallerMoves, Step
  <1>1. pc[t] = "open" /\ f \in Files /\ Owner[f] = t
    BY <1>0, ThreadFacts DEF OpenFile, At, TypeOK, JobOK, Idle
  <1>2. /\ pc'[t] = "fill" /\ job' = job /\ blobs' = blobs /\ leaked' = leaked
        /\ work'[f] = Empty /\ \A g \in Files : g # f => work'[g] = work[g]
    BY <1>0, <1>1 DEF OpenFile, Goto, TypeOK
  <1> HIDE DEF f
  <1>3. LookedAfter'
    <2>1. ASSUME NEW c \in Large, c \in GivenUp(t) PROVE c \in GivenUp(t)'
      BY <1>1, <1>2, <2>1 DEF GivenUp
    <2>2. ASSUME NEW c \in Large, Pointed(c)
          PROVE  Pointed(c)' \/ c \in GivenUp(t)' \/ c \in leaked'
      <3>1. PICK g \in Files : work[g] = Pointer(c)
        BY <2>2 DEF Pointed
      <3>2. CASE g = f
        BY <1>1, <1>2, <3>1, <3>2 DEF Aware, AwareOf, GivenUp, f, Idle
      <3>3. CASE g # f
        BY <1>2, <3>1, <3>3 DEF Pointed
      <3> QED
        BY <3>2, <3>3
    <2> QED
      BY <1>0, <1>2, <2>1, <2>2, StepLooksAfter
  <1>4. AwareOf(t)'
    BY <1>2, BlobAssumption, PointerFacts DEF AwareOf, f
  <1>5. \A u \in Callers : u # t => AwareOf(u)'
    BY <1>0, <1>1, <1>2, OthersAware
  <1> QED
    BY <1>3, <1>4, <1>5 DEF Aware

\* The file has a new pointer or none, and the search for the old one begins.
LEMMA ChangeCleans ==
  ASSUME CleanupInv, NEW t \in Callers, FillFile(t) \/ RemoveFile(t)
  PROVE  LookedAfter' /\ Aware'
  <1> USE DEF CleanupInv
  <1> DEFINE f == job[t].file
             p == job[t].previous
             now == IF FillFile(t) THEN Pointerized(job[t].content) ELSE Absent
  <1>0. Moves(t) /\ t \in Threads /\ t # Committer
    BY ThreadFacts DEF Moves, CallerMoves, Step
  <1>1. /\ pc[t] \in {"fill", "remove"} /\ f \in Files /\ Owner[f] = t
        /\ pc[t] = "fill" <=> FillFile(t)
    BY <1>0 DEF FillFile, RemoveFile, At, TypeOK, JobOK, Idle
  <1>2. now \in Stored
    BY <1>0, <1>1, PointerTypes DEF Stored, TypeOK, JobOK
  <1>3. /\ blobs' = blobs /\ leaked' = leaked
        /\ \A g \in Files : g # f => work'[g] = work[g]
        /\ now \in Pointers => work'[f] = now
    <2>1. CASE FillFile(t)
      <3>1. Fill(f, now) /\ blobs' = blobs /\ leaked' = leaked
        BY <2>1 DEF FillFile
      <3> HIDE DEF now
      <3> QED
        BY <1>1, <1>2, <3>1, FillFacts DEF TypeOK
    <2>2. CASE ~FillFile(t)
      BY <1>1, <2>2 DEF RemoveFile, TypeOK, Pointers
    <2> QED
      BY <2>1, <2>2
  <1>4. \A c \in Large : PointerOf(now) = c <=> now = Pointer(c)
    BY <1>2, PointerTypes
  <1>5. \/ pc'[t] = "scan" /\ job'[t].previous = p /\ p \in Large
        \/ pc'[t] = Idle /\ ~(p \in Large /\ PointerOf(now) # p)
    <2>1. \E l : LookAfter(t, l, now)
      BY <1>1 DEF FillFile, RemoveFile
    <2> HIDE DEF now
    <2>2. job[t] \in Jobs
      BY <1>0 DEF TypeOK
    <2> QED
      BY <1>0, <2>1, <2>2 DEF LookAfter, Goto, Return, TypeOK, Jobs
  <1>6. \A c \in Large : /\ pc[t] = "fill" /\ job[t].content = c => now = Pointer(c)
                         /\ pc[t] = "fill" /\ PointerOf(job[t].content) = c => FALSE
    <2>1. job[t].content \in Contents \/ pc[t] # "fill"
      BY <1>0 DEF TypeOK, JobOK
    <2> QED
      BY <1>1, <2>1, PointerTypes, BlobAssumption DEF PointerOf, Contents
  <1> HIDE DEF now, p, f
  <1>7. LookedAfter'
    <2>1. ASSUME NEW c \in Large, c = p PROVE Pointed(c)' \/ c \in GivenUp(t)'
      BY <1>1, <1>3, <1>4, <1>5, <2>1, PointerFacts DEF GivenUp, Pointed
    <2>2. ASSUME NEW c \in Large, c \in GivenUp(t) PROVE Pointed(c)' \/ c \in GivenUp(t)'
      <3>1. CASE job[t].content = c /\ pc[t] = "fill"
        BY <1>1, <1>3, <1>6, <3>1, PointerFacts DEF Pointed
      <3>2. CASE c = p
        BY <2>1, <3>2
      <3> QED
        BY <1>1, <1>6, <2>2, <3>1, <3>2 DEF GivenUp, p
    <2>3. ASSUME NEW c \in Large, Pointed(c)
          PROVE  Pointed(c)' \/ c \in GivenUp(t)' \/ c \in leaked'
      <3>1. PICK g \in Files : work[g] = Pointer(c)
        BY <2>3 DEF Pointed
      <3>2. CASE g # f
        BY <1>3, <3>1, <3>2 DEF Pointed
      <3>3. CASE g = f
        <4>1. p = c \/ c \in leaked
          BY <1>1, <3>1, <3>3 DEF Aware, AwareOf, f, p, Idle
        <4> QED
          BY <1>3, <2>1, <4>1
      <3> QED
        BY <3>2, <3>3
    <2> QED
      BY <1>0, <1>3, <2>2, <2>3, StepLooksAfter
  <1>8. AwareOf(t)'
    BY <1>5 DEF AwareOf, Idle
  <1>9. \A u \in Callers : u # t => AwareOf(u)'
    BY <1>0, <1>1, <1>3, OthersAware
  <1> QED
    BY <1>7, <1>8, <1>9 DEF Aware

LEMMA RenameCleans ==
  ASSUME CleanupInv, NEW t \in Callers, NEW f \in Files, NEW g \in Files, Rename(t, f, g)
  PROVE  LookedAfter' /\ Aware'
  <1> USE DEF CleanupInv
  <1>0. Moves(t) /\ t \in Threads
    BY ThreadFacts DEF Moves, CallerMoves, Call
  <1>1. /\ pc[t] = Idle /\ pc' = pc /\ job' = job /\ blobs' = blobs
        /\ leaked' = leaked \cup Dropped(work, work')
        /\ \A h \in Files : Owner[h] # t => work'[h] = work[h]
    BY DEF Rename, At, TypeOK
  <1>2. \A c \in Large : Pointed(c) => Pointed(c)' \/ c \in leaked'
    BY <1>1 DEF Pointed, Dropped
  <1>3. \A c \in Large : c \notin GivenUp(t)
    BY <1>1 DEF GivenUp, Idle
  <1>4. LookedAfter'
    BY <1>0, <1>1, <1>2, <1>3, StepLooksAfter
  <1>5. AwareOf(t)'
    BY <1>1 DEF AwareOf, Idle
  <1>6. \A u \in Callers : u # t => AwareOf(u)'
    BY <1>0, <1>1, OthersAware
  <1> QED
    BY <1>4, <1>5, <1>6 DEF Aware

\* The search ends at a file that points to the blob, or with the blob deleted.
LEMMA ScanCleans ==
  ASSUME CleanupInv, NEW t \in Callers, NEW f \in Files, Scan(t, f)
  PROVE  LookedAfter' /\ Aware'
  <1> USE DEF CleanupInv
  <1>0. Moves(t) /\ t \in Threads
    BY ThreadFacts DEF Moves, CallerMoves, Step
  <1>1. /\ pc[t] = "scan" /\ work' = work /\ blobs' = blobs /\ leaked' = leaked
        /\ job[t].previous \in Large /\ job[t] \in Jobs
    BY <1>0 DEF Scan, At, TypeOK, JobOK
  <1>2. \/ pc'[t] = "scan" /\ job'[t].previous = job[t].previous
        \/ pc'[t] = Idle /\ work[f] = Pointer(job[t].previous)
    <2>1. PointerOf(work[f]) = job[t].previous <=> work[f] = Pointer(job[t].previous)
      BY <1>1, PointerTypes DEF TypeOK
    <2> QED
      BY <1>0, <1>1, <2>1 DEF Scan, Return, Goto, TypeOK, Jobs
  <1>3. LookedAfter'
    <2>1. ASSUME NEW c \in Large PROVE Pointed(c) => Pointed(c)'
      BY <1>1 DEF Pointed
    <2>2. ASSUME NEW c \in Large, c \in GivenUp(t) PROVE Pointed(c)' \/ c \in GivenUp(t)'
      BY <1>1, <1>2, <2>2 DEF Pointed, GivenUp
    <2> QED
      BY <1>0, <1>1, <2>1, <2>2, StepLooksAfter
  <1>4. AwareOf(t)'
    BY <1>2 DEF AwareOf, Idle
  <1>5. \A u \in Callers : u # t => AwareOf(u)'
    BY <1>0, <1>1, OthersAware
  <1> QED
    BY <1>3, <1>4, <1>5 DEF Aware

LEMMA DeleteBlobCleans ==
  ASSUME CleanupInv, NEW t \in Callers, DeleteBlob(t)
  PROVE  LookedAfter' /\ Aware'
  <1> USE DEF CleanupInv
  <1> DEFINE d == job[t].previous
  <1>0. Moves(t) /\ t \in Threads
    BY ThreadFacts DEF Moves, CallerMoves, Step
  <1>1. /\ pc[t] = "scan" /\ pc'[t] = Idle /\ work' = work /\ d \in Large
        /\ blobs'[d] = "none" /\ \A c \in Large : c # d => blobs'[c] = blobs[c]
    BY <1>0 DEF DeleteBlob, At, Goto, TypeOK, JobOK
  <1>2. \A c \in leaked : c \in leaked' \/ (c = d /\ ~Pointed(d))
    BY DEF DeleteBlob, Pointed
  <1> HIDE DEF d
  <1>3. LookedAfter'
    <2>1. ASSUME NEW c \in Large PROVE Pointed(c) => Pointed(c)'
      BY <1>1 DEF Pointed
    <2>2. ASSUME NEW c \in Large, c \in GivenUp(t) PROVE c = d
      BY <1>1, <2>2 DEF GivenUp, d
    <2> QED
      BY <1>0, <1>1, <1>2, <2>1, <2>2, StepLooksAfter
  <1>4. AwareOf(t)'
    BY <1>1 DEF AwareOf, Idle
  <1>5. \A u \in Callers : u # t => AwareOf(u)'
    BY <1>0, <1>1, <1>2, OthersAware
  <1> QED
    BY <1>3, <1>4, <1>5 DEF Aware

\* The committer puts back what it has in hand: the pointers that it overwrites, and
\* those that a caller does not know of, are on record.
LEMMA HandGivenUp ==
  ASSUME TypeOK, pc[Committer] \in {"open", "fill"}, NEW c \in Large
  PROVE  /\ PointerOf(Pointerized(Hand.content)) = c <=> Pointerized(Hand.content) = Pointer(c)
         /\ pc[Committer] = "fill" =>
               (c \in GivenUp(Committer) <=> Pointerized(Hand.content) = Pointer(c))
         /\ pc[Committer] = "open" =>
               (c \in GivenUp(Committer) => Pointerized(Hand.content) = Pointer(c))
  <1>1. Hand.content \in Stored /\ Pointerized(Hand.content) \in Stored
    BY HandTyped
  <1>2. PointerOf(Pointerized(Hand.content)) = c <=> Pointerized(Hand.content) = Pointer(c)
    BY <1>1, PointerTypes
  <1>3. Pointerized(Hand.content) = Pointer(c)
          <=> Hand.content = c \/ PointerOf(Hand.content) = c
    BY <1>1, PointerTypes
  <1>4. Hand.previous # c
    BY HandTyped, BlobAssumption DEF JobOK, Contents
  <1> QED
    BY <1>2, <1>3, <1>4 DEF GivenUp, Hand

LEMMA WriteBackCleans ==
  ASSUME CleanupInv, OpenWriteBack \/ FillWriteBack
  PROVE  LookedAfter' /\ Aware'
  <1> USE DEF CleanupInv
  <1> DEFINE text == Pointerized(Hand.content)
  <1>0. Moves(Committer) /\ Committer \in Threads
    BY ThreadFacts DEF Moves, CommitStep
  <1>1. CASE OpenWriteBack
    <2>1. pc[Committer] = "open" /\ pc'[Committer] = "fill" /\ blobs' = blobs /\ job' = job
      BY <1>0, <1>1 DEF OpenWriteBack, At, Goto, TypeOK
    <2>2. /\ Hand.file \in Files /\ work'[Hand.file] = Empty
          /\ \A g \in Files : g # Hand.file => work'[g] = work[g]
      BY <1>1, <2>1, HandTyped DEF OpenWriteBack, TypeOK
    <2>3. leaked' = leaked \cup (Dropped(work, work') \ {PointerOf(text)})
      BY <1>1 DEF OpenWriteBack
    <2>4. \A c \in Large : (text = Pointer(c) => c \in GivenUp(Committer)')
                           /\ (c \in GivenUp(Committer) => text = Pointer(c))
      <3>1. Hand.content \in Stored
        BY <2>1, HandTyped
      <3>2. \A c \in Large : text = Pointer(c) => Hand.content = c \/ PointerOf(Hand.content) = c
        BY <3>1, PointerTypes
      <3>3. \A c \in Large : c \in GivenUp(Committer) => text = Pointer(c)
        BY <2>1, HandGivenUp
      <3> HIDE DEF text
      <3> QED
        BY <2>1, <3>2, <3>3 DEF GivenUp, Hand
    <2>5. \A c \in Large : PointerOf(text) = c <=> text = Pointer(c)
      BY <2>1, HandGivenUp
    <2> HIDE DEF text
    <2>6. LookedAfter'
      <3>1. \A c \in Large : Pointed(c) => Pointed(c)' \/ c \in GivenUp(Committer)' \/ c \in leaked'
        BY <2>3, <2>4, <2>5 DEF Pointed, Dropped
      <3> QED
        BY <1>0, <2>1, <2>3, <2>4, <3>1, StepLooksAfter
    <2>7. ASSUME NEW u \in Callers PROVE AwareOf(u)'
      <3>1. u \in Threads /\ u # Committer
        BY ThreadFacts
      <3>2. pc'[u] = pc[u] /\ job'[u] = job[u]
        BY <1>1, <2>1, <3>1 DEF OpenWriteBack, Goto, TypeOK
      <3>3. pc[u] # Idle => job[u].file \in Files
        BY <3>1 DEF TypeOK, JobOK
      <3>4. AwareOf(u)
        BY DEF Aware
      <3>5. \A c \in Large : Empty # Pointer(c)
        BY BlobAssumption, PointerFacts
      <3> QED
        BY <2>2, <2>3, <3>2, <3>3, <3>4, <3>5 DEF AwareOf, Idle
    <2> QED
      BY <2>6, <2>7 DEF Aware
  <1>2. CASE FillWriteBack
    <2>1. pc[Committer] = "fill" /\ pc'[Committer] = "build" /\ blobs' = blobs
      BY <1>0, <1>2 DEF FillWriteBack, Resume, At, Goto, TypeOK
    <2>2. leaked' = leaked \cup Dropped(work, work')
                       \cup (IF target = Absent \/ Unaware(target)
                               THEN {PointerOf(text)} \cap Large ELSE {})
      BY <1>2 DEF FillWriteBack
    <2>3. \A c \in Large : /\ PointerOf(text) = c <=> text = Pointer(c)
                           /\ c \in GivenUp(Committer) => text = Pointer(c)
      BY <2>1, HandGivenUp
    <2>4. text \in Stored /\ target \in Files \cup {Absent}
      BY <2>1, HandTyped DEF TypeOK
    <2>5. CASE target = Absent
      <3> HIDE DEF text
      <3>1. work' = work
        BY <1>2, <2>5 DEF FillWriteBack
      <3>2. \A c \in Large : text = Pointer(c) => c \in leaked'
        BY <2>2, <2>3, <2>5
      <3>3. LookedAfter'
        BY <1>0, <2>1, <2>2, <2>3, <3>1, <3>2, StepLooksAfter DEF Pointed
      <3>4. \A u \in Callers : AwareOf(u)'
        BY <1>0, <2>2, <3>1, OthersAware, ThreadFacts
      <3> QED
        BY <3>3, <3>4 DEF Aware
    <2>6. CASE target # Absent
      <3>1. Fill(target, text)
        BY <1>2, <2>6 DEF FillWriteBack
      <3> HIDE DEF text
      <3>2. /\ \A g \in Files : g # target => work'[g] = work[g]
            /\ work'[target] \in {text, Torn} \/ work'[target] = work[target]
            /\ text \in Pointers => work'[target] = text
        BY <2>4, <2>6, <3>1, FillFacts DEF TypeOK
      <3>3. \A c \in Large : text = Pointer(c) => Pointed(c)'
        BY <2>4, <2>6, <3>2, PointerFacts DEF Pointed
      <3>4. \A c \in Large : Pointed(c) => Pointed(c)' \/ c \in leaked'
        BY <2>2 DEF Pointed, Dropped
      <3>5. LookedAfter'
        BY <1>0, <2>1, <2>2, <2>3, <3>3, <3>4, StepLooksAfter
      <3>6. ASSUME NEW u \in Callers PROVE AwareOf(u)'
        <4>1. u \in Threads /\ u # Committer
          BY ThreadFacts
        <4>2. pc'[u] = pc[u] /\ job'[u].file = job[u].file /\ job'[u].previous = job[u].previous
          BY <1>0, <4>1, OthersStay
        <4>3. pc[u] # Idle => job[u].file \in Files
          BY <4>1 DEF TypeOK, JobOK
        <4>4. AwareOf(u)
          BY DEF Aware
        <4> SUFFICES ASSUME pc[u] \notin {Idle, "scan"}, NEW c \in Large,
                            work'[job[u].file] = Pointer(c), job[u].previous # c, c \notin leaked'
                     PROVE  FALSE
          BY <4>2 DEF AwareOf
        <4>5. c \notin leaked
          BY <2>2
        <4>6. job[u].file = target /\ work'[target] # work[target]
          BY <3>2, <4>3, <4>4, <4>5 DEF AwareOf
        <4>7. text = Pointer(c)
          BY <3>2, <4>6, BlobAssumption, PointerFacts
        <4>8. Unaware(target)
          BY <2>3, <4>6, <4>7 DEF Unaware, text
        <4> QED
          BY <2>2, <2>3, <4>7, <4>8
      <3> QED
        BY <3>5, <3>6 DEF Aware
    <2> QED
      BY <2>5, <2>6
  <1> QED
    BY <1>1, <1>2

\* The other steps of a commit change no file and no blob; those that fail put on
\* record what they give up.
LEMMA CommitCleans ==
  ASSUME CleanupInv, CommitStep
  PROVE  LookedAfter' /\ Aware'
  <1> USE DEF CleanupInv
  <1>0. Moves(Committer) /\ Committer \in Threads
    BY ThreadFacts DEF Moves
  <1>1. ASSUME UNCHANGED <<work, blobs>>, leaked \subseteq leaked', GivenUp(Committer) \subseteq leaked'
        PROVE  LookedAfter' /\ Aware'
    <2>1. LookedAfter'
      BY <1>0, <1>1, StepLooksAfter DEF Pointed
    <2>2. \A u \in Callers : AwareOf(u)'
      BY <1>0, <1>1, OthersAware, ThreadFacts
    <2> QED
      BY <2>1, <2>2 DEF Aware
  <1>2. pc[Committer] \in {Idle, "build"} => GivenUp(Committer) = {}
    BY DEF GivenUp, Idle
  <1>3. CASE Commit \/ (\E f \in Files : ReadFile(f)) \/ WriteCommit
    BY <1>1, <1>2, <1>3, Zenon DEF Commit, ReadFile, WriteCommit, Begin, At, history
  <1>4. CASE WriteBackFails
    BY <1>1, <1>4 DEF WriteBackFails
  <1> QED
    BY <1>3, <1>4, WriteBackCleans DEF CommitStep

LEMMA FillFailsCleans ==
  ASSUME CleanupInv, NEW t \in Threads, FillFails(t)
  PROVE  LookedAfter' /\ Aware'
  <1> USE DEF CleanupInv
  <1>0. Moves(t)
    BY DEF Moves, StoreStep
  <1>1. /\ UNCHANGED <<work, blobs>> /\ leaked' = leaked \cup GivenUp(t) /\ pc'[t] = Idle
    BY DEF FillFails, Return, Goto, TypeOK
  <1>2. LookedAfter'
    BY <1>0, <1>1, StepLooksAfter DEF Pointed
  <1>3. \A u \in Callers : u # t => AwareOf(u)'
    BY <1>0, <1>1, OthersAware
  <1>4. t \in Callers => AwareOf(t)'
    BY <1>1 DEF AwareOf
  <1> QED
    BY <1>2, <1>3, <1>4 DEF Aware

\* With nobody in a call only what is pointed to or on record is there.
LEMMA QuietCleans ==
  ASSUME CleanupInv, (\E id \in DOMAIN commits : Rollback(id)) \/ Crash
  PROVE  LookedAfter' /\ Aware'
  <1> USE DEF CleanupInv
  <1>1. blobs' = blobs /\ leaked \subseteq leaked'
    BY DEF Rollback, Crash
  <1>2. \A c \in Large : Pointed(c) => Pointed(c)' \/ c \in leaked'
    BY DEF Rollback, Crash, Pointed, Dropped
  <1>3. \A t \in Threads, c \in Large : c \in GivenUp(t) => c \in leaked'
    BY DEF Rollback, Crash, Quiescent, At, GivenUp, Idle
  <1>4. \A t \in Threads : pc'[t] = Idle
    BY DEF Rollback, Crash, Quiescent, At
  <1>5. LookedAfter'
    BY <1>1, <1>2, <1>3 DEF LookedAfter
  <1>6. Aware'
    BY <1>4, ThreadFacts DEF Aware, AwareOf
  <1> QED
    BY <1>5, <1>6

LEMMA CleanupNext == CleanupInv /\ [Next]_vars => CleanupInv'
  <1> SUFFICES ASSUME CleanupInv, [Next]_vars PROVE CleanupInv'
    OBVIOUS
  <1>1. TypeOK'
    BY NextTyped DEF CleanupInv
  <1>2. ASSUME NEW t \in Callers, Call(t) \/ Step(t) PROVE LookedAfter' /\ Aware'
    BY <1>2, CallCleans, RenameCleans, OpenFileCleans, ChangeCleans, ScanCleans, DeleteBlobCleans
       DEF Call, Step
  <1>3. ASSUME NEW t \in Threads, StoreStep(t) PROVE LookedAfter' /\ Aware'
    BY <1>3, StoreCleans, FillFailsCleans DEF StoreStep
  <1>4. ASSUME UNCHANGED vars PROVE LookedAfter' /\ Aware'
    <2>1. UNCHANGED <<work, blobs, pc, job, leaked>>
      BY <1>4 DEF vars
    <2>2. \A t \in Threads : GivenUp(t)' = GivenUp(t)
      BY <2>1 DEF GivenUp
    <2>3. LookedAfter'
      BY <2>1, <2>2, Zenon DEF CleanupInv, LookedAfter, Pointed
    <2>4. Aware'
      BY <2>1, Zenon DEF CleanupInv, Aware, AwareOf
    <2> QED
      BY <2>3, <2>4
  <1>5. LookedAfter' /\ Aware'
    <2>1. CASE CommitStep
      BY <2>1, CommitCleans
    <2>2. CASE (\E id \in DOMAIN commits : Rollback(id)) \/ Crash
      BY <2>2, QuietCleans
    <2>3. CASE Next
      BY <1>2, <1>3, <2>1, <2>2, <2>3, Zenon DEF Next
    <2> QED
      BY <1>4, <2>3
  <1> QED
    BY <1>1, <1>5 DEF CleanupInv

LEMMA CleanupSuffices == CleanupInv => OrphansDeleted
  <1> SUFFICES ASSUME CleanupInv, Quiescent, NEW c \in Large,
                      blobs[c] # "none", c \notin leaked
               PROVE  Pointed(c)
    BY DEF OrphansDeleted, Pointed
  <1>1. \A t \in Threads : c \notin GivenUp(t)
    BY DEF Quiescent, At, GivenUp, Idle
  <1> QED
    BY <1>1 DEF CleanupInv, LookedAfter

\* The clean-ups leave no blob behind that nothing points to, but for what is on
\* record - also when several callers let go of one blob at the same time, and a
\* commit writes pointers meanwhile (git.rs:487-542, 1172-1179).
THEOREM OrphansAreDeleted == Spec => []OrphansDeleted
  BY CleanupInit, CleanupNext, CleanupSuffices, PTL DEF Spec
-----------------------------------------------------------------------------
\* What may be in f: contents that its owner writes.
Owned(f, q) ==
    /\ q \in Contents => q \in Writes[Owner[f]]
    /\ \A c \in Large : q = Pointer(c) => c \in Writes[Owner[f]]

OwnContents ==
    /\ \A f \in Files : Owned(f, work[f]) /\ Owned(f, Hand.tree[f])
    /\ \A id \in DOMAIN commits, f \in Files : Owned(f, commits[id][f])
    /\ \A t \in Callers : {job[t].content, job[t].previous} \subseteq Writes[t] \cup {NoBlob}
    /\ Hand.file \in Files => Owned(Hand.file, Hand.content)
    /\ target # Absent => Owner[target] = Owner[Hand.file]

\* A large content that is no pointer was there before the program was.
RawIsShared ==
    /\ \A f \in Files : {work[f], Hand.tree[f]} \cap Large \subseteq Shared
    /\ {Hand.content} \cap Large \subseteq Shared
    /\ \A id \in DOMAIN commits, f \in Files : {commits[id][f]} \cap Large \subseteq Shared

Holds(e, q) == e \in {Unknown, q} \/ q = Pointerized(e)

HoldsExpected == \A f \in Files \ {target} : Holds(expected[f], work[f])

InHand ==
    ~raced =>
        /\ pc[Committer] \in {"store", "create", "fillBlob", "open"} => work[Hand.file] = Hand.content
        /\ pc[Committer] = "fill" => /\ target = Hand.file /\ work[target] = Empty
                                     /\ Holds(expected[target], Hand.content)

PartialIsKnown == \A c \in Large : blobs[c] = "partial" => c \in torn \/ c \in Filling

BlobIsThere ==
    \A c \in Large \ Shared : blobs[c] = "none" =>
        /\ \A f \in Files \ {target} : ~(expected[f] = c /\ work[f] = Pointer(c))
        /\ \A t \in Callers : pc[t] \in {"fillBlob", "open", "fill"} => job[t].content # c
        /\ target # Absent /\ ~raced => ~(expected[target] = c /\ Hand.content = Pointer(c))

\* What the search of t knows of a file it has been through.
SearchedFile(p, f) ==
    /\ f # target => ~(expected[f] = p /\ work[f] = Pointer(p))
    /\ f = target /\ ~raced => ~(expected[f] = p /\ Hand.content = Pointer(p))

Searched ==
    \A t \in Callers : pc[t] = "scan" /\ job[t].previous \notin Shared =>
        \A f \in Files \ job[t].left : Owner[f] = t => SearchedFile(job[t].previous, f)

ContentInv ==
    TypeOK /\ OwnContents /\ RawIsShared /\ HoldsExpected /\ InHand /\ PartialIsKnown
    /\ BlobIsThere /\ Searched

LEMMA OwnedFacts ==
  ASSUME NEW f \in Files
  PROVE  /\ Owned(f, Absent) /\ Owned(f, Empty) /\ Owned(f, Torn) /\ Owned(f, NoBlob)
         /\ \A c \in Writes[Owner[f]] : Owned(f, c) /\ Owned(f, Pointerized(c))
         /\ \A q : Owned(f, q) => Owned(f, Pointerized(q))
         /\ \A q : \A h \in Files : Owner[h] = Owner[f] /\ Owned(h, q) => Owned(f, q)
         /\ \A q \in Stored : Owned(f, q) => PointerOf(q) \in Writes[Owner[f]] \cup {NoBlob}
  <1> USE BlobAssumption, PointerFacts
  <1>1. Owned(f, Absent) /\ Owned(f, Empty) /\ Owned(f, Torn) /\ Owned(f, NoBlob)
    BY DEF Owned
  <1>2. ASSUME NEW c \in Writes[Owner[f]] PROVE Owned(f, c)
    BY DEF Owned
  <1>3. ASSUME NEW q, Owned(f, q) PROVE Owned(f, Pointerized(q))
    BY <1>3 DEF Owned, Pointerized, Contents
  <1>4. \A q : \A h \in Files : Owner[h] = Owner[f] /\ Owned(h, q) => Owned(f, q)
    BY DEF Owned
  <1>5. ASSUME NEW q \in Stored, Owned(f, q) PROVE PointerOf(q) \in Writes[Owner[f]] \cup {NoBlob}
    BY <1>5 DEF Owned, PointerOf
  <1> QED
    BY <1>1, <1>2, <1>3, <1>4, <1>5

\* What a step of a caller makes of a file, and of what the file should read back as.
LEMMA FileAfter ==
  ASSUME TypeOK, NEW t \in Callers, CallerMoves(t), NEW f \in Files
  PROVE  \/ /\ work'[f] = work[f] /\ expected'[f] = expected[f]
            /\ f = target <=> f = target'
         \/ /\ Owner[f] = t
            /\ \/ work'[f] = Empty /\ expected'[f] = Unknown
               \/ work'[f] = Absent /\ expected'[f] = Absent
               \/ /\ pc[t] = "fill"
                  /\ \/ work'[f] \in {Pointerized(job[t].content), Torn} /\ expected'[f] = Unknown
                     \/ /\ work'[f] = Pointerized(job[t].content) /\ expected'[f] = job[t].content
               \/ \E h \in Files : /\ Owner[h] = t /\ (h = target => f = target')
                                   /\ work'[f] = work[h] /\ expected'[f] = expected[h]
  <1> USE DEF TypeOK
  <1>0. t \in Threads /\ t # Committer
    BY ThreadFacts
  <1>1. CASE Call(t)
    <2>1. ASSUME NEW g \in Files, NEW h \in Files, Rename(t, g, h)
          PROVE  \/ /\ work'[f] = work[f] /\ expected'[f] = expected[f]
                    /\ f = target <=> f = target'
                 \/ f = g /\ Owner[f] = t /\ work'[f] = Absent /\ expected'[f] = Absent
                 \/ /\ f = h /\ Owner[f] = t /\ Owner[g] = t /\ (g = target => f = target')
                    /\ work'[f] = work[g] /\ expected'[f] = expected[g]
      BY <2>1, BlobAssumption DEF Rename
    <2> QED
      BY <1>1, <2>1, Zenon DEF Call, WriteFile, DeleteFile, history
  <1>2. CASE Step(t)
    <2>1. pc[t] \in {"open", "fill", "remove"} => job[t].file \in Files /\ Owner[job[t].file] = t
      BY <1>0 DEF JobOK, Idle
    <2>2. CASE OpenFile(t)
      BY <2>1, <2>2 DEF OpenFile, At
    <2>3. CASE FillFile(t)
      <3> DEFINE g == job[t].file
                 text == Pointerized(job[t].content)
      <3>1. pc[t] = "fill" /\ g \in Files /\ Owner[g] = t /\ job[t].content \in Contents
        BY <1>0, <2>1, <2>3 DEF FillFile, At, JobOK
      <3>2. text \in Stored /\ text # Empty
        BY <3>1, PointerTypes, PointerFacts, BlobAssumption DEF Pointerized, Contents
      <3>3. Fill(g, text) /\ target' = target
        BY <2>3 DEF FillFile
      <3> HIDE DEF text
      <3>4. /\ work'[g] \in {text, Torn} /\ (work[g] = Empty => work'[g] = text)
            /\ \A h \in Files : h # g => work'[h] = work[h]
        BY <3>1, <3>2, <3>3, FillFacts
      <3>5. expected' = [expected EXCEPT ![g] = IF work[g] = Empty THEN job[t].content ELSE Unknown]
        BY <2>3 DEF FillFile
      <3> QED
        BY <3>1, <3>3, <3>4, <3>5 DEF text
    <2>4. CASE RemoveFile(t)
      BY <2>1, <2>4, BlobAssumption DEF RemoveFile, At
    <2> QED
      BY <1>2, <2>2, <2>3, <2>4 DEF Step, Scan, DeleteBlob
  <1> QED
    BY <1>1, <1>2 DEF CallerMoves

\* The contents that a step of a caller puts into its job.
LEMMA JobAfter ==
  ASSUME TypeOK, NEW t \in Callers, CallerMoves(t)
  PROVE  /\ job'[t].content \in {NoBlob, job[t].content} \cup Writes[t]
         /\ job'[t].previous \in {NoBlob, job[t].previous}
                \cup {PointerOf(work[f]) : f \in {f \in Files : Owner[f] = t}}
  <1> USE DEF TypeOK
  <1>0. t \in Threads
    BY ThreadFacts
  <1>1. job[t] \in Jobs /\ NoJob.content = NoBlob /\ NoJob.previous = NoBlob
    BY <1>0 DEF NoJob
  <1>2. CASE Call(t)
    <2>1. ASSUME NEW f \in Files, NEW c \in Contents, WriteFile(t, f, c)
          PROVE  job'[t].content = c /\ job'[t].previous = PointerOf(work[f])
                 /\ c \in Writes[t] /\ Owner[f] = t
      BY <1>0, <2>1 DEF WriteFile, Begin, NoJob
    <2>2. ASSUME NEW f \in Files, DeleteFile(t, f)
          PROVE  job'[t].content = NoBlob /\ job'[t].previous = PointerOf(work[f])
                 /\ Owner[f] = t
      BY <1>0, <2>2 DEF DeleteFile, Begin, NoJob
    <2>3. ASSUME job' = job
          PROVE  job'[t].content = job[t].content /\ job'[t].previous = job[t].previous
      BY <2>3
    <2>4. (\E f, g \in Files : Rename(t, f, g)) => job' = job
      BY DEF Rename
    <2> QED
      BY <1>2, <2>1, <2>2, <2>3, <2>4 DEF Call
  <1>3. CASE Step(t)
    <2>1. \/ job'[t] = NoJob
          \/ job'[t].content = job[t].content /\ job'[t].previous = job[t].previous
      BY <1>0, <1>1, <1>3 DEF Step, OpenFile, FillFile, RemoveFile, Scan, DeleteBlob, LookAfter,
         Return, Jobs
    <2> QED
      BY <1>1, <2>1
  <1> QED
    BY <1>2, <1>3 DEF CallerMoves

\* Callers leave the commits and what is in the committer's hand, and its file unless
\* the race is on record.
LEMMA CallerAndHand ==
  ASSUME TypeOK, NEW t \in Callers, CallerMoves(t)
  PROVE  /\ commits' = commits /\ pc'[Committer] = pc[Committer]
         /\ Hand'.file = Hand.file /\ Hand'.content = Hand.content /\ Hand'.tree = Hand.tree
         /\ target' \in Files \cup {Absent}
         /\ target' # Absent => target # Absent /\ (target' # target => Owner[target'] = Owner[target])
         /\ ~raced' => /\ ~raced /\ target' = target
                       /\ \A f \in Files \cap {Hand.file, target} :
                             work'[f] = work[f] /\ expected'[f] = expected[f]
  <1>0. t \in Threads /\ t # Committer /\ Committer \in Threads /\ Moves(t)
    BY ThreadFacts DEF Moves
  <1>1. /\ pc'[Committer] = pc[Committer]
        /\ Hand'.file = Hand.file /\ Hand'.content = Hand.content /\ Hand'.tree = Hand.tree
    BY <1>0, OthersStay DEF Hand
  <1>2. commits' = commits
    BY Zenon DEF CallerMoves, Call, Step, WriteFile, DeleteFile, Rename, OpenFile, FillFile, RemoveFile,
       Scan, DeleteBlob
  <1>3. target \in Files \cup {Absent}
    BY DEF TypeOK
  <1>10. /\ target' \in Files \cup {Absent}
         /\ target' # Absent => target # Absent
                                /\ (target' # target => Owner[target'] = Owner[target])
         /\ ~raced' => /\ ~raced /\ target' = target
                       /\ \A f \in Files \cap {Hand.file, target} :
                             work'[f] = work[f] /\ expected'[f] = expected[f]
    <2>1. CASE \E g \in Files, h \in Files : Rename(t, g, h)
      <3>1. PICK g \in Files, h \in Files : Rename(t, g, h)
        BY <2>1
      <3>2. /\ target' \in Files \cup {Absent}
            /\ target' # Absent => target # Absent
                                   /\ (target' # target => Owner[target'] = Owner[target])
        BY <1>3, <3>1, BlobAssumption DEF Rename
      <3>3. ~raced' => ~raced /\ {g, h} \cap {Hand.file, target} = {}
        BY <3>1 DEF Rename, TypeOK, Hand
      <3>4. \A f \in Files : f \notin {g, h} => work'[f] = work[f] /\ expected'[f] = expected[f]
        BY <3>1 DEF Rename, TypeOK
      <3>5. target \notin {g, h} => target' = target
        BY <3>1 DEF Rename
      <3> QED
        BY <3>2, <3>3, <3>4, <3>5
    <2>2. CASE RemoveFile(t)
      BY <1>3, <2>2, BlobAssumption DEF RemoveFile, Touch, TypeOK, Hand
    <2>3. CASE FillFile(t)
      <3>1. job[t].file \in Files /\ job[t].content \in Contents
        BY <1>0, <2>3 DEF FillFile, At, TypeOK, JobOK, Idle
      <3>2. \A h \in Files : h # job[t].file => work'[h] = work[h]
        BY <2>3, <3>1, PointerTypes, FillFacts DEF FillFile, TypeOK
      <3>3. /\ target' = target /\ Touch(job[t].file)
            /\ \A h \in Files : h # job[t].file => expected'[h] = expected[h]
        BY <2>3 DEF FillFile, TypeOK
      <3> QED
        BY <1>3, <3>2, <3>3 DEF Touch, Hand
    <2>4. CASE OpenFile(t)
      BY <1>3, <2>4 DEF OpenFile, Touch, TypeOK, Hand
    <2>5. CASE (\E f \in Files : Scan(t, f)) \/ DeleteBlob(t)
      BY <1>3, <2>5 DEF Scan, DeleteBlob, TypeOK
    <2>6. CASE \E f \in Files : DeleteFile(t, f) \/ \E c \in Contents : WriteFile(t, f, c)
      <3>1. UNCHANGED <<work, target, expected, raced>>
        BY <2>6, Zenon DEF DeleteFile, WriteFile, history
      <3> QED
        BY <1>3, <3>1
    <2> QED
      <3>1. CASE Call(t)
        BY <2>1, <2>6, <3>1 DEF Call
      <3>2. CASE Step(t)
        BY <2>2, <2>3, <2>4, <2>5, <3>2 DEF Step
      <3> QED
        BY <3>1, <3>2 DEF CallerMoves
  <1> QED
    BY <1>1, <1>2, <1>10

\* What a step of a commit makes of a file.
LEMMA FileCommitted ==
  ASSUME TypeOK, CommitStep, NEW f \in Files
  PROVE  \/ /\ work'[f] = work[f] /\ expected'[f] \in {expected[f], Unknown}
            /\ f # target \/ expected'[f] = Unknown
         \/ /\ pc[Committer] = "open" /\ f = Hand.file /\ target' = f /\ target = Absent
            /\ work'[f] = Empty /\ expected'[f] = expected[f]
         \/ /\ pc[Committer] = "fill" /\ f = target /\ target' = Absent
            /\ \/ work'[f] \in {Pointerized(Hand.content), Torn}
               \/ work'[f] = work[f]
            /\ work[f] = Empty => work'[f] = Pointerized(Hand.content)
            /\ expected'[f] = IF raced THEN Unknown ELSE expected[f]
  <1>1. CASE Commit \/ WriteCommit \/ (\E g \in Files : ReadFile(g))
    <2>1. target = Absent
      BY <1>1, Zenon DEF Commit, WriteCommit, ReadFile, Begin, At, TypeOK, Idle
    <2>2. work' = work /\ expected' = expected
      BY <1>1, Zenon DEF Commit, WriteCommit, ReadFile, history
    <2> QED
      BY <2>1, <2>2, BlobAssumption
  <1>2. CASE OpenWriteBack
    <2>1. target = Absent /\ pc[Committer] = "open"
      BY <1>2 DEF OpenWriteBack, At, TypeOK
    <2> QED
      BY <1>2, <2>1, BlobAssumption DEF OpenWriteBack, TypeOK
  <1>3. CASE FillWriteBack
    <2> DEFINE text == Pointerized(Hand.content)
    <2>1. /\ pc[Committer] = "fill" /\ target' = Absent
          /\ expected'[f] = IF raced /\ f = target THEN Unknown ELSE expected[f]
      BY <1>3 DEF FillWriteBack, At, Resume, TypeOK
    <2>2. text \in Stored
      BY <2>1, HandTyped
    <2>3. target # Absent => Fill(target, text)
      BY <1>3 DEF FillWriteBack
    <2>4. target = Absent => work' = work
      BY <1>3 DEF FillWriteBack
    <2>5. work \in [Files -> Stored]
      BY DEF TypeOK
    <2> HIDE DEF text
    <2>6. CASE f # target
      <3>1. work'[f] = work[f]
        BY <2>2, <2>3, <2>4, <2>5, <2>6, FillFacts DEF TypeOK
      <3> QED
        BY <2>1, <2>6, <3>1
    <2>7. CASE f = target
      <3>1. Fill(f, text)
        BY <2>3, <2>7, BlobAssumption
      <3>2. /\ work'[f] \in {text, Torn} \/ work'[f] = work[f]
            /\ work[f] = Empty => work'[f] = text
        BY <2>2, <2>5, <3>1, FillFacts
      <3> QED
        BY <2>1, <2>7, <3>2 DEF text
    <2> QED
      BY <2>6, <2>7
  <1>4. CASE WriteBackFails
    BY <1>4 DEF WriteBackFails, TargetLost
  <1> QED
    BY <1>1, <1>2, <1>3, <1>4 DEF CommitStep

\* And of what is in its hand.
LEMMA HandAfter ==
  ASSUME TypeOK, CommitStep
  PROVE  \/ /\ pc[Committer] = "build" /\ pc'[Committer] \in {"store", "open"}
            /\ Hand'.file \in Files /\ Hand'.content = work[Hand'.file]
            /\ Hand'.tree = Hand.tree /\ work' = work /\ target' = Absent /\ target = Absent
         \/ /\ pc[Committer] = "open" /\ pc'[Committer] = "fill" /\ Hand' = Hand
            /\ target' = Hand.file /\ target = Absent
            /\ raced' = raced /\ work'[Hand.file] = Empty /\ expected' = expected
         \/ /\ pc'[Committer] \in {Idle, "build"} /\ target' = Absent
            /\ Hand'.file = Absent /\ Hand'.content = NoBlob
            /\ \A f \in Files : \/ Hand'.tree[f] \in {Absent, Hand.tree[f]}
                                \/ /\ f = Hand.file /\ pc[Committer] \in {"open", "fill"}
                                   /\ Hand'.tree[f] = Pointerized(Hand.content)
  <1> USE DEF TypeOK
  <1>0. Hand \in Jobs /\ Committer \in Threads /\ JobOK(Committer, pc[Committer], Hand)
    BY HandTyped, ThreadFacts
  <1>n. NoJob.file = Absent /\ NoJob.content = NoBlob /\ NoJob.tree = NoTree
    BY DEF NoJob
  <1>1. CASE Commit
    BY <1>0, <1>1, <1>n DEF Commit, Begin, Goto, At, Hand, NoTree, NoJob, Idle
  <1>2. ASSUME NEW g \in Files, ReadFile(g), work[g] = Absent
        PROVE  /\ pc'[Committer] = "build" /\ target' = Absent
               /\ Hand'.file = Absent /\ Hand'.content = NoBlob /\ Hand'.tree = Hand.tree
    <2>1. /\ pc' = pc /\ pc[Committer] = "build" /\ target' = target
          /\ job' = [job EXCEPT ![Committer] = [Hand EXCEPT !.left = @ \ {g}]]
      BY <1>2 DEF ReadFile, At, Hand
    <2>2. Hand' = [Hand EXCEPT !.left = @ \ {g}]
      BY <1>0, <2>1 DEF Hand
    <2> QED
      BY <1>0, <2>1, <2>2 DEF Jobs, JobOK, At
  <1>3. ASSUME NEW g \in Files, ReadFile(g), work[g] # Absent
        PROVE  /\ pc[Committer] = "build" /\ pc'[Committer] \in {"store", "open"}
               /\ Hand'.file = g /\ Hand'.content = work[g]
               /\ Hand'.tree = Hand.tree /\ work' = work /\ target' = Absent /\ target = Absent
    <2>1. /\ pc' = [pc EXCEPT ![Committer] = IF work[g] \in Large THEN "store" ELSE "open"]
          /\ pc[Committer] = "build" /\ target' = target /\ work' = work
          /\ job' = [job EXCEPT ![Committer] =
                        [Hand EXCEPT !.left = @ \ {g}, !.file = g, !.content = work[g]]]
      BY <1>3 DEF ReadFile, At, Goto
    <2>2. Hand' = [Hand EXCEPT !.left = @ \ {g}, !.file = g, !.content = work[g]]
      BY <1>0, <2>1 DEF Hand
    <2> QED
      BY <1>0, <2>1, <2>2 DEF Jobs, At
  <1>4. CASE OpenWriteBack
    <2>1. Hand.file \in Files /\ pc[Committer] = "open"
      BY <1>4, HandTyped DEF OpenWriteBack, At
    <2> QED
      BY <1>0, <1>4, <2>1 DEF OpenWriteBack, At, Hand, Goto
  <1>5. ASSUME NEW entry, Resume(entry), pc[Committer] \in {"open", "fill"}
        PROVE  /\ pc'[Committer] = "build" /\ target' = Absent
               /\ Hand'.file = Absent /\ Hand'.content = NoBlob
               /\ \A f \in Files : Hand'.tree[f] = IF f = Hand.file THEN entry ELSE Hand.tree[f]
    <2> DEFINE tree == [Hand.tree EXCEPT ![Hand.file] = entry]
    <2>1. /\ pc' = [pc EXCEPT ![Committer] = "build"] /\ target' = Absent
          /\ job' = [job EXCEPT ![Committer] = [NoJob EXCEPT !.left = Hand.left, !.tree = tree]]
      BY <1>5 DEF Resume, Goto
    <2>2. Hand' = [NoJob EXCEPT !.left = Hand.left, !.tree = tree]
      BY <1>0, <2>1 DEF Hand
    <2>3. Hand.tree \in [Files -> Stored] /\ Hand.file \in Files
      BY <1>0, <1>5, HandTyped DEF Jobs
    <2>4. \A f \in Files : tree[f] = IF f = Hand.file THEN entry ELSE Hand.tree[f]
      BY <2>3
    <2> HIDE DEF tree
    <2>5. Hand'.file = Absent /\ Hand'.content = NoBlob /\ Hand'.tree = tree
      BY <2>2 DEF NoJob
    <2> QED
      BY <1>0, <2>1, <2>4, <2>5
  <1>6. CASE FillWriteBack
    <2>1. /\ pc[Committer] = "fill"
          /\ Resume(IF work[Hand.file] = Absent THEN Absent ELSE Pointerized(Hand.content))
      BY <1>6 DEF FillWriteBack, At
    <2>2. \A f \in Files : \/ Hand'.tree[f] \in {Absent, Hand.tree[f]}
                           \/ f = Hand.file /\ Hand'.tree[f] = Pointerized(Hand.content)
      BY <1>5, <2>1
    <2> QED
      BY <1>5, <2>1, <2>2
  <1>7. CASE WriteBackFails
    BY <1>5, <1>7 DEF WriteBackFails
  <1>8. CASE WriteCommit
    <2>1. Hand' = NoJob /\ pc'[Committer] = Idle /\ target' = Absent
      BY <1>0, <1>8 DEF WriteCommit, Return, Goto, Hand, At
    <2> QED
      BY <1>n, <2>1 DEF NoTree
  <1> QED
    BY <1>1, <1>2, <1>3, <1>4, <1>6, <1>7, <1>8 DEF CommitStep

\* Storing a blob moves no file; a thread that fails has nothing in hand.
LEMMA StoreAfter ==
  ASSUME TypeOK, NEW t \in Threads, StoreStep(t)
  PROVE  /\ UNCHANGED <<work, commits, target, expected>> /\ raced' \in {raced, FALSE}
         /\ \/ /\ job'[t].content = job[t].content /\ job'[t].file = job[t].file
               /\ job'[t].previous = job[t].previous /\ job'[t].tree = job[t].tree
               /\ pc[t] \in {"store", "create", "fillBlob"} /\ raced' = raced
               /\ pc'[t] \in {"create", "fillBlob", "open"}
            \/ job'[t] = NoJob /\ pc'[t] = Idle /\ (t # Committer => raced' = raced)
         /\ target # Absent => t # Committer
  <1>1. job[t] \in Jobs
    BY DEF TypeOK
  <1>2. CASE FindBlob(t) \/ CreateBlob(t) \/ FillBlob(t)
    <2>1. UNCHANGED <<work, commits, target, expected, raced>>
      BY <1>2 DEF FindBlob, CreateBlob, FillBlob, history
    <2>2. job'[t] = job[t] \/ job'[t] = [job[t] EXCEPT !.linked = TRUE]
      BY <1>2 DEF FindBlob, CreateBlob, FillBlob, TypeOK
    <2>3. pc[t] \in {"store", "create", "fillBlob"} /\ pc'[t] \in {"create", "fillBlob", "open"}
      BY <1>2 DEF FindBlob, CreateBlob, FillBlob, Goto, At, TypeOK
    <2>4. target # Absent => t # Committer
      BY <2>3 DEF TypeOK, At
    <2> QED
      BY <1>1, <2>1, <2>2, <2>3, <2>4 DEF Jobs
  <1>3. CASE FillFails(t)
    BY <1>3 DEF FillFails, Return, Goto, TypeOK, At
  <1> QED
    BY <1>2, <1>3 DEF StoreStep

\* Who moves changes no other thread's contents, and only its own files.
LEMMA OwnContentsStep ==
  ASSUME ContentInv, TypeOK', NEW t \in Callers, CallerMoves(t)
  PROVE  OwnContents'
  <1> USE DEF ContentInv
  <1>0. t \in Threads /\ t # Committer /\ Moves(t)
    BY ThreadFacts DEF Moves
  <1>1. ASSUME NEW u \in Callers
        PROVE  job[u].content \in Writes[u] \cup {NoBlob} /\ job[u].previous \in Writes[u] \cup {NoBlob}
    BY DEF OwnContents
  <1>2. ASSUME NEW f \in Files PROVE Owned(f, work[f]) /\ work[f] \in Stored
    BY DEF OwnContents, TypeOK
  <1>3. ASSUME NEW f \in Files PROVE Owned(f, work'[f])
    <2>1. pc[t] = "fill" => job[t].content \in Writes[t]
      BY <1>0, <1>1, BlobAssumption DEF TypeOK, JobOK
    <2>2. CASE work'[f] = work[f]
      BY <1>2, <2>2
    <2>3. CASE Owner[f] = t
      <3>1. \A h \in Files : Owner[h] = t => Owned(f, work[h])
        BY <1>2, <2>3, OwnedFacts
      <3> QED
        BY <1>2, <2>1, <2>3, <3>1, FileAfter, OwnedFacts
    <2> QED
      BY <2>2, <2>3, FileAfter
  <1>5. ASSUME NEW u \in Callers
        PROVE  {job'[u].content, job'[u].previous} \subseteq Writes[u] \cup {NoBlob}
    <2>1. CASE u = t
      <3>1. \A f \in Files : Owner[f] = t => PointerOf(work[f]) \in Writes[t] \cup {NoBlob}
        BY <1>2, OwnedFacts
      <3> QED
        BY <1>1, <2>1, <3>1, JobAfter
    <2>2. CASE u # t
      BY <1>0, <1>1, <2>2, OthersStay, ThreadFacts
    <2> QED
      BY <2>1, <2>2
  <1>6. /\ Hand'.file = Hand.file /\ Hand'.content = Hand.content /\ Hand'.tree = Hand.tree
        /\ commits' = commits
        /\ target' # Absent => target # Absent /\ (target' # target => Owner[target'] = Owner[target])
    BY CallerAndHand
  <1>7. \A f \in Files : Owned(f, Hand'.tree[f])
    BY <1>6 DEF OwnContents
  <1>8. \A id \in DOMAIN commits', f \in Files : Owned(f, commits'[id][f])
    BY <1>6 DEF OwnContents
  <1>9. /\ Hand'.file \in Files => Owned(Hand'.file, Hand'.content)
        /\ target' # Absent => Owner[target'] = Owner[Hand'.file]
    BY <1>6 DEF OwnContents
  <1> HIDE DEF ContentInv
  <1> QED
    BY <1>3, <1>5, <1>7, <1>8, <1>9 DEF OwnContents, Owned, Pointer, Hand

\* Pointers are made of raw contents, raw contents of none.
LEMMA RawIsSharedStep ==
  ASSUME ContentInv, NEW t \in Callers, CallerMoves(t)
  PROVE  RawIsShared'
  <1> USE DEF ContentInv
  <1>1. {Absent, Empty, Torn} \cap Large = {}
    BY BlobAssumption DEF Contents
  <1>2. ASSUME NEW f \in Files, work'[f] \in Large PROVE \E h \in Files : work[h] = work'[f]
    BY <1>1, <1>2, FileAfter, PointerTypes
  <1>3. ASSUME NEW f \in Files PROVE {work'[f], Hand'.tree[f]} \cap Large \subseteq Shared
    BY <1>2, CallerAndHand DEF RawIsShared
  <1>4. {Hand'.content} \cap Large \subseteq Shared
    BY CallerAndHand DEF RawIsShared
  <1>5. \A id \in DOMAIN commits', f \in Files : {commits'[id][f]} \cap Large \subseteq Shared
    BY CallerAndHand DEF RawIsShared
  <1>6. Shared' = Shared
    BY DEF Shared
  <1> QED
    BY <1>3, <1>4, <1>5, <1>6 DEF RawIsShared, Hand

LEMMA HoldsStep ==
  ASSUME ContentInv, NEW t \in Callers, CallerMoves(t)
  PROVE  HoldsExpected' /\ InHand'
  <1> USE DEF ContentInv
  <1>1. ASSUME NEW f \in Files \ {target'} PROVE Holds(expected'[f], work'[f])
    <2>1. CASE f # target /\ work'[f] = work[f] /\ expected'[f] = expected[f]
      BY <2>1 DEF HoldsExpected
    <2>2. CASE \E h \in Files : h # target /\ work'[f] = work[h] /\ expected'[f] = expected[h]
      BY <2>2 DEF HoldsExpected
    <2>3. CASE expected'[f] \in {Unknown, work'[f]} \/ work'[f] = Pointerized(expected'[f])
      BY <2>3 DEF Holds
    <2>4. CASE f = target /\ work'[f] = work[f] /\ expected'[f] = expected[f] /\ f = target'
      BY <2>4
    <2> QED
      BY <2>1, <2>2, <2>3, <2>4, FileAfter
  <1>2. HoldsExpected'
    BY <1>1, Zenon DEF HoldsExpected, Holds, Pointerized, Pointer
  <1>3. ASSUME ~raced'
        PROVE  /\ pc'[Committer] \in {"store", "create", "fillBlob", "open"}
                    => work'[Hand'.file] = Hand'.content
               /\ pc'[Committer] = "fill" => /\ target' = Hand'.file /\ work'[target'] = Empty
                                             /\ Holds(expected'[target'], Hand'.content)
    <2>1. /\ ~raced /\ target' = target /\ pc'[Committer] = pc[Committer]
          /\ Hand'.file = Hand.file /\ Hand'.content = Hand.content
          /\ \A f \in Files \cap {Hand.file, target} : work'[f] = work[f] /\ expected'[f] = expected[f]
      BY <1>3, CallerAndHand
    <2>2. pc[Committer] \notin {Idle, "build"} => Hand.file \in Files
      BY HandTyped DEF JobOK
    <2> QED
      BY <2>1, <2>2 DEF InHand, Idle
  <1>4. InHand'
    BY <1>3 DEF InHand, Hand, Holds, Pointerized, Pointer
  <1> QED
    BY <1>2, <1>4

\* What is not shared is written by one caller.
LEMMA NotShared ==
  ASSUME NEW c \in Contents \ Shared, NEW t \in Callers, c \in Writes[t],
         NEW u \in Callers, u # t
  PROVE  c \notin Writes[u]
  BY DEF Shared

\* Only the clean-up of the caller that writes the content deletes its blob, and it
\* has been through all of the files that may point to it.
LEMMA BlobIsThereStep ==
  ASSUME ContentInv, NEW t \in Callers, CallerMoves(t)
  PROVE  BlobIsThere'
  <1> USE DEF ContentInv
  <1>0. t \in Threads /\ t # Committer /\ Moves(t) /\ job[t] \in Jobs
    BY ThreadFacts DEF Moves, TypeOK
  <1>h. /\ Hand'.content = Hand.content
        /\ ~raced' => /\ ~raced /\ target' = target
                      /\ \A f \in Files \cap {Hand.file, target} :
                            work'[f] = work[f] /\ expected'[f] = expected[f]
    BY CallerAndHand
  <1>s. Shared' = Shared
    BY DEF Shared
  <1>g. target \in Files \cup {Absent}
    BY DEF TypeOK
  <1>k. Absent \notin Files
    BY BlobAssumption
  <1> SUFFICES ASSUME NEW c \in Large \ Shared, blobs'[c] = "none"
               PROVE  /\ \A f \in Files \ {target'} : ~(expected'[f] = c /\ work'[f] = Pointer(c))
                      /\ \A u \in Callers : pc'[u] \in {"fillBlob", "open", "fill"}
                                               => job'[u].content # c
                      /\ target' # Absent /\ ~raced'
                           => ~(expected'[target'] = c /\ Hand'.content = Pointer(c))
    BY <1>s, Zenon DEF BlobIsThere, Pointer, Hand
  <1>n. c \notin {Unknown, Absent, NoBlob}
    BY BlobAssumption DEF Contents
  <1>1. CASE blobs[c] = "none"
    <2>1. /\ \A f \in Files \ {target} : ~(expected[f] = c /\ work[f] = Pointer(c))
          /\ \A u \in Callers : pc[u] \in {"fillBlob", "open", "fill"} => job[u].content # c
          /\ target # Absent /\ ~raced => ~(expected[target] = c /\ Hand.content = Pointer(c))
      BY <1>1 DEF BlobIsThere
    <2>2. ASSUME NEW f \in Files \ {target'}, expected'[f] = c, work'[f] = Pointer(c) PROVE FALSE
      <3>1. CASE f # target /\ work'[f] = work[f] /\ expected'[f] = expected[f]
        BY <2>1, <2>2, <3>1
      <3>2. CASE \E h \in Files : h # target /\ work'[f] = work[h] /\ expected'[f] = expected[h]
        BY <2>1, <2>2, <3>2
      <3>3. CASE pc[t] = "fill" /\ expected'[f] = job[t].content
        BY <2>1, <2>2, <3>3
      <3> QED
        BY <1>n, <2>2, <3>1, <3>2, <3>3, FileAfter
    <2>3. ASSUME NEW u \in Callers, pc'[u] \in {"fillBlob", "open", "fill"}, job'[u].content = c
          PROVE  FALSE
      <3>1. CASE u # t
        BY <1>0, <2>1, <2>3, <3>1, OthersStay, ThreadFacts
      <3>2. CASE u = t
        <4>1. CASE \E f \in Files, d \in Contents : WriteFile(t, f, d)
          BY <1>0, <2>3, <3>2, <4>1 DEF WriteFile, Begin, Goto, NoJob, TypeOK
        <4>2. CASE OpenFile(t)
          BY <2>1, <2>3, <3>2, <4>2 DEF OpenFile, At
        <4>3. CASE \E f \in Files : DeleteFile(t, f) \/ \E h \in Files : Rename(t, f, h)
          BY <1>0, ZenonT(40), <2>3, <3>2, <4>3 DEF DeleteFile, Rename, Begin, Goto, At, Idle, TypeOK
        <4>4. CASE FillFile(t) \/ RemoveFile(t) \/ DeleteBlob(t) \/ \E f \in Files : Scan(t, f)
          <5>1. pc'[t] \in {"scan", Idle}
            BY <1>0, <4>4 DEF FillFile, RemoveFile, DeleteBlob, Scan, LookAfter, Return, Goto, At, TypeOK
          <5> QED
            BY <2>3, <3>2, <5>1 DEF Idle
        <4> QED
          BY <4>1, <4>2, <4>3, <4>4 DEF CallerMoves, Call, Step
      <3> QED
        BY <3>1, <3>2
    <2>4. target' # Absent /\ ~raced' => ~(expected'[target'] = c /\ Hand'.content = Pointer(c))
      BY <1>h, <1>g, <2>1
    <2> QED
      BY <2>2, <2>3, <2>4
  <1>2. CASE blobs[c] # "none"
    <2>1. DeleteBlob(t) /\ job[t].previous = c
      <3>1. ~DeleteBlob(t) => blobs' = blobs
        BY Zenon DEF CallerMoves, Call, Step, WriteFile, DeleteFile, Rename, OpenFile, FillFile,
           RemoveFile, Scan
      <3>2. DeleteBlob(t) => job[t].previous = c
        BY <1>2 DEF DeleteBlob, TypeOK
      <3> QED
        BY <1>2, <3>1, <3>2
    <2>2. /\ pc[t] = "scan" /\ job[t].left = {} /\ pc'[t] = Idle
          /\ work' = work /\ expected' = expected /\ target' = target /\ raced' = raced
      BY <1>0, <2>1 DEF DeleteBlob, At, Goto, TypeOK
    <2>3. c \in Writes[t] /\ c \in Contents
      BY <1>n, <2>1 DEF OwnContents, Contents
    <2>4. \A f \in Files : Owner[f] \in Callers /\ (c \in Writes[Owner[f]] => Owner[f] = t)
      BY <2>3, NotShared, BlobAssumption
    <2>5. \A f \in Files : Owner[f] = t => SearchedFile(c, f)
      BY <2>1, <2>2 DEF Searched
    <2>6. ASSUME NEW f \in Files \ {target}, work[f] = Pointer(c), expected[f] = c PROVE FALSE
      <3>1. Owner[f] = t
        BY <2>4, <2>6 DEF OwnContents, Owned
      <3> QED
        BY <2>5, <2>6, <3>1 DEF SearchedFile
    <2>7. ASSUME target # Absent, ~raced, expected[target] = c, Hand.content = Pointer(c) PROVE FALSE
      <3>1. target \in Files /\ pc[Committer] = "fill" /\ Hand.file \in Files
        BY <1>g, <2>7, HandTyped DEF TypeOK, At
      <3>2. Owner[target] = Owner[Hand.file] /\ c \in Writes[Owner[Hand.file]]
        BY <2>7, <3>1 DEF OwnContents, Owned
      <3>3. Owner[target] = t
        BY <2>4, <3>1, <3>2
      <3> QED
        BY <2>5, <2>7, <3>1, <3>3 DEF SearchedFile
    <2>8. ASSUME NEW u \in Callers, u # t PROVE job'[u].content # c
      <3>1. job[u].content # c
        BY <1>n, <2>3, <2>8, NotShared DEF OwnContents
      <3> QED
        BY <1>0, <2>8, <3>1, OthersStay, ThreadFacts
    <2> QED
      BY <1>h, <2>2, <2>6, <2>7, <2>8 DEF Idle
  <1> QED
    BY <1>1, <1>2

\* A search is not overtaken: only the caller itself puts a pointer to the blob
\* into one of its files, and it is busy with the search.
LEMMA SearchedStep ==
  ASSUME ContentInv, NEW t \in Callers, CallerMoves(t)
  PROVE  Searched'
  <1> USE DEF ContentInv
  <1>0. t \in Threads /\ t # Committer /\ Moves(t) /\ job[t] \in Jobs
    BY ThreadFacts DEF Moves, TypeOK
  <1>h. /\ Hand'.content = Hand.content
        /\ ~raced' => /\ ~raced /\ target' = target
                      /\ \A f \in Files \cap {Hand.file, target} :
                            work'[f] = work[f] /\ expected'[f] = expected[f]
    BY CallerAndHand
  <1>s. Shared' = Shared
    BY DEF Shared
  <1> SUFFICES ASSUME NEW u \in Callers, pc'[u] = "scan", job'[u].previous \notin Shared,
                      NEW f \in Files \ job'[u].left, Owner[f] = u
               PROVE  /\ f # target' => ~(/\ expected'[f] = job'[u].previous
                                          /\ work'[f] = Pointer(job'[u].previous))
                      /\ f = target' /\ ~raced' => ~(/\ expected'[f] = job'[u].previous
                                                     /\ Hand'.content = Pointer(job'[u].previous))
    BY <1>s DEF Searched, SearchedFile, Pointer, Hand
  <1>1. CASE u # t
    <2>1. /\ pc[u] = "scan" /\ job'[u].previous = job[u].previous /\ job'[u].left = job[u].left
      BY <1>0, <1>1, OthersStay, ThreadFacts
    <2>2. SearchedFile(job[u].previous, f)
      BY <2>1 DEF Searched
    <2>3. work'[f] = work[f] /\ expected'[f] = expected[f] /\ (f = target <=> f = target')
      BY <1>1, FileAfter
    <2> QED
      BY <1>h, <2>1, <2>2, <2>3 DEF SearchedFile
  <1>2. CASE u = t
    <2>1. CASE \E h \in Files : Scan(t, h)
      <3>1. PICK h \in Files : Scan(t, h)
        BY <2>1
      <3>2. /\ pc[t] = "scan" /\ work' = work /\ expected' = expected /\ target' = target
            /\ raced' = (raced \/ h = target)
        BY <3>1 DEF Scan, At
      <3>3. PointerOf(work[h]) # job[t].previous
        BY <1>0, <1>2, <3>1 DEF Scan, Return, Goto, TypeOK, Idle
      <3>4. job'[t].previous = job[t].previous /\ job'[t].left = job[t].left \ {h}
        BY <1>0, <3>1, <3>3 DEF Scan, TypeOK, Jobs
      <3>5. job[t].previous \in Large /\ work[h] # Pointer(job[t].previous)
        BY <1>0, <3>2, <3>3, PointerTypes DEF TypeOK, JobOK
      <3>6. f # h => SearchedFile(job[t].previous, f)
        BY <1>2, <3>2, <3>4 DEF Searched
      <3>7. CASE f = h
        BY <1>2, <3>2, <3>4, <3>5, <3>7
      <3>8. CASE f # h
        BY <1>2, <1>h, <3>2, <3>4, <3>6, <3>8 DEF SearchedFile
      <3> QED
        BY <3>7, <3>8
    <2>2. CASE FillFile(t)
      <3>1. job'[t].left = Files
        BY <1>0, <1>2, <2>2 DEF FillFile, LookAfter, Return, Goto, Jobs, Idle, TypeOK
      <3> QED
        BY <1>2, <3>1
    <2>3. CASE RemoveFile(t)
      <3>1. job'[t].left = Files \ {job[t].file} /\ job'[t].previous \in Large
        BY <1>0, <1>2, <2>3 DEF RemoveFile, LookAfter, Return, Goto, Jobs, Idle, TypeOK
      <3>2. expected'[job[t].file] = Absent
        BY <1>0, <2>3 DEF RemoveFile, At, JobOK, Idle, TypeOK
      <3>3. Absent \notin Large
        BY BlobAssumption DEF Contents
      <3> QED
        BY <1>2, <3>1, <3>2, <3>3
    <2>4. CASE ~((\E h \in Files : Scan(t, h)) \/ FillFile(t) \/ RemoveFile(t))
      <3>1. CASE OpenFile(t) \/ DeleteBlob(t)
        BY <1>0, <1>2, <3>1 DEF OpenFile, DeleteBlob, Goto, Idle, TypeOK
      <3>2. CASE Call(t)
        BY <1>0, <1>2, <3>2, Zenon DEF Call, WriteFile, DeleteFile, Rename, Begin, Goto, At, Idle, TypeOK
      <3> QED
        BY <2>4, <3>1, <3>2 DEF CallerMoves, Step
    <2> QED
      BY <2>1, <2>2, <2>3, <2>4
  <1> QED
    BY <1>1, <1>2

\* Storing a blob.
LEMMA StoreKeepsContent ==
  ASSUME ContentInv, NEW t \in Threads, StoreStep(t)
  PROVE  OwnContents' /\ RawIsShared' /\ HoldsExpected' /\ InHand' /\ BlobIsThere' /\ Searched'
  <1> USE DEF ContentInv
  <1>0. Moves(t)
    BY DEF Moves
  <1>1. /\ UNCHANGED <<work, commits, target, expected>> /\ raced' \in {raced, FALSE}
        /\ \/ /\ job'[t].content = job[t].content /\ job'[t].file = job[t].file
              /\ job'[t].previous = job[t].previous /\ job'[t].tree = job[t].tree
              /\ pc[t] \in {"store", "create", "fillBlob"} /\ raced' = raced
              /\ pc'[t] \in {"create", "fillBlob", "open"}
           \/ job'[t] = NoJob /\ pc'[t] = Idle /\ (t # Committer => raced' = raced)
        /\ target # Absent => t # Committer
    BY StoreAfter
  <1>2. ASSUME NEW u \in Threads, u # t
        PROVE  /\ pc'[u] = pc[u] /\ job'[u].file = job[u].file
               /\ job'[u].content = job[u].content /\ job'[u].previous = job[u].previous
               /\ job'[u].left = job[u].left /\ job'[u].tree = job[u].tree
    BY <1>0, <1>2, OthersStay
  <1>3. /\ NoJob.content = NoBlob /\ NoJob.previous = NoBlob /\ NoJob.file = Absent
        /\ NoJob.tree = NoTree
    BY DEF NoJob
  <1>4. Committer \in Threads /\ Callers \subseteq Threads /\ Committer \notin Callers
    BY ThreadFacts
  <1>5. \/ /\ Hand'.content = Hand.content /\ Hand'.file = Hand.file /\ Hand'.tree = Hand.tree
           /\ raced' = raced
           /\ \/ pc'[Committer] = pc[Committer]
              \/ /\ pc[Committer] \in {"store", "create", "fillBlob"}
                 /\ pc'[Committer] \in {"create", "fillBlob", "open"}
        \/ /\ Hand'.content = NoBlob /\ Hand'.file = Absent /\ Hand'.tree = NoTree
           /\ pc'[Committer] = Idle /\ target = Absent
    <2>1. CASE t = Committer
      BY <1>1, <1>3, <2>1 DEF Hand
    <2>2. CASE t # Committer
      BY <1>1, <1>2, <1>4, <2>2 DEF Hand
    <2> QED
      BY <2>1, <2>2
  <1>6. OwnContents'
    <2>1. \A u \in Callers : {job'[u].content, job'[u].previous} \subseteq Writes[u] \cup {NoBlob}
      <3>1. ASSUME NEW u \in Callers
            PROVE  {job'[u].content, job'[u].previous} \subseteq {job[u].content, job[u].previous, NoBlob}
        <4>1. CASE u = t
          BY <1>1, <1>3, <4>1
        <4>2. CASE u # t
          BY <1>2, <1>4, <4>2
        <4> QED
          BY <4>1, <4>2
      <3> QED
        BY <3>1 DEF OwnContents
    <2>2. \A f \in Files : Owned(f, work'[f]) /\ Owned(f, Hand'.tree[f])
      BY <1>1, <1>5, OwnedFacts DEF OwnContents, NoTree
    <2>3. \A id \in DOMAIN commits', f \in Files : Owned(f, commits'[id][f])
      BY <1>1 DEF OwnContents
    <2>4. /\ Hand'.file \in Files => Owned(Hand'.file, Hand'.content)
          /\ target' # Absent => Owner[target'] = Owner[Hand'.file]
      BY <1>1, <1>5, BlobAssumption DEF OwnContents
    <2> HIDE DEF ContentInv
    <2> QED
      BY <2>1, <2>2, <2>3, <2>4 DEF OwnContents, Owned, Pointer, Hand
  <1>7. Shared' = Shared
    BY DEF Shared
  <1>8. RawIsShared'
    <2>1. {NoBlob, Absent} \cap Large = {}
      BY BlobAssumption DEF Contents
    <2>2. \A f \in Files : {work'[f], Hand'.tree[f]} \cap Large \subseteq Shared
      BY <1>1, <1>5, <2>1 DEF RawIsShared, NoTree
    <2>3. {Hand'.content} \cap Large \subseteq Shared
      BY <1>5, <2>1 DEF RawIsShared
    <2>4. \A id \in DOMAIN commits', f \in Files : {commits'[id][f]} \cap Large \subseteq Shared
      BY <1>1 DEF RawIsShared
    <2> HIDE DEF ContentInv
    <2> QED
      BY <1>7, <2>2, <2>3, <2>4 DEF RawIsShared, Hand
  <1>9. HoldsExpected'
    BY <1>1 DEF HoldsExpected, Holds, Pointerized, Pointer
  <1>10. InHand'
    <2>1. ASSUME ~raced'
          PROVE  /\ pc'[Committer] \in {"store", "create", "fillBlob", "open"}
                      => work'[Hand'.file] = Hand'.content
                 /\ pc'[Committer] = "fill" => /\ target' = Hand'.file /\ work'[target'] = Empty
                                               /\ Holds(expected'[target'], Hand'.content)
      BY <1>1, <1>5, <2>1 DEF InHand, Idle
    <2> HIDE DEF ContentInv
    <2> QED
      BY <2>1 DEF InHand, Hand, Holds, Pointerized, Pointer
  <1>11. BlobIsThere'
    <2> SUFFICES ASSUME NEW c \in Large \ Shared, blobs'[c] = "none"
                 PROVE  /\ \A f \in Files \ {target'} : ~(expected'[f] = c /\ work'[f] = Pointer(c))
                        /\ \A u \in Callers : pc'[u] \in {"fillBlob", "open", "fill"}
                                                 => job'[u].content # c
                        /\ target' # Absent /\ ~raced'
                             => ~(expected'[target'] = c /\ Hand'.content = Pointer(c))
      BY <1>7, Zenon DEF BlobIsThere, Pointer, Hand
    <2>1. blobs[c] = "none"
      BY DEF StoreStep, FindBlob, CreateBlob, FillBlob, FillFails, TypeOK
    <2>2. /\ \A f \in Files \ {target} : ~(expected[f] = c /\ work[f] = Pointer(c))
          /\ \A u \in Callers : pc[u] \in {"fillBlob", "open", "fill"} => job[u].content # c
          /\ target # Absent /\ ~raced => ~(expected[target] = c /\ Hand.content = Pointer(c))
      BY <2>1 DEF BlobIsThere
    <2>3. ASSUME NEW u \in Callers, pc'[u] \in {"fillBlob", "open", "fill"}, job'[u].content = c
          PROVE  FALSE
      <3>1. CASE u # t
        BY <1>2, <1>4, <2>2, <2>3, <3>1
      <3>2. CASE u = t
        <4>1. job[t].content = c /\ pc[t] \in {"store", "create"}
          BY <1>1, <2>2, <2>3, <3>2 DEF Idle
        <4>2. CASE FindBlob(t)
          BY <2>1, <2>3, <3>2, <4>1, <4>2 DEF FindBlob, Goto, TypeOK
        <4>3. CASE CreateBlob(t)
          BY <4>1, <4>3 DEF CreateBlob, TypeOK
        <4>4. CASE FillBlob(t)
          BY <4>1, <4>4 DEF FillBlob, At
        <4>5. CASE FillFails(t)
          BY <2>3, <3>2, <4>5 DEF FillFails, Return, Goto, TypeOK, Idle
        <4> QED
          BY <4>2, <4>3, <4>4, <4>5 DEF StoreStep
      <3> QED
        BY <3>1, <3>2
    <2> QED
      BY <1>1, <1>5, <2>2, <2>3
  <1>12. Searched'
    <2> SUFFICES ASSUME NEW u \in Callers, pc'[u] = "scan", job'[u].previous \notin Shared,
                        NEW f \in Files \ job'[u].left, Owner[f] = u
                 PROVE  /\ f # target' => ~(/\ expected'[f] = job'[u].previous
                                            /\ work'[f] = Pointer(job'[u].previous))
                        /\ f = target' /\ ~raced' => ~(/\ expected'[f] = job'[u].previous
                                                       /\ Hand'.content = Pointer(job'[u].previous))
      BY <1>7, Zenon DEF Searched, SearchedFile, Pointer, Hand
    <2>1. u # t
      BY <1>1 DEF Idle
    <2>2. SearchedFile(job[u].previous, f) /\ job'[u].previous = job[u].previous
      BY <1>2, <1>4, <2>1 DEF Searched
    <2>3. f # Absent
      BY BlobAssumption
    <2> QED
      BY <1>1, <1>5, <2>2, <2>3 DEF SearchedFile
  <1> QED
    BY <1>6, <1>8, <1>9, <1>10, <1>11, <1>12

\* The commit puts back what it read, or the race is on record.
LEMMA CommitKeepsContent ==
  ASSUME ContentInv, CommitStep
  PROVE  OwnContents' /\ RawIsShared' /\ HoldsExpected' /\ InHand' /\ BlobIsThere' /\ Searched'
  <1> USE DEF ContentInv
  <1>0. Moves(Committer) /\ Committer \in Threads /\ Callers \subseteq Threads /\ Committer \notin Callers
    BY ThreadFacts DEF Moves
  <1>2. ASSUME NEW u \in Callers
        PROVE  /\ pc'[u] = pc[u] /\ job'[u].content = job[u].content
               /\ job'[u].previous = job[u].previous /\ job'[u].left = job[u].left
    BY <1>0, <1>2, OthersStay
  <1>3. /\ target \in Files \cup {Absent} /\ Absent \notin Files
        /\ pc[Committer] \in {"open", "fill"} => Hand.file \in Files
        /\ target # Absent => pc[Committer] = "fill"
    BY HandTyped, BlobAssumption DEF TypeOK, At
  <1>4. \/ commits' = commits
        \/ \A id \in DOMAIN commits' : \/ id \in DOMAIN commits /\ commits'[id] = commits[id]
                                       \/ commits'[id] = Hand.tree
    <2>1. CASE WriteCommit
      BY <2>1 DEF WriteCommit, TypeOK
    <2>2. CASE ~WriteCommit
      BY <2>2, Zenon DEF CommitStep, Commit, ReadFile, OpenWriteBack, FillWriteBack, WriteBackFails
    <2> QED
      BY <2>1, <2>2
  <1>5. Shared' = Shared
    BY DEF Shared
  <1>6. OwnContents'
    <2>1. \A u \in Callers : {job'[u].content, job'[u].previous} \subseteq Writes[u] \cup {NoBlob}
      BY <1>2 DEF OwnContents
    <2>2. \A f \in Files : Owned(f, work'[f])
      <3>1. target \in Files => Owned(target, Hand.content)
        BY <1>3, OwnedFacts DEF OwnContents
      <3> QED
        BY <1>3, <3>1, FileCommitted, OwnedFacts DEF OwnContents
    <2>3. \A f \in Files : Owned(f, Hand'.tree[f])
      BY <1>3, HandAfter, OwnedFacts DEF OwnContents
    <2>4. \A id \in DOMAIN commits', f \in Files : Owned(f, commits'[id][f])
      BY <1>4 DEF OwnContents
    <2>5. /\ Hand'.file \in Files => Owned(Hand'.file, Hand'.content)
          /\ target' # Absent => Owner[target'] = Owner[Hand'.file]
      BY <1>3, HandAfter DEF OwnContents
    <2> HIDE DEF ContentInv
    <2> QED
      BY <2>1, <2>2, <2>3, <2>4, <2>5 DEF OwnContents, Owned, Pointer, Hand
  <1>7. RawIsShared'
    <2>1. {NoBlob, Absent, Empty, Torn} \cap Large = {}
      BY BlobAssumption DEF Contents
    <2>2. \A f \in Files : {work'[f]} \cap Large \subseteq Shared
      BY <2>1, FileCommitted, PointerTypes DEF RawIsShared
    <2>3. \A f \in Files : {Hand'.tree[f]} \cap Large \subseteq Shared
      BY <2>1, HandAfter, PointerTypes DEF RawIsShared
    <2>4. {Hand'.content} \cap Large \subseteq Shared
      BY <2>1, HandAfter DEF RawIsShared
    <2>5. \A id \in DOMAIN commits', f \in Files : {commits'[id][f]} \cap Large \subseteq Shared
      BY <1>4 DEF RawIsShared
    <2> HIDE DEF ContentInv
    <2> QED
      BY <1>5, <2>2, <2>3, <2>4, <2>5 DEF RawIsShared, Hand
  <1>8. \A e, q : Holds(e, q) => Holds(e, Pointerized(q))
    BY PointerTypes DEF Holds
  <1>9. ASSUME ~raced, pc[Committer] = "fill"
        PROVE  target = Hand.file /\ work[target] = Empty /\ Holds(expected[target], Hand.content)
    BY <1>9 DEF InHand
  <1>10. HoldsExpected'
    <2>1. ASSUME NEW f \in Files \ {target'} PROVE Holds(expected'[f], work'[f])
      <3>1. CASE f # target /\ work'[f] = work[f] /\ expected'[f] = expected[f]
        BY <3>1 DEF HoldsExpected
      <3>2. CASE expected'[f] = Unknown
        BY <3>2 DEF Holds
      <3>3. CASE /\ pc[Committer] = "fill" /\ f = target /\ ~raced /\ expected'[f] = expected[f]
                 /\ work[f] = Empty => work'[f] = Pointerized(Hand.content)
        BY <1>8, <1>9, <3>3
      <3> QED
        BY <2>1, <3>1, <3>2, <3>3, FileCommitted
    <2> QED
      BY <2>1, Zenon DEF HoldsExpected, Holds, Pointerized, Pointer
  <1>11. InHand'
    <2>1. ASSUME ~raced'
          PROVE  /\ pc'[Committer] \in {"store", "create", "fillBlob", "open"}
                      => work'[Hand'.file] = Hand'.content
                 /\ pc'[Committer] = "fill" => /\ target' = Hand'.file /\ work'[target'] = Empty
                                               /\ Holds(expected'[target'], Hand'.content)
      <3>1. ASSUME pc[Committer] = "open", pc'[Committer] = "fill", raced' = raced, target = Absent
            PROVE  Holds(expected[Hand.file], Hand.content)
        BY <1>3, <2>1, <3>1 DEF InHand, HoldsExpected
      <3> QED
        BY <3>1, HandAfter DEF Idle
    <2> HIDE DEF ContentInv
    <2> QED
      BY <2>1, Zenon DEF InHand, Hand, Holds, Pointerized, Pointer
  <1>12. ASSUME NEW c \in Large \ Shared PROVE c # Hand.content /\ c \notin {Unknown, Absent}
    BY BlobAssumption DEF RawIsShared, Contents
  \* A pointer comes back into a file that it was read from.
  <1>13. ASSUME NEW c \in Large \ Shared, NEW f \in Files, expected'[f] = c, work'[f] = Pointer(c),
                f # target'
         PROVE  \/ f # target /\ expected[f] = c /\ work[f] = Pointer(c)
                \/ f = target /\ ~raced /\ expected[f] = c /\ Hand.content = Pointer(c)
    <2>1. \A q : Pointerized(q) = Pointer(c) => q \in {c, Pointer(c)}
      BY PointerTypes
    <2>2. Empty # Pointer(c)
      BY BlobAssumption, PointerFacts
    <2>3. CASE f # target
      BY <1>12, <1>13, <2>2, <2>3, FileCommitted
    <2>4. CASE f = target
      <3>1. /\ pc[Committer] = "fill" /\ ~raced /\ expected[f] = c
            /\ work[f] = Empty => work'[f] = Pointerized(Hand.content)
        BY <1>12, <1>13, <2>4, <1>3, FileCommitted
      <3> QED
        BY <1>9, <1>12, <1>13, <2>1, <2>4, <3>1
    <2> QED
      BY <2>3, <2>4
  <1>14. ASSUME NEW c \in Large \ Shared, target' # Absent, ~raced', expected'[target'] = c,
                Hand'.content = Pointer(c)
         PROVE  /\ target' \in Files /\ target' # target
                /\ expected[target'] = c /\ work[target'] = Pointer(c)
    <2>1. /\ pc[Committer] = "open" /\ Hand' = Hand /\ target' = Hand.file /\ target = Absent
          /\ ~raced /\ expected' = expected
      BY <1>14, HandAfter
    <2> QED
      BY <1>3, <1>14, <2>1 DEF InHand
  <1>15. BlobIsThere'
    <2> SUFFICES ASSUME NEW c \in Large \ Shared, blobs'[c] = "none"
                 PROVE  /\ \A f \in Files \ {target'} : ~(expected'[f] = c /\ work'[f] = Pointer(c))
                        /\ \A u \in Callers : pc'[u] \in {"fillBlob", "open", "fill"}
                                                 => job'[u].content # c
                        /\ target' # Absent /\ ~raced'
                             => ~(expected'[target'] = c /\ Hand'.content = Pointer(c))
      BY <1>5, Zenon DEF BlobIsThere, Pointer, Hand
    <2>1. blobs[c] = "none"
      BY Zenon DEF CommitStep, Commit, ReadFile, OpenWriteBack, FillWriteBack, WriteBackFails, WriteCommit
    <2>2. /\ \A f \in Files \ {target} : ~(expected[f] = c /\ work[f] = Pointer(c))
          /\ \A u \in Callers : pc[u] \in {"fillBlob", "open", "fill"} => job[u].content # c
          /\ target # Absent /\ ~raced => ~(expected[target] = c /\ Hand.content = Pointer(c))
      BY <2>1 DEF BlobIsThere
    <2>3. \A f \in Files \ {target'} : ~(expected'[f] = c /\ work'[f] = Pointer(c))
      BY <1>3, <1>13, <2>2
    <2>4. target' # Absent /\ ~raced' => ~(expected'[target'] = c /\ Hand'.content = Pointer(c))
      BY <1>14, <2>2
    <2> QED
      BY <1>2, <2>2, <2>3, <2>4
  <1>16. Searched'
    <2> SUFFICES ASSUME NEW u \in Callers, pc'[u] = "scan", job'[u].previous \notin Shared,
                        NEW f \in Files \ job'[u].left, Owner[f] = u
                 PROVE  /\ f # target' => ~(/\ expected'[f] = job'[u].previous
                                            /\ work'[f] = Pointer(job'[u].previous))
                        /\ f = target' /\ ~raced' => ~(/\ expected'[f] = job'[u].previous
                                                       /\ Hand'.content = Pointer(job'[u].previous))
      BY <1>5, Zenon DEF Searched, SearchedFile, Pointer, Hand
    <2>1. /\ pc[u] = "scan" /\ job'[u].previous = job[u].previous
          /\ SearchedFile(job[u].previous, f)
      BY <1>2 DEF Searched
    <2>2. job[u].previous \in Large \ Shared
      BY <1>0, <2>1 DEF TypeOK, JobOK
    <2> QED
      BY <1>3, <1>13, <1>14, <2>1, <2>2 DEF SearchedFile
  <1> QED
    BY <1>6, <1>7, <1>10, <1>11, <1>15, <1>16

\* A blob that is not whole is being filled, or a fault left it that way.
LEMMA PartialIsKnownStep ==
  ASSUME ContentInv, NEW t \in Threads, Moves(t)
  PROVE  PartialIsKnown'
  <1> USE DEF ContentInv, TypeOK
  <1>0. job[t] \in Jobs /\ Callers \subseteq Threads /\ Committer \in Threads
    BY ThreadFacts
  <1> SUFFICES ASSUME NEW c \in Large, blobs'[c] = "partial"
               PROVE  c \in torn' \/ \E u \in Threads : c \in Unfinished(u)'
    BY DEF PartialIsKnown, Filling
  <1>1. ASSUME blobs[c] = "partial"
        PROVE  c \in torn \/ \E u \in Threads : /\ pc[u] = "fillBlob" /\ job[u].linked
                                                /\ job[u].content = c
    BY <1>1 DEF PartialIsKnown, Filling, Unfinished, At
  <1>2. ASSUME NEW u \in Threads, pc'[u] = "fillBlob", job'[u].linked, job'[u].content = c
        PROVE  c \in Unfinished(u)'
    BY <1>2 DEF Unfinished, At
  <1>3. CASE CreateBlob(t)
    <2>1. CASE c = job[t].content
      <3>1. pc'[t] = "fillBlob" /\ job'[t].linked /\ job'[t].content = c
        BY <1>0, <1>3, <2>1 DEF CreateBlob, Goto, Jobs
      <3> QED
        BY <1>2, <3>1
    <2>2. CASE c # job[t].content
      <3>1. blobs[c] = "partial" /\ torn' = torn /\ \A u \in Threads : u # t => job'[u] = job[u]
        BY <1>3, <2>2 DEF CreateBlob, history
      <3>2. \A u \in Threads : pc[u] = "fillBlob" => u # t /\ pc'[u] = pc[u]
        BY <1>3 DEF CreateBlob, At, Goto
      <3> QED
        BY <1>1, <1>2, <3>1, <3>2
    <2> QED
      BY <2>1, <2>2
  <1>4. CASE FillBlob(t)
    <2>1. blobs[c] = "partial" /\ torn' = torn /\ job' = job
      BY <1>4 DEF FillBlob, history
    <2>2. \A u \in Threads : u # t => pc'[u] = pc[u]
      BY <1>4 DEF FillBlob, Goto
    <2>3. job[t].linked => job[t].content # c
      BY <1>4 DEF FillBlob
    <2> QED
      BY <1>1, <1>2, <2>1, <2>2, <2>3
  <1>5. CASE DeleteBlob(t)
    <2>1. /\ blobs[c] = "partial" /\ c # job[t].previous /\ torn \ {job[t].previous} = torn'
          /\ pc[t] = "scan"
      BY <1>5 DEF DeleteBlob, At
    <2>2. ASSUME NEW u \in Threads, u # t, job[u].content = c
          PROVE  pc'[u] = pc[u] /\ job'[u] = job[u]
      BY <1>5, <2>1, <2>2 DEF DeleteBlob, Goto
    <2> QED
      BY <1>1, <1>2, <2>1, <2>2
  <1>6. CASE FillFails(t)
    <2>1. blobs[c] = "partial" /\ torn' = torn \cup Unfinished(t)
      BY <1>6 DEF FillFails
    <2>2. \A u \in Threads : u # t => pc'[u] = pc[u] /\ job'[u] = job[u]
      BY <1>6 DEF FillFails, Return, Goto
    <2> QED
      BY <1>1, <1>2, <2>1, <2>2 DEF Unfinished, At
  <1>7. ASSUME ~(CreateBlob(t) \/ FillBlob(t) \/ DeleteBlob(t) \/ FillFails(t)), PartialIsKnown
        PROVE  c \in torn' \/ \E u \in Threads : c \in Unfinished(u)'
    <2>1. /\ blobs' = blobs /\ torn' = torn /\ pc[t] # "fillBlob"
          /\ \A u \in Threads : u # t => pc'[u] = pc[u] /\ job'[u] = job[u]
      <3>1. CASE t \in Callers /\ Call(t)
        BY <3>1, Zenon DEF Call, WriteFile, DeleteFile, Rename, Begin, Goto, At, Idle, history
      <3>2. CASE t \in Callers /\ Step(t)
        BY <1>7, <3>2 DEF Step, OpenFile, FillFile, RemoveFile, Scan, LookAfter, Return, Goto, At
      <3>3. CASE FindBlob(t)
        BY <3>3 DEF FindBlob, Goto, At, history
      <3>4. CASE t = Committer /\ CommitStep
        BY <3>4, Zenon DEF CommitStep, Commit, ReadFile, OpenWriteBack, FillWriteBack, WriteBackFails,
           WriteCommit, Resume, Begin, Return, Goto, At, Idle, history
      <3> QED
        BY <1>7, <3>1, <3>2, <3>3, <3>4 DEF Moves, CallerMoves, StoreStep
    <2> QED
      BY <1>1, <1>2, <2>1
  <1> QED
    BY <1>3, <1>4, <1>5, <1>6, <1>7

LEMMA ContentInit == Init => ContentInv
  <1> SUFFICES ASSUME Init PROVE ContentInv
    OBVIOUS
  <1>1. TypeOK
    BY InitTyped
  <1>2. /\ work \in InitialFiles /\ expected = work /\ commits = <<>>
        /\ job = [t \in Threads |-> NoJob] /\ pc = [t \in Threads |-> Idle]
        /\ blobs = [c \in Large |-> "none"] /\ target = Absent
    BY DEF Init
  <1>3. ASSUME NEW f \in Files PROVE work[f] \in Writes[Owner[f]] \cup {Absent}
    BY <1>2, BlobAssumption
  <1>4. Hand = NoJob /\ NoJob.content = NoBlob /\ NoJob.previous = NoBlob
        /\ NoJob.file = Absent /\ NoJob.tree = NoTree
    BY <1>2, ThreadFacts DEF NoJob, Hand
  <1>5. OwnContents
    <2>1. \A f \in Files : Owned(f, work[f]) /\ Owned(f, Hand.tree[f])
      BY <1>3, <1>4, OwnedFacts DEF NoTree
    <2>2. \A t \in Callers : job[t] = NoJob
      BY <1>2, ThreadFacts, Zenon
    <2> QED
      BY <1>2, <1>4, <2>1, <2>2, BlobAssumption DEF OwnContents
  <1>6. RawIsShared
    <2>1. {Absent, NoBlob} \cap Large = {} /\ Large \subseteq Contents
      BY BlobAssumption DEF Contents
    <2>2. \A f \in Files : work[f] \in Large => work[f] \in Shared
      BY <1>2, <2>1 DEF Shared
    <2> QED
      BY <1>2, <1>4, <2>1, <2>2 DEF RawIsShared, NoTree
  <1>7. HoldsExpected /\ PartialIsKnown
    BY <1>2 DEF HoldsExpected, PartialIsKnown, Holds
  <1>8. BlobIsThere
    <2>1. \A f \in Files, c \in Large : work[f] # Pointer(c)
      BY <1>3, BlobAssumption, PointerFacts
    <2> QED
      BY <1>2, <2>1, ThreadFacts DEF BlobIsThere, Idle
  <1>9. Searched /\ InHand
    BY <1>2, ThreadFacts DEF Searched, InHand, Idle
  <1> QED
    BY <1>1, <1>5, <1>6, <1>7, <1>8, <1>9 DEF ContentInv

\* With every thread at rest there is nothing in hand.
LEMMA QuietKeepsContent ==
  ASSUME ContentInv, TypeOK', (\E id \in DOMAIN commits : Rollback(id)) \/ Crash
  PROVE  ContentInv'
  <1> USE DEF ContentInv
  <1>1. /\ blobs' = blobs /\ commits' = commits
        /\ \A t \in Threads : pc'[t] = Idle
        /\ \/ \A t \in Threads : job'[t] = NoJob
           \/ job' = job
        /\ \/ work' = work
           \/ \E id \in DOMAIN commits : work' = commits[id]
    BY DEF Rollback, Crash, Quiescent, At
  <1>2. Committer \in Threads /\ Callers \subseteq Threads /\ Absent \notin Files
    BY ThreadFacts, BlobAssumption
  <1>3. target' = Absent
    <2>1. CASE \E id \in DOMAIN commits : Rollback(id)
      BY <1>2, <2>1 DEF Rollback, Quiescent, At, TypeOK, Idle
    <2>2. CASE Crash
      BY <2>2 DEF Crash
    <2> QED
      BY <2>1, <2>2
  <1>4. \A f \in Files : \/ expected'[f] = Unknown
                         \/ /\ expected'[f] = expected[f] /\ work'[f] = work[f] /\ f # target
    BY DEF Rollback, Crash, TargetLost
  <1>5. /\ NoJob.content = NoBlob /\ NoJob.previous = NoBlob /\ NoJob.file = Absent
        /\ NoJob.tree = NoTree
    BY DEF NoJob
  <1>6. /\ Hand'.file \in {Hand.file, Absent} /\ Hand'.content \in {Hand.content, NoBlob}
        /\ Hand'.tree \in {Hand.tree, NoTree} /\ (Hand'.file \in Files => Hand' = Hand)
    BY <1>1, <1>2, <1>5 DEF Hand
  <1>7. OwnContents'
    <2>1. \A u \in Callers : {job'[u].content, job'[u].previous} \subseteq Writes[u] \cup {NoBlob}
      BY <1>1, <1>2, <1>5 DEF OwnContents
    <2>2. \A f \in Files : Owned(f, work'[f]) /\ Owned(f, Hand'.tree[f])
      BY <1>1, <1>6, OwnedFacts DEF OwnContents, NoTree
    <2>3. \A id \in DOMAIN commits', f \in Files : Owned(f, commits'[id][f])
      BY <1>1 DEF OwnContents
    <2>4. Hand'.file \in Files => Owned(Hand'.file, Hand'.content)
      BY <1>6 DEF OwnContents
    <2> HIDE DEF ContentInv
    <2> QED
      BY <1>3, <2>1, <2>2, <2>3, <2>4 DEF OwnContents, Owned, Pointer, Hand
  <1>8. Shared' = Shared
    BY DEF Shared
  <1>9. RawIsShared'
    <2>1. {NoBlob, Absent} \cap Large = {}
      BY BlobAssumption DEF Contents
    <2>2. \A f \in Files : {work'[f], Hand'.tree[f]} \cap Large \subseteq Shared
      BY <1>1, <1>6, <2>1 DEF RawIsShared, NoTree
    <2>3. {Hand'.content} \cap Large \subseteq Shared
      BY <1>6, <2>1 DEF RawIsShared
    <2>4. \A id \in DOMAIN commits', f \in Files : {commits'[id][f]} \cap Large \subseteq Shared
      BY <1>1 DEF RawIsShared
    <2> HIDE DEF ContentInv
    <2> QED
      BY <1>8, <2>2, <2>3, <2>4 DEF RawIsShared, Hand
  <1>10. HoldsExpected'
    <2>1. \A f \in Files : Holds(expected'[f], work'[f])
      BY <1>4 DEF HoldsExpected, Holds
    <2> QED
      BY <2>1, Zenon DEF HoldsExpected, Holds, Pointerized, Pointer
  <1>11. InHand' /\ Searched'
    BY <1>1, <1>2 DEF InHand, Searched, Idle
  <1>12. PartialIsKnown'
    <2>1. CASE \E id \in DOMAIN commits : Rollback(id)
      BY <2>1 DEF Rollback, PartialIsKnown, Filling, Unfinished, At
    <2>2. CASE Crash
      BY <2>2 DEF Crash, PartialIsKnown
    <2> QED
      BY <2>1, <2>2
  <1>13. BlobIsThere'
    <2>1. ASSUME NEW c \in Large \ Shared, blobs'[c] = "none"
          PROVE  \A f \in Files : ~(expected'[f] = c /\ work'[f] = Pointer(c))
      <3>1. c # Unknown
        BY BlobAssumption DEF Contents
      <3> QED
        BY <1>1, <1>4, <2>1, <3>1 DEF BlobIsThere
    <2>2. \A t \in Callers : pc'[t] \notin {"fillBlob", "open", "fill"}
      BY <1>1, <1>2 DEF Idle
    <2> HIDE DEF ContentInv
    <2> QED
      BY <1>3, <1>8, <2>1, <2>2, Zenon DEF BlobIsThere, Pointer
  <1> QED
    BY <1>7, <1>9, <1>10, <1>11, <1>12, <1>13

LEMMA ContentNext == ContentInv /\ [Next]_vars => ContentInv'
  <1> SUFFICES ASSUME ContentInv, [Next]_vars PROVE ContentInv'
    OBVIOUS
  <1>1. TypeOK'
    BY NextTyped DEF ContentInv
  <1>2. ASSUME NEW t \in Callers, Call(t) \/ Step(t) PROVE ContentInv'
    <2>1. CallerMoves(t) /\ Moves(t) /\ t \in Threads
      BY <1>2, ThreadFacts DEF CallerMoves, Moves
    <2> QED
      BY <1>1, <2>1, OwnContentsStep, RawIsSharedStep, HoldsStep, PartialIsKnownStep,
         BlobIsThereStep, SearchedStep DEF ContentInv
  <1>3. ASSUME NEW t \in Threads, StoreStep(t) PROVE ContentInv'
    BY <1>1, <1>3, StoreKeepsContent, PartialIsKnownStep DEF ContentInv, Moves
  <1>4. ASSUME CommitStep PROVE ContentInv'
    BY <1>1, <1>4, ThreadFacts, CommitKeepsContent, PartialIsKnownStep DEF ContentInv, Moves
  <1>5. ASSUME UNCHANGED vars PROVE ContentInv'
    <2>1. UNCHANGED <<work, blobs, commits, pc, job, target, expected, raced, torn>>
      BY <1>5 DEF vars
    <2>2. Hand' = Hand /\ Shared' = Shared /\ Filling' = Filling
      BY <2>1 DEF Hand, Shared, Filling, Unfinished, At
    <2>3. OwnContents' /\ RawIsShared'
      BY <2>1, <2>2, Zenon DEF ContentInv, OwnContents, Owned, RawIsShared, Pointer
    <2>4. HoldsExpected' /\ InHand'
      BY <2>1, <2>2, Zenon DEF ContentInv, HoldsExpected, InHand, Holds, Pointerized, Pointer
    <2>5. PartialIsKnown' /\ BlobIsThere'
      BY <2>1, <2>2, Zenon DEF ContentInv, PartialIsKnown, BlobIsThere, Pointer
    <2>6. Searched'
      BY <2>1, <2>2, Zenon DEF ContentInv, Searched, SearchedFile, Pointer
    <2> QED
      BY <1>1, <2>3, <2>4, <2>5, <2>6 DEF ContentInv
  <1>6. CASE Next
    BY <1>1, <1>2, <1>3, <1>4, <1>6, QuietKeepsContent, Zenon DEF Next
  <1> QED
    BY <1>5, <1>6

LEMMA ContentReadsBack == ContentInv => ReadsBack
  <1> SUFFICES ASSUME ContentInv, NEW f \in Files \ {target},
                      expected[f] \notin {Unknown} \cup Shared \cup torn \cup Filling
               PROVE  Read(f) = expected[f]
    BY DEF ReadsBack
  <1> USE DEF ContentInv, TypeOK
  <1>1. expected[f] \in Contents \cup {Absent} /\ work[f] \in Stored
    OBVIOUS
  <1>2. CASE work[f] = expected[f]
    <2>1. PointerOf(work[f]) = NoBlob /\ NoBlob \notin Large
      BY <1>1, <1>2, BlobAssumption DEF PointerOf, Contents
    <2> QED
      BY <1>2, <2>1 DEF Read
  <1>3. CASE work[f] # expected[f]
    <2>1. expected[f] \in Large /\ work[f] = Pointer(expected[f])
      BY <1>3 DEF HoldsExpected, Holds, Pointerized
    <2>2. blobs[expected[f]] = "whole"
      BY <2>1 DEF BlobIsThere, PartialIsKnown
    <2> QED
      BY <2>1, <2>2, PointerTypes DEF Read
  <1> QED
    BY <1>2, <1>3

\* A file reads back as what was last written to it, though other callers overwrite,
\* remove and clean up at the same time, a commit reads and writes back every file
\* (git.rs:1172-1179), and some of that fails.  What the write-back puts over a change
\* of its owner is excepted, and so are contents that two threads store
\* (git.rs:568-588, 639-644, 716-718).
THEOREM FilesReadBack == Spec => []ReadsBack
  BY ContentInit, ContentNext, ContentReadsBack, PTL DEF Spec
=============================================================================
