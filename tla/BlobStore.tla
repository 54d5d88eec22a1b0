------------------------------ MODULE BlobStore ------------------------------
(***************************************************************************)
(* Large files (src/src/blobstore.rs, git.rs 465-542, 609-720): a file over  *)
(* the threshold lives in a content-addressed store outside the repository,  *)
(* and the working tree and the commits have a pointer to it.  A write or a  *)
(* delete that takes a pointer away looks for another one in the working    *)
(* tree and deletes the blob when there is none.                           *)
(*                                                                         *)
(* The callers are threads of one process, each on files of its own; what    *)
(* they share is the store and, when two of them write the same bytes, a     *)
(* blob.  At any time one more thread may be committing: the tree builder     *)
(* reads every file, stores what is large, and writes the file back           *)
(* (git.rs:1172-1179), and meanwhile its owner may write, move or remove it.   *)
(* Moving the ref is left to CommitProtocol; a rollback is one step and is    *)
(* run with nobody in a call.                                               *)
(***************************************************************************)
EXTENDS Naturals, Sequences

CONSTANTS
    Callers,
    Committer,      \* the thread that has the repo mutex and builds a tree
    Files,
    Owner,          \* the caller that uses each file
    Large, Small,   \* contents over and under large_file_threshold
    Writes,         \* the contents each caller writes
    InitialFiles,   \* working trees that were there before
    Absent,         \* no file
    Empty,          \* a file truncated and not yet written
    Torn,           \* a small file two writers wrote over each other
    Unknown,        \* nothing is promised about the file
    NoBlob,
    MaxCalls,       \* bound: calls, commits and faults in a behaviour
    MaxCommits,     \* bound: commits
    MaxFaults       \* bound: I/O errors and crashes

Contents == Large \cup Small
Pointer(c) == [blob |-> c]
Pointers == [blob : Large]
Stored == {Absent, Empty, Torn} \cup Contents \cup Pointers
Threads == Callers \cup {Committer}

ASSUME BlobAssumption ==
    /\ Large \cap Small = {}
    /\ Committer \notin Callers /\ Absent \notin Files
    /\ Absent \notin {Empty, Torn, Unknown, NoBlob} /\ Empty \notin {Torn, Unknown, NoBlob}
    /\ {Unknown, NoBlob} \cap {Torn} = {} /\ Unknown # NoBlob
    /\ {Absent, Empty, Torn, Unknown, NoBlob} \cap (Contents \cup Pointers) = {}
    /\ Contents \cap Pointers = {}
    /\ Owner \in [Files -> Callers]
    /\ Writes \in [Callers -> SUBSET Contents]
    /\ InitialFiles \subseteq [Files -> Contents \cup {Absent}]
    /\ \A tree \in InitialFiles, f \in Files : tree[f] \in Writes[Owner[f]] \cup {Absent}
    /\ MaxCalls \in Nat /\ MaxCommits \in Nat /\ MaxFaults \in Nat

VARIABLES
    work,           \* the working tree
    blobs,          \* the store: each blob is "none", "partial" or "whole"
    commits,        \* the trees committed so far
    pc, job,        \* where each thread is, and in what
    target,         \* the name, if any, of the file the committer has open by now
    calls, faults,  \* how much of the bounds is used
    expected,       \* history: what each file should read back as
    raced,          \* history: the file the committer has in hand was changed since
                    \* it was read, or searched while it was truncated
    torn,           \* history: contents whose blob a fault left partial
    leaked          \* history: contents the code gave up cleaning away

bounds == <<calls, faults>>
history == <<expected, raced, torn, leaked>>
vars == <<work, blobs, commits, pc, job, target, calls, faults, expected, raced, torn, leaked>>

NoTree == [f \in Files |-> Absent]

\* previous: the blob the file pointed to when the call began; linked: the blob
\* being filled has not been unlinked; left: files still to be searched, or to be
\* committed; tree: the build so far.
NoJob == [file |-> Absent, content |-> NoBlob, previous |-> NoBlob,
          linked |-> FALSE, left |-> {}, tree |-> NoTree]

Idle == "idle"

\* parse_pointer
PointerOf(stored) == IF stored \in Pointers THEN stored.blob ELSE NoBlob

\* What maybe_pointerize_content makes of the bytes to be stored.
Pointerized(stored) == IF stored \in Large THEN Pointer(stored) ELSE stored

Init ==
    /\ work \in InitialFiles
    /\ blobs = [c \in Large |-> "none"]
    /\ commits = <<>>
    /\ pc = [t \in Threads |-> Idle] /\ job = [t \in Threads |-> NoJob]
    /\ target = Absent
    /\ calls = 0 /\ faults = 0
    /\ expected = work /\ raced = FALSE /\ torn = {} /\ leaked = {}
-----------------------------------------------------------------------------
At(t, l) == pc[t] = l
Goto(t, l) == pc' = [pc EXCEPT ![t] = l]
Return(t) == Goto(t, Idle) /\ job' = [job EXCEPT ![t] = NoJob]
Count == calls < MaxCalls /\ calls' = calls + 1
Begin(t, l, j) ==
    /\ At(t, Idle) /\ Count
    /\ Goto(t, l) /\ job' = [job EXCEPT ![t] = j]
\* Counted with the calls too, which keeps the two bounds from multiplying.
Fault == faults < MaxFaults /\ faults' = faults + 1 /\ Count
Quiescent == \A t \in Threads : At(t, Idle)

\* What is written to a file somebody else has written to since it was opened
\* overwrites as much as there is of it; of a pointer the reader sees no more than
\* the first lines.
Fill(f, text) ==
    \E left \in {text, Torn} :
        /\ left = Torn => work[f] \notin {Empty, text} /\ text \notin Pointers
        /\ work' = [work EXCEPT ![f] = IF text = Empty THEN @ ELSE left]

\* The owner of f changes it.
Touch(f) == raced' = (raced \/ f \in {job[Committer].file, target})

\* The blobs that old points to and new does not.
Dropped(old, new) ==
    {c \in Large : /\ \E f \in Files : old[f] = Pointer(c)
                   /\ \A f \in Files : new[f] # Pointer(c)}

\* After the file is changed: is there a blob to look after?
LookAfter(t, l, now) ==
    LET c == job[t].previous
    IN  IF c \in Large /\ PointerOf(now) # c
          THEN Goto(t, "scan") /\ job' = [job EXCEPT ![t].left = l]
          ELSE Return(t)
-----------------------------------------------------------------------------
(* write_file                                                               *)

WriteFile(t, f, c) ==
    /\ Owner[f] = t /\ c \in Writes[t]
    /\ Begin(t, IF c \in Large THEN "store" ELSE "open",
             [NoJob EXCEPT !.file = f, !.content = c, !.previous = PointerOf(work[f])])
    /\ UNCHANGED <<work, blobs, commits, target, faults, history>>

\* store_bytes: a blob that is there is taken for complete.
FindBlob(t) ==
    /\ At(t, "store")
    /\ Goto(t, IF blobs[job[t].content] = "none" THEN "create" ELSE "open")
    /\ UNCHANGED <<work, blobs, commits, job, target, bounds, history>>

CreateBlob(t) ==
    /\ At(t, "create")
    /\ blobs' = [blobs EXCEPT ![job[t].content] = "partial"]
    /\ job' = [job EXCEPT ![t].linked = TRUE]
    /\ Goto(t, "fillBlob")
    /\ UNCHANGED <<work, commits, target, bounds, history>>

FillBlob(t) ==
    /\ At(t, "fillBlob")
    /\ blobs' = IF job[t].linked THEN [blobs EXCEPT ![job[t].content] = "whole"] ELSE blobs
    /\ Goto(t, "open")
    /\ UNCHANGED <<work, commits, job, target, bounds, history>>

OpenFile(t) ==
    LET f == job[t].file
    IN  /\ At(t, "open")
        /\ work' = [work EXCEPT ![f] = Empty]
        /\ expected' = [expected EXCEPT ![f] = Unknown]
        /\ Touch(f)
        /\ Goto(t, "fill")
        /\ UNCHANGED <<blobs, commits, job, target, bounds, torn, leaked>>

\* Nothing is promised of the file if a commit has written to it in between.
MutantFillFile(t) ==            \* only a new pointer makes it look for the old one
    LET f == job[t].file
        c == job[t].content
    IN  /\ At(t, "fill")
        /\ Fill(f, Pointerized(c))
        /\ expected' = [expected EXCEPT ![f] = IF work[f] = Empty THEN c ELSE Unknown]
        /\ Touch(f)
        /\ IF c \in Large THEN LookAfter(t, Files, Pointerized(c)) ELSE Return(t)
        /\ UNCHANGED <<blobs, commits, target, bounds, torn, leaked>>
FillFile(t) ==
    LET f == job[t].file
        c == job[t].content
    IN  /\ At(t, "fill")
        /\ Fill(f, Pointerized(c))
        /\ expected' = [expected EXCEPT ![f] = IF work[f] = Empty THEN c ELSE Unknown]
        /\ Touch(f)
        /\ LookAfter(t, Files, Pointerized(c))
        /\ UNCHANGED <<blobs, commits, target, bounds, torn, leaked>>
-----------------------------------------------------------------------------
(* delete_file and rename: a file that is open keeps its contents, not its name *)

DeleteFile(t, f) ==
    /\ Owner[f] = t /\ work[f] # Absent
    /\ Begin(t, "remove", [NoJob EXCEPT !.file = f, !.previous = PointerOf(work[f])])
    /\ UNCHANGED <<work, blobs, commits, target, faults, history>>

MutantRemoveFile(t) ==          \* a file that was no pointer is looked after too
    LET f == job[t].file
    IN  /\ At(t, "remove")
        /\ work' = [work EXCEPT ![f] = Absent]
        /\ target' = IF target = f THEN Absent ELSE target
        /\ expected' = [expected EXCEPT ![f] = Absent]
        /\ Touch(f)
        /\ Goto(t, "scan") /\ job' = [job EXCEPT ![t].left = Files \ {f}]
        /\ UNCHANGED <<blobs, commits, bounds, torn, leaked>>
RemoveFile(t) ==
    LET f == job[t].file
    IN  /\ At(t, "remove")
        /\ work' = [work EXCEPT ![f] = Absent]
        /\ target' = IF target = f THEN Absent ELSE target
        /\ expected' = [expected EXCEPT ![f] = Absent]
        /\ Touch(f)
        /\ LookAfter(t, Files \ {f}, Absent)
        /\ UNCHANGED <<blobs, commits, bounds, torn, leaked>>

\* Nothing looks after a pointer that the target of the move held.
Rename(t, f, g) ==
    /\ Owner[f] = t /\ Owner[g] = t /\ f # g
    /\ work[f] # Absent
    /\ At(t, Idle) /\ Count
    /\ work' = [work EXCEPT ![f] = Absent, ![g] = work[f]]
    /\ target' = CASE target = g -> Absent [] target = f -> g [] OTHER -> target
    /\ expected' = [expected EXCEPT ![f] = Absent, ![g] = expected[f]]
    /\ raced' = (raced \/ {f, g} \cap {job[Committer].file, target} # {})
    /\ leaked' = leaked \cup Dropped(work, work')
    /\ UNCHANGED <<blobs, commits, pc, job, faults, torn>>
-----------------------------------------------------------------------------
(* cleanup_blob_if_orphaned: the files are read one after the other          *)

MutantScan(t, f) ==             \* the search goes on past a file that points to the blob
    /\ At(t, "scan") /\ f \in job[t].left
    /\ job' = [job EXCEPT ![t].left = @ \ {f}]
    /\ raced' = (raced \/ f = target)
    /\ UNCHANGED <<work, blobs, commits, pc, target, bounds, expected, torn, leaked>>
Scan(t, f) ==
    /\ At(t, "scan") /\ f \in job[t].left
    /\ IF PointerOf(work[f]) = job[t].previous THEN Return(t)
       ELSE job' = [job EXCEPT ![t].left = @ \ {f}] /\ UNCHANGED pc
    /\ raced' = (raced \/ f = target)
    /\ UNCHANGED <<work, blobs, commits, target, bounds, expected, torn, leaked>>

\* A thread that is filling the blob goes on with a file that has no name.
DeleteBlob(t) ==
    LET c == job[t].previous
    IN  /\ At(t, "scan") /\ job[t].left = {}
        /\ blobs' = [blobs EXCEPT ![c] = "none"]
        /\ torn' = torn \ {c}
        /\ leaked' = IF \E f \in Files : work[f] = Pointer(c) THEN leaked ELSE leaked \ {c}
        /\ Goto(t, Idle)
        /\ job' = [u \in Threads |-> IF u = t THEN NoJob
                                     ELSE IF job[u].content = c
                                            THEN [job[u] EXCEPT !.linked = FALSE]
                                            ELSE job[u]]
        /\ UNCHANGED <<work, commits, target, bounds, expected, raced>>
-----------------------------------------------------------------------------
(* commit: build_tree_from_workdir meets the files in any order.  A large one  *)
(* that is no pointer yet is stored, and becomes one in the commit and in the  *)
(* working tree.                                                           *)

Hand == job[Committer]

Commit ==
    /\ Len(commits) < MaxCommits
    /\ Begin(Committer, "build", [NoJob EXCEPT !.left = Files])
    /\ UNCHANGED <<work, blobs, commits, target, faults, history>>

ReadFile(f) ==
    /\ At(Committer, "build") /\ f \in Hand.left
    /\ IF work[f] = Absent
         THEN job' = [job EXCEPT ![Committer].left = @ \ {f}] /\ UNCHANGED pc
         ELSE /\ job' = [job EXCEPT ![Committer] =
                            [Hand EXCEPT !.left = @ \ {f}, !.file = f, !.content = work[f]]]
              /\ Goto(Committer, IF work[f] \in Large THEN "store" ELSE "open")
    /\ UNCHANGED <<work, blobs, commits, target, bounds, history>>

\* The next file, with this entry for the last one.
Resume(entry) ==
    /\ Goto(Committer, "build")
    /\ job' = [job EXCEPT ![Committer] =
                  [NoJob EXCEPT !.left = Hand.left, !.tree = [Hand.tree EXCEPT ![Hand.file] = entry]]]
    /\ target' = Absent /\ raced' = FALSE

\* The pointer that is overwritten is lost unless it is the one to be written.
OpenWriteBack ==
    LET f == Hand.file
    IN  /\ At(Committer, "open")
        /\ work' = [work EXCEPT ![f] = Empty]
        /\ target' = f
        /\ leaked' = leaked \cup (Dropped(work, work') \ {PointerOf(Pointerized(Hand.content))})
        /\ Goto(Committer, "fill")
        /\ UNCHANGED <<blobs, commits, job, bounds, expected, raced, torn>>

\* A call that looked at f before it was given this text does not know of its pointer.
Unaware(f) == \E t \in Callers : /\ pc[t] \notin {Idle, "scan"} /\ job[t].file = f
                                 /\ job[t].previous # PointerOf(Pointerized(Hand.content))

\* A file that is gone by now gets no entry.
FillWriteBack ==
    LET text == Pointerized(Hand.content)
    IN  /\ At(Committer, "fill")
        /\ IF target = Absent THEN UNCHANGED work ELSE Fill(target, text)
        /\ expected' = IF raced THEN [f \in Files |-> IF f = target THEN Unknown ELSE expected[f]]
                       ELSE expected
        /\ leaked' = leaked \cup Dropped(work, work')
                         \cup (IF target = Absent \/ Unaware(target)
                                 THEN {PointerOf(text)} \cap Large ELSE {})
        /\ Resume(IF work[Hand.file] = Absent THEN Absent ELSE text)
        /\ UNCHANGED <<blobs, commits, bounds, torn>>

WriteCommit ==
    /\ At(Committer, "build") /\ Hand.left = {}
    /\ commits' = Append(commits, Hand.tree)
    /\ Return(Committer)
    /\ UNCHANGED <<work, blobs, target, bounds, history>>

\* git reset --hard and git clean: the tree of the commit and nothing else.
Rollback(id) ==
    /\ Quiescent
    /\ work # commits[id] /\ work' = commits[id]
    /\ expected' = [f \in Files |-> Unknown]
    /\ leaked' = leaked \cup Dropped(work, work')
    /\ UNCHANGED <<blobs, commits, pc, job, target, bounds, raced, torn>>
-----------------------------------------------------------------------------
(* Faults: std::fs::write cannot open its file, or fails after truncating it;  *)
(* or the process dies.  When a write-back fails the builder leaves the file   *)
(* out and goes on; when the store fails, the commit does.                   *)

Unfinished(t) == IF job[t].linked /\ At(t, "fillBlob") THEN {job[t].content} ELSE {}
Filling == UNION {Unfinished(t) : t \in Threads}
\* The blobs that this thread would have pointed to or looked after.
GivenUp(t) ==
    {c \in Large : \/ pc[t] \in {"fillBlob", "open", "fill"} /\ c = job[t].content
                   \/ pc[t] = "fill" /\ c = PointerOf(job[t].content)
                   \/ pc[t] \in {"fill", "scan"} /\ c = job[t].previous}
TargetLost == expected' = [f \in Files |-> IF f = target THEN Unknown ELSE expected[f]]

FillFails(t) ==
    /\ pc[t] \in {"create", "fillBlob"} \cup IF t = Committer THEN {} ELSE {"open", "fill"}
    /\ Fault
    /\ torn' = torn \cup Unfinished(t)
    /\ leaked' = leaked \cup GivenUp(t)
    /\ raced' = (raced /\ t # Committer)
    /\ Return(t)
    /\ UNCHANGED <<work, blobs, commits, target, expected>>

WriteBackFails ==
    /\ pc[Committer] \in {"open", "fill"} /\ Fault
    /\ leaked' = leaked \cup GivenUp(Committer)
    /\ TargetLost
    /\ Resume(Absent)
    /\ UNCHANGED <<work, blobs, commits, torn>>

Crash ==
    /\ ~Quiescent /\ Fault
    /\ torn' = torn \cup Filling
    /\ leaked' = leaked \cup UNION {GivenUp(t) : t \in Threads}
    /\ TargetLost /\ target' = Absent /\ raced' = FALSE
    /\ pc' = [t \in Threads |-> Idle] /\ job' = [t \in Threads |-> NoJob]
    /\ UNCHANGED <<work, blobs, commits>>

Call(t) ==
    \E f \in Files : \/ \E c \in Contents : WriteFile(t, f, c)
                     \/ DeleteFile(t, f)
                     \/ \E g \in Files : Rename(t, f, g)

Step(t) ==
    \/ OpenFile(t) \/ FillFile(t) \/ RemoveFile(t)
    \/ (\E f \in Files : Scan(t, f)) \/ DeleteBlob(t)

StoreStep(t) == FindBlob(t) \/ CreateBlob(t) \/ FillBlob(t) \/ FillFails(t)

CommitStep ==
    \/ Commit \/ (\E f \in Files : ReadFile(f)) \/ OpenWriteBack \/ FillWriteBack
    \/ WriteBackFails \/ WriteCommit

Next ==
    \/ \E t \in Callers : Call(t) \/ Step(t)
    \/ \E t \in Threads : StoreStep(t)
    \/ CommitStep
    \/ \E id \in DOMAIN commits : Rollback(id)
    \/ Crash

Spec == Init /\ [][Next]_vars
-----------------------------------------------------------------------------
(* Properties                                                               *)

Jobs == [file : Files \cup {Absent}, content : (Stored \ {Absent}) \cup {NoBlob},
         previous : Large \cup {NoBlob}, linked : BOOLEAN, left : SUBSET Files,
         tree : [Files -> Stored]]

Locations == {Idle, "store", "create", "fillBlob", "open", "fill", "remove", "scan", "build"}

\* What thread t knows at l in job j.
JobOK(t, l, j) ==
    /\ l \notin {Idle, "build"} => j.file \in Files /\ (t # Committer => Owner[j.file] = t)
    /\ l \in {"store", "create", "fillBlob"} => j.content \in Large
    /\ l \in {"open", "fill"} => j.content \in IF t = Committer THEN Stored \ {Absent} ELSE Contents
    /\ l = "scan" => j.previous \in Large
    /\ IF t = Committer THEN l \notin {"remove", "scan"} /\ j.previous = NoBlob ELSE l # "build"
    /\ l \in {Idle, "build"} => j.file = Absent /\ j.content = NoBlob

TypeOK ==
    /\ work \in [Files -> Stored]
    /\ blobs \in [Large -> {"none", "partial", "whole"}]
    /\ commits \in Seq([Files -> Stored])
    /\ pc \in [Threads -> Locations]
    /\ job \in [Threads -> Jobs]
    /\ \A t \in Threads : JobOK(t, pc[t], job[t])
    /\ target \in Files \cup {Absent} /\ (target # Absent => At(Committer, "fill"))
    /\ raced \in BOOLEAN /\ (At(Committer, Idle) \/ At(Committer, "build") => ~raced)
    /\ calls \in 0..MaxCalls /\ faults \in 0..MaxFaults
    /\ expected \in [Files -> Contents \cup {Absent, Unknown}]
    /\ torn \subseteq Large /\ leaked \subseteq Large

\* Contents that two threads store: two callers write it, or a commit makes a
\* pointer of a file that was there before.
Shared == {c \in Contents : \/ \E t, u \in Callers : t # u /\ c \in Writes[t] \cap Writes[u]
                            \/ \E tree \in InitialFiles, f \in Files : tree[f] = c}

\* read_file
Read(f) == LET c == PointerOf(work[f])
           IN  IF c \in Large THEN (IF blobs[c] = "whole" THEN c ELSE Unknown) ELSE work[f]

\* A file reads back as what was written to it, whatever happened to other files
\* that had the same bytes: overwritten, removed, moved over, committed, rolled
\* back, or cleaned up after (git.rs:568-588, 639-644, 716-718).  Excepted are
\* contents of several threads, whose cleanups can overtake each other's writes;
\* blobs that are being filled or that a fault left incomplete; and what the
\* write-back of a commit does (git.rs:1172-1179): the file it has truncated, and
\* until it is written again a file it has put back although the owner had changed
\* it in the meantime, or a clean-up had searched it and seen no pointer.
ReadsBack ==
    \A f \in Files \ {target} :
        expected[f] \notin {Unknown} \cup Shared \cup torn \cup Filling
            => Read(f) = expected[f]

\* When nobody is in a call every blob is pointed to from the working tree, but
\* for what is on record as given up - also when several callers let go of one
\* blob at the same time, each finding the other's pointer or not
\* (git.rs:487-542; tests/test_file_operations.rs:266
\* "deleting_last_pointer_cleans_up_orphaned_blob").
OrphansDeleted ==
    Quiescent => \A c \in Large : \/ blobs[c] = "none"
                                  \/ \E f \in Files : work[f] = Pointer(c)
                                  \/ c \in leaked

\* A rollback to any checkpoint finds what it needs.  CHANGELOG.md:80-81 "save
\* named snapshots and restore to any previous state".
CheckpointsRestorable ==
    Quiescent /\ faults = 0 =>
        \A id \in DOMAIN commits, f \in Files :
            PointerOf(commits[id][f]) \in Large => blobs[PointerOf(commits[id][f])] = "whole"
=============================================================================
