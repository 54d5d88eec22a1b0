--------------------------- MODULE CommitHistory ---------------------------
(***************************************************************************)
(* What git promises about the history under one branch, whoever writes    *)
(* it: commit objects are only added, each has at most one parent and the   *)
(* parent is an object written before it, and the branch names an object    *)
(* that exists (or none).  CommitProtocol implements it with any number of  *)
(* threads, processes, failures and crashes.                                *)
(***************************************************************************)
EXTENDS Naturals, Sequences

CONSTANT Trees      \* what a tree object can hold

VARIABLES objects,  \* the commit objects, in the order they were written
          ref       \* the object the branch names, 0 when it names none

vars == <<objects, ref>>

NoCommit == 0

Oids == 1..Len(objects)

Init == objects = <<>> /\ ref = NoCommit

\* An object is written; its parent, if any, is already there.
WriteObject ==
    /\ \E parent \in Oids \cup {NoCommit}, tree \in Trees :
           objects' = Append(objects, [parent |-> parent, tree |-> tree])
    /\ UNCHANGED ref

\* The branch is moved to an object that exists, or loses its content.
MoveRef ==
    /\ ref' \in Oids \cup {NoCommit}
    /\ UNCHANGED objects

Next == WriteObject \/ MoveRef

Spec == Init /\ [][Next]_vars
=============================================================================
