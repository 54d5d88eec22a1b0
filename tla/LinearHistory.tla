--------------------------- MODULE LinearHistory ---------------------------
(***************************************************************************)
(* What a user of gitoxide-fs is promised about history (README.md:27       *)
(* "Every change is captured"): commits form one line, each new commit has  *)
(* the current head as its parent and becomes the head.  CommitProtocol     *)
(* implements it when one thread at a time uses the repository.             *)
(***************************************************************************)
EXTENDS Naturals, Sequences

CONSTANT Trees

VARIABLES objects, head

vars == <<objects, head>>

Init == objects = <<>> /\ head = 0

\* One commit, appended to the line in a single step.
Commit ==
    /\ \E tree \in Trees :
           objects' = Append(objects, [parent |-> head, tree |-> tree])
    /\ head' = Len(objects')

Next == Commit

Spec == Init /\ [][Next]_vars
=============================================================================
