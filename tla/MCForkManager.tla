---------------------------- MODULE MCForkManager ----------------------------
EXTENDS ForkManager, TLC

CONSTANTS c1, c2, process

\* One content in every file of the first commit.
AllAlike == {[f \in Files |-> CHOOSE content \in Contents : TRUE]}

OneManager == [c \in Callers |-> process]

\* Which name a fork has makes no difference.
ForkNames == Permutations(Names)
=============================================================================
