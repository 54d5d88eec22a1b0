---------------------------- MODULE MCFuseHandler ----------------------------
EXTENDS FuseHandler, IgnoreQuestions, TLC

\* d can be a directory with a file a inside, or a file; e is ignored.
MCPaths == {<<"d">>, <<"d", "a">>, <<"e">>}

\* A .gitignore that ignores every name of one letter, but not d and what is in it.
MCLines == <<[pattern |-> <<"?">>, negated |-> FALSE],
             [pattern |-> <<"d", Slash>>, negated |-> TRUE]>>
\* (A definition of its own: TLC evaluates it once.)
RulesIgnore == {p \in MCPaths : IsIgnored({}, MCLines, Text(p))}
MCIgnored == RulesIgnore

\* The handler serves requests where no question about the rules is asked.
MCInit == Init /\ (question = NoQuestion \/ Ask)
MCNext == UNCHANGED question /\ IF question = NoQuestion THEN Next ELSE UNCHANGED vars
MCSpec == MCInit /\ [][MCNext]_<<vars, question>>

\* Which file gets which number makes no difference.
FileNames == Permutations(Files)
=============================================================================
