---------------------------- MODULE MCBackendTree ----------------------------
EXTENDS TreeDescent, IgnoreRules, TLC

\* Two names, d with the name a inside: d and e can each be a file or a
\* directory.
MCPaths == {<<"d">>, <<"e">>, <<"d", "a">>, <<"e", "a">>, <<"d", "a", "b">>}

\* A .gitignore that ignores every file of the name a but d/a.
MCLines == <<[pattern |-> <<"a">>, negated |-> FALSE],
             [pattern |-> <<"d", Slash, "a">>, negated |-> TRUE]>>
\* (A definition of its own: TLC evaluates it once.)
RulesIgnore == {p \in MCPaths : IsIgnored({}, MCLines, Text(p))}
MCIgnored == RulesIgnore

\* Which file gets which number makes no difference.
FileNames == Permutations(Files)
=============================================================================
