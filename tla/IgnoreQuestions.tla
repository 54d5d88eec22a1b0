-------------------------- MODULE IgnoreQuestions --------------------------
(***************************************************************************)
(* The ignore rules compared with what they should amount to, for all      *)
(* short patterns, .gitignore files and paths.  Every question, a pattern  *)
(* or the lines of a file and a path, is an initial state.                 *)
(***************************************************************************)
EXTENDS IgnoreRules

CONSTANTS
    Letters,        \* what names are made of
    MaxPattern,     \* bound the patterns
    MaxPath,        \* and the paths compared
    MaxLines        \* bounds the lines of a .gitignore

ASSUME QuestionAssumption ==
    /\ Letters \cap {"*", "?", "[", Slash} = {}
    /\ MaxPattern \in Nat /\ MaxPath \in Nat /\ MaxLines \in Nat

VARIABLE question

Texts(chars, max) == UNION {[1..n -> chars] : n \in 1..max}
Patterns == Texts(Letters \cup {"*", "?", Slash}, MaxPattern)
FilePaths(max) ==
    {t \in Texts(Letters \cup {Slash}, max) :
        \A i \in DOMAIN t : t[i] = Slash => 1 < i /\ i < Len(t) /\ t[i + 1] # Slash}

Lines == [pattern : {<<l>> : l \in Letters} \cup {<<l, Slash>> : l \in Letters} \cup {<<"*">>},
          negated : BOOLEAN]

NoQuestion == <<>>
Asks(what) == what \in DOMAIN question

Ask ==
    \/ question \in [pattern : Patterns, path : FilePaths(MaxPath)]
    \/ question \in [lines : UNION {[1..n -> Lines] : n \in 0..MaxLines},
                     path : FilePaths(MaxPattern)]
-----------------------------------------------------------------------------
(* What the definitions should amount to                                   *)

Fits(c, piece) ==
    CASE c = "*" -> Slash \notin Range(piece)
      [] c = "?" -> Len(piece) = 1 /\ piece # <<Slash>>
      [] OTHER -> piece = <<c>>

\* The text can be cut into one piece for each letter of the pattern.
CutsInto(pat, text) ==
    \E cut \in [1..(Len(pat) - 1) -> 0..Len(text)] :
        LET End(k) == IF k = 0 THEN 0 ELSE IF k = Len(pat) THEN Len(text) ELSE cut[k]
        IN  \A k \in 1..Len(pat) :
                /\ End(k - 1) <= End(k)
                /\ Fits(pat[k], SubSeq(text, End(k - 1) + 1, End(k)))

\* "Supports `*` (any non-/ chars) and `?` (any single non-/ char)"
\* (git.rs:2204): the matcher's backtracking misses no way to cut the text and
\* invents none.
GlobAgrees ==
    Asks("pattern") =>
        (Glob(question.pattern, question.path) <=> CutsInto(question.pattern, question.path))

\* Names between slashes.
Components(path) ==
    {part \in {SubSeq(path, i, j) : i \in {k \in DOMAIN path : k = 1 \/ path[k - 1] = Slash},
                                   j \in {k \in DOMAIN path : k = Len(path) \/ path[k + 1] = Slash}} :
        part # <<>> /\ Slash \notin Range(part)}

\* "Matches if any path component equals the pattern." (git.rs:1911), wherever it
\* is in the path: none of the five tests is told where to look.  The code matches
\* more than the comment says: a on c/ab/xa.
PlainPatternsNameComponents ==
    Asks("pattern") /\ Range(question.pattern) \subseteq Letters =>
        (question.pattern \in Components(question.path)
            => ConfigMatch(question.pattern, question.path))

\* The last line that matches a path decides, whether the lines before it ignored
\* the path, took it back or did both (git.rs:1857-1885).
LastLineDecides ==
    Asks("lines") =>
        LET hits == {i \in DOMAIN question.lines : LineMatches(question.lines[i], question.path)}
        IN  IgnoredByLines(question.lines, question.path)
                <=> hits # {} /\ ~question.lines[Max(hits)].negated
=============================================================================
