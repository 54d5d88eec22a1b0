---------------------------- MODULE IgnoreRules ----------------------------
(***************************************************************************)
(* Which paths are ignored (src/src/git.rs): the glob matcher, the         *)
(* patterns of the configuration and the lines of .gitignore.              *)
(*                                                                         *)
(* Here the characters are what it is all about: patterns and paths are    *)
(* sequences of one-letter strings.                                        *)
(***************************************************************************)
EXTENDS Naturals, Sequences, SequencesExt, FiniteSetsExt, Functions

Slash == "/"
MutantNames(text, i, j) == TRUE             \* a star goes on over a slash
\* No slash from the i-th letter up to the j-th.
Names(text, i, j) == \A k \in i..(j - 1) : text[k] # Slash

\* do_glob: where the text can begin so that it matches the pattern from i on
Glob(pat, text) ==
    LET matches[i \in 1..(Len(pat) + 1)] ==
          IF i > Len(pat) THEN {Len(text) + 1}
          ELSE LET rest == matches[i + 1] IN
               {j \in 1..(Len(text) + 1) :
                  IF pat[i] = "*"
                    THEN \E k \in j..(Len(text) + 1) : Names(text, j, k) /\ k \in rest
                    ELSE /\ j <= Len(text)
                         /\ IF pat[i] = "?" THEN text[j] # Slash ELSE text[j] = pat[i]
                         /\ j + 1 \in rest}
    IN  1 \in matches[1]
-----------------------------------------------------------------------------
\* The last component of a path.
FileName(path) ==
    LET slashes == {i \in DOMAIN path : path[i] = Slash}
    IN  SubSeq(path, Max(slashes \cup {0}) + 1, Len(path))

\* is_ignored_by_config, for one pattern
IsGlob(pat) == \E i \in DOMAIN pat : pat[i] \in {"*", "?", "["}

Occurs(part, text) == \E i \in 1..Len(text) : IsPrefix(part, SubSeq(text, i, Len(text)))

MutantPlainMatch(pat, path) ==          \* a directory is looked for at the root only
    FileName(path) = pat \/ path = pat \/ IsPrefix(pat \o <<Slash>>, path)
PlainMatch(pat, path) ==
    \/ FileName(path) = pat
    \/ path = pat
    \/ IsPrefix(pat \o <<Slash>>, path)
    \/ Occurs(<<Slash>> \o pat \o <<Slash>>, path)
    \/ Occurs(<<Slash>> \o pat, path) /\ IsSuffix(pat, path)

ConfigMatch(pat, path) ==
    IF IsGlob(pat) THEN Glob(pat, FileName(path)) ELSE PlainMatch(pat, path)

IgnoredByConfig(config, path) == \E pat \in config : ConfigMatch(pat, path)
-----------------------------------------------------------------------------
\* A line of .gitignore, trimmed and not a comment: its pattern, and whether a !
\* comes before it.
LineMatches(line, path) ==
    LET pat == line.pattern IN
    IF pat # <<>> /\ Last(pat) = Slash
      THEN LET dir == Front(pat)
           IN  IsPrefix(dir, path) /\ (Len(path) = Len(dir) \/ path[Len(dir) + 1] = Slash)
      ELSE IF Slash \in Range(pat) THEN Glob(pat, path) ELSE Glob(pat, FileName(path))

\* is_ignored: the lines one after the other, each that matches decides anew.
MutantDecided(ignored, line, path) == ignored \/ (LineMatches(line, path) /\ ~line.negated)
Decided(ignored, line, path) ==
    IF LineMatches(line, path) THEN ~line.negated ELSE ignored

IgnoredByLines(lines, path) ==
    FoldLeft(LAMBDA ignored, line : Decided(ignored, line, path), FALSE, lines)

IsIgnored(config, lines, path) ==
    IgnoredByConfig(config, path) \/ IgnoredByLines(lines, path)

\* The names of a path with slashes between them.
Text(names) ==
    [i \in 1..(2 * Len(names) - 1) |-> IF i % 2 = 1 THEN names[(i + 1) \div 2] ELSE Slash]
=============================================================================
