---------------------------- MODULE IgnoreProofs ----------------------------
(***************************************************************************)
(* Proofs about IgnoreRules, for patterns, paths and .gitignore files of     *)
(* any length: what the recursive definitions, which follow the loops and    *)
(* the recursion of the code, amount to.  For each a value is given that      *)
(* satisfies its equation, and SegmentInduction shows that it is the only one. *)
(***************************************************************************)
EXTENDS IgnoreQuestions, WellFoundedInduction, SequenceTheorems, TLAPS

-----------------------------------------------------------------------------
(* Numbers                                                                  *)

\* A set that has every number up to n whose predecessors it has, has them all.
LEMMA SegmentInduction ==
    ASSUME NEW S, NEW n \in Nat,
           \A k \in 0..n : (\A j \in 0..n : j < k => j \in S) => k \in S
    PROVE  0..n \subseteq S
<1> DEFINE Missing == 0..n \ S
           Less == OpToRel(<, Nat)
<1>1. \A T \in SUBSET Nat : T # {} => \E least \in T : \A k \in T : <<k, least>> \notin Less
  BY NatLessThanWellFounded, WFMin
<1>2. \A j, k \in Nat : j < k => <<j, k>> \in Less
  BY DEF OpToRel
<1>3. Missing \in SUBSET Nat
  OBVIOUS
<1>4. ASSUME NEW least \in Missing, \A k \in Missing : <<k, least>> \notin Less PROVE FALSE
  <2>1. ASSUME NEW j \in Missing PROVE ~(j < least)
    <3>1. j \in Nat /\ least \in Nat
      OBVIOUS
    <3> HIDE DEF Less, Missing
    <3> QED  BY <1>2, <1>4, <3>1
  <2> QED  BY <2>1
<1> HIDE DEF Missing, Less
<1>5. Missing = {}
  BY <1>1, <1>3, <1>4
<1> QED  BY <1>5 DEF Missing

\* Max chooses the greatest element.
LEMMA MaxIsGreatest ==
    ASSUME NEW n \in Nat, NEW S \in SUBSET (0..n), S # {}
    PROVE  Max(S) \in S /\ \A k \in S : k <= Max(S)
<1> DEFINE Top == \E x \in S : \A k \in S : k <= x
           Found == {k \in 0..n : (\E j \in S : j >= n - k) => Top}
<1>1. ASSUME NEW k \in 0..n, \A j \in 0..n : j < k => j \in Found
      PROVE  k \in Found
  <2> SUFFICES ASSUME NEW j \in S, j >= n - k PROVE Top
    OBVIOUS
  <2>1. CASE \E i \in S : i > n - k
    <3>1. PICK i \in S : i > n - k
      BY <2>1
    <3>2. n - i \in 0..n /\ n - i < k /\ i >= n - (n - i)
      BY <3>1
    <3> HIDE DEF Top
    <3> QED  BY <1>1, <3>1, <3>2
  <2>2. CASE ~ \E i \in S : i > n - k
    <3>1. j = n - k /\ \A i \in S : i <= n - k
      BY <2>2
    <3> QED  BY <3>1
  <2> QED  BY <2>1, <2>2
<1> HIDE DEF Top
<1>2. 0..n \subseteq Found
  <2> HIDE DEF Found
  <2> QED  BY <1>1, SegmentInduction
<1>3. Top
  <2>1. n \in 0..n /\ \A j \in 0..n : j >= n - n
    OBVIOUS
  <2> QED  BY <1>2, <2>1
<1> QED  BY <1>3 DEF Max, Top
-----------------------------------------------------------------------------
(* The lines of .gitignore                                                   *)

\* The lines up to a number that match the path, and what the last of them says.
Hits(lines, path, S) == {i \in S : LineMatches(lines[i], path)}
SaysLast(lines, path, S) ==
    Hits(lines, path, S) # {} /\ ~lines[Max(Hits(lines, path, S))].negated

LEMMA SaysLastStep ==
    ASSUME NEW n \in Nat, NEW lines, NEW path, \A i \in 1..n : lines[i].negated \in BOOLEAN,
           NEW S \in SUBSET (1..n), S # {}
    PROVE  SaysLast(lines, path, S) =
               Decided(SaysLast(lines, path, S \ {Max(S)}), lines[Max(S)], path)
<1> DEFINE top == Max(S)
           H == Hits(lines, path, S)
           rest == Hits(lines, path, S \ {top})
<1>0. S \in SUBSET (0..n)
  OBVIOUS
<1>1. top \in S /\ top \in 1..n /\ \A k \in S : k <= top
  BY <1>0, MaxIsGreatest
<1>2. lines[top].negated \in BOOLEAN
  BY <1>1
<1> HIDE DEF top
<1>3. CASE LineMatches(lines[top], path)
  <2>1. top \in H /\ H \in SUBSET (0..n) /\ \A k \in H : k <= top
    BY ZenonT(20), <1>0, <1>1, <1>3 DEF Hits
  <2> HIDE DEF H
  <2>2. Max(H) = top
    <3>1. Max(H) \in H /\ top <= Max(H)
      BY <2>1, MaxIsGreatest
    <3>2. \A k \in 0..n : k <= top /\ top <= k => k = top
      BY <1>1
    <3> QED  BY <2>1, <3>1, <3>2
  <2>3. SaysLast(lines, path, S) = ~lines[top].negated
    BY <1>2, <2>1, <2>2 DEF SaysLast, H
  <2> QED  BY <1>3, <2>3 DEF Decided, top
<1>4. CASE ~LineMatches(lines[top], path)
  <2>1. rest = H
    BY <1>1, <1>4 DEF Hits
  <2>2. SaysLast(lines, path, S \ {top}) = SaysLast(lines, path, S)
    BY <2>1 DEF SaysLast
  <2> QED  BY <1>4, <2>2 DEF Decided, top
<1> QED  BY <1>3, <1>4

\* The fold of the lines is what the last line says that matches.
LEMMA LastLineOf ==
    ASSUME NEW n \in Nat, NEW lines, DOMAIN lines = 1..n, NEW path,
           \A i \in 1..n : lines[i].negated \in BOOLEAN
    PROVE  IgnoredByLines(lines, path) = SaysLast(lines, path, 1..n)
<1> DEFINE All == SUBSET (1..n)
           Def(decided) ==
               [S \in All |-> IF S = {} THEN FALSE
                              ELSE Decided(decided[S \ {Max(S)}], lines[Max(S)], path)]
           says == [S \in All |-> SaysLast(lines, path, S)]
           fold == CHOOSE decided : decided = Def(decided)
<1>0. ASSUME NEW S \in All, S # {}
      PROVE  SaysLast(lines, path, S)
                 = Decided(SaysLast(lines, path, S \ {Max(S)}), lines[Max(S)], path)
  BY <1>0, SaysLastStep
<1>1. says = Def(says)
  <2>1. SaysLast(lines, path, {}) = FALSE
    BY DEF SaysLast, Hits
  <2>2. ASSUME NEW S \in All, S # {}
        PROVE  SaysLast(lines, path, S)
                   = Decided(says[S \ {Max(S)}], lines[Max(S)], path)
    BY <1>0, <2>2
  <2> QED  BY <2>1, <2>2
<1>2. fold = Def(fold)
  <2> HIDE DEF Def, says
  <2> QED  BY <1>1
<1>3. IgnoredByLines(lines, path) = fold[1..n]
  BY DEF IgnoredByLines, FoldLeft, MapThenFoldSet
<1> HIDE DEF fold
<1>4. 0..n \subseteq {k \in 0..n : fold[1..k] = SaysLast(lines, path, 1..k)}
  <2> DEFINE Right == {k \in 0..n : fold[1..k] = SaysLast(lines, path, 1..k)}
  <2>1. ASSUME NEW k \in 0..n, \A j \in 0..n : j < k => j \in Right
        PROVE  k \in Right
    <3>1. CASE k = 0
      <4>1. 1..k = {}
        BY <3>1
      <4>2. fold[{}] = FALSE
        BY <1>2
      <4> QED  BY <4>1, <4>2 DEF SaysLast, Hits
    <3>2. CASE k # 0
      <4>1. 1..k \in All /\ 1..k # {} /\ 1..k \in SUBSET (0..n)
        BY <3>2
      <4>2. Max(1..k) = k
        <5>1. Max(1..k) \in 1..k /\ \A j \in 1..k : j <= Max(1..k)
          BY <4>1, MaxIsGreatest
        <5>2. k \in 1..k /\ \A j \in 1..k : k <= j => j = k
          BY <3>2
        <5> QED  BY <5>1, <5>2
      <4>3. (1..k) \ {k} = 1..(k - 1) /\ k - 1 \in 0..n /\ k - 1 < k
        BY <3>2
      <4>4. fold[1..k] = Decided(fold[1..(k - 1)], lines[k], path)
        BY <1>2, <4>1, <4>2, <4>3
      <4>5. SaysLast(lines, path, 1..k)
                = Decided(SaysLast(lines, path, 1..(k - 1)), lines[k], path)
        <5>1. SaysLast(lines, path, 1..k) =
                  Decided(SaysLast(lines, path, (1..k) \ {Max(1..k)}), lines[Max(1..k)], path)
          BY <1>0, <4>1
        <5> QED  BY <4>2, <4>3, <5>1
      <4> QED  BY <2>1, <4>3, <4>4, <4>5
    <3> QED  BY <3>1, <3>2
  <2> HIDE DEF Right
  <2>2. 0..n \subseteq Right
    BY <2>1, SegmentInduction
  <2> QED  BY <2>2 DEF Right
<1> QED  BY <1>3, <1>4

\* Of the lines of a .gitignore that match a path the last one decides, however many
\* there are (git.rs:1857-1885).
THEOREM LastOfTheLinesDecides == question = NoQuestion \/ Ask => LastLineDecides
<1> SUFFICES ASSUME Ask, Asks("lines") PROVE LastLineDecides
  BY DEF LastLineDecides, Asks, NoQuestion
<1> DEFINE lines == question.lines
           path == question.path
<1>1. PICK n \in 0..MaxLines : lines \in [1..n -> Lines]
  BY DEF Ask, Asks
<1>2. n \in Nat /\ DOMAIN lines = 1..n /\ \A i \in 1..n : lines[i].negated \in BOOLEAN
  BY <1>1, QuestionAssumption DEF Lines
<1>3. IgnoredByLines(lines, path) = SaysLast(lines, path, 1..n)
  BY <1>2, LastLineOf
<1> QED  BY <1>2, <1>3 DEF LastLineDecides, SaysLast, Hits
-----------------------------------------------------------------------------
(* Plain patterns                                                            *)

\* The text s is found in t from the i-th letter on.
Stands(s, t, i) ==
    i + Len(s) - 1 <= Len(t) /\ \A k \in 1..Len(s) : t[i + k - 1] = s[k]

LEMMA Piece ==
    ASSUME NEW A, NEW t \in Seq(A), NEW i \in 1..Len(t), NEW j \in i..Len(t)
    PROVE  /\ SubSeq(t, i, j) \in Seq(A) /\ Len(SubSeq(t, i, j)) = j - i + 1
           /\ \A k \in 1..(j - i + 1) : SubSeq(t, i, j)[k] = t[i + k - 1]
  OBVIOUS

LEMMA PrefixStands ==
    ASSUME NEW A, NEW s \in Seq(A), NEW t \in Seq(A), NEW i \in 1..Len(t)
    PROVE  /\ IsPrefix(s, SubSeq(t, i, Len(t))) <=> Stands(s, t, i)
           /\ IsPrefix(s, t) <=> Stands(s, t, 1)
<1> DEFINE rest == SubSeq(t, i, Len(t))
<1>1. /\ rest \in Seq(A) /\ Len(rest) = Len(t) - i + 1
      /\ \A k \in 1..Len(rest) : rest[k] = t[i + k - 1]
  OBVIOUS
<1>2. ASSUME NEW u \in Seq(A)
      PROVE  IsPrefix(s, u) <=> Len(s) <= Len(u) /\ \A k \in 1..Len(s) : u[k] = s[k]
  <2>1. SubSeq(s, 1, Len(s)) = s
    OBVIOUS
  <2>2. ASSUME Len(s) <= Len(u)
        PROVE  SubSeq(u, 1, Len(s)) = s <=> \A k \in 1..Len(s) : u[k] = s[k]
    BY <2>2
  <2> QED  BY <2>1, <2>2 DEF IsPrefix
<1> HIDE DEF rest
<1>3. IsPrefix(s, rest) <=> Stands(s, t, i)
  BY <1>1, <1>2 DEF Stands
<1>4. IsPrefix(s, t) <=> Stands(s, t, 1)
  BY <1>2 DEF Stands
<1> QED  BY <1>3, <1>4 DEF rest

\* A plain pattern is a component where a slash or the end is on both sides of it.
Standalone(pat, path, i) ==
    /\ Stands(pat, path, i)
    /\ i = 1 \/ path[i - 1] = Slash
    /\ i + Len(pat) - 1 = Len(path) \/ path[i + Len(pat)] = Slash

LEMMA ComponentsStandAlone ==
    ASSUME NEW A, NEW path \in Seq(A), NEW pat \in Seq(A), pat # <<>>, Slash \notin Range(pat)
    PROVE  pat \in Components(path) <=> \E i \in 1..Len(path) : Standalone(pat, path, i)
<1> DEFINE n == Len(path)
           Starts == {k \in DOMAIN path : k = 1 \/ path[k - 1] = Slash}
           Ends == {k \in DOMAIN path : k = n \/ path[k + 1] = Slash}
<1>0. Len(pat) \in Nat \ {0} /\ n \in Nat /\ DOMAIN path = 1..n
  OBVIOUS
<1>c. pat \in Components(path) <=> \E i \in Starts, j \in Ends : pat = SubSeq(path, i, j)
  <2>1. Components(path) = {part \in {SubSeq(path, i, j) : i \in Starts, j \in Ends} :
                               part # <<>> /\ Slash \notin Range(part)}
    BY DEF Components
  <2> HIDE DEF Starts, Ends
  <2> QED  BY <2>1
<1>1. ASSUME pat \in Components(path) PROVE \E i \in 1..n : Standalone(pat, path, i)
  <2>1. PICK i \in Starts, j \in Ends : pat = SubSeq(path, i, j)
    BY <1>1, <1>c
  <2>2. (i = 1 \/ path[i - 1] = Slash) /\ (j = n \/ path[j + 1] = Slash)
    OBVIOUS
  <2>3. i \in 1..n /\ j \in 1..n
    BY <1>0
  <2>4. i <= j
    <3>1. i > j => SubSeq(path, i, j) = <<>>
      BY <2>3
    <3> QED  BY <2>1, <2>3, <3>1
  <2>5. Len(pat) = j - i + 1 /\ \A k \in 1..(j - i + 1) : pat[k] = path[i + k - 1]
    <3>1. j \in i..n
      BY <2>3, <2>4
    <3>2. i \in 1..Len(path) /\ j \in i..Len(path)
      BY <2>3, <3>1
    <3> HIDE DEF Starts, Ends, n
    <3>3. /\ Len(SubSeq(path, i, j)) = j - i + 1
          /\ \A k \in 1..(j - i + 1) : SubSeq(path, i, j)[k] = path[i + k - 1]
      BY <3>2, Piece
    <3> QED  BY <2>1, <3>3, Zenon
  <2>6. i + Len(pat) - 1 = j /\ i + Len(pat) = j + 1
    BY <2>3, <2>5
  <2>7. Stands(pat, path, i)
    <3>1. i + Len(pat) - 1 <= Len(path)
      BY <2>3, <2>6
    <3> HIDE DEF Starts, Ends
    <3> QED  BY <2>5, <3>1 DEF Stands
  <2> QED  BY <2>2, <2>3, <2>6, <2>7 DEF Standalone
<1>2. ASSUME NEW i \in 1..n, Standalone(pat, path, i) PROVE pat \in Components(path)
  <2> DEFINE j == i + Len(pat) - 1
  <2>1. j \in 1..n /\ i <= j /\ DOMAIN path = 1..n
    BY <1>0, <1>2 DEF Standalone, Stands
  <2>2. (i = 1 \/ path[i - 1] = Slash) /\ (j = n \/ path[j + 1] = Slash)
    BY <1>0, <1>2 DEF Standalone
  <2>3. SubSeq(path, i, j) = pat
    <3>1. j \in i..n /\ j - i + 1 = Len(pat)
      BY <1>0, <2>1
    <3>2. /\ SubSeq(path, i, j) \in Seq(A) /\ Len(SubSeq(path, i, j)) = Len(pat)
          /\ \A k \in 1..Len(pat) : SubSeq(path, i, j)[k] = path[i + k - 1]
      <4> HIDE DEF j
      <4> QED  BY <3>1, Piece
    <3>3. \A k \in 1..Len(pat) : SubSeq(path, i, j)[k] = pat[k]
      BY <1>2, <3>2 DEF Standalone, Stands
    <3> HIDE DEF j
    <3> QED  BY <3>2, <3>3, SeqEqual
  <2>4. i \in Starts /\ j \in Ends
    BY <2>1, <2>2
  <2> HIDE DEF Starts, Ends, j
  <2> QED  BY <1>c, <2>3, <2>4
<1> QED  BY <1>1, <1>2

LEMMA SlashedStands ==
    ASSUME NEW A, Slash \in A, NEW path \in Seq(A), NEW s \in Seq(A), NEW i \in 1..Len(path)
    PROVE  /\ s \o <<Slash>> \in Seq(A) /\ <<Slash>> \o s \in Seq(A)
           /\ Stands(s \o <<Slash>>, path, i) <=>
                  /\ Stands(s, path, i)
                  /\ i + Len(s) <= Len(path) /\ path[i + Len(s)] = Slash
           /\ Stands(<<Slash>> \o s, path, i) <=> path[i] = Slash /\ Stands(s, path, i + 1)
<1> DEFINE after == s \o <<Slash>>
           before == <<Slash>> \o s
           n == Len(s)
<1>0. n \in Nat
  OBVIOUS
<1>1. /\ after \in Seq(A) /\ Len(after) = n + 1 /\ after[n + 1] = Slash
      /\ \A k \in 1..n : after[k] = s[k]
  OBVIOUS
<1>2. /\ before \in Seq(A) /\ Len(before) = n + 1 /\ before[1] = Slash
      /\ \A k \in 1..n : before[k + 1] = s[k]
  OBVIOUS
<1> HIDE DEF after, before
<1>3. Stands(after, path, i) <=>
          Stands(s, path, i) /\ i + n <= Len(path) /\ path[i + n] = Slash
  <2>1. \A k \in 1..(n + 1) : k \in 1..n \/ k = n + 1
    BY <1>0
  <2>2. n + 1 \in 1..(n + 1) /\ \A k \in 1..n : k \in 1..(n + 1)
    BY <1>0
  <2>3. i + (n + 1) - 1 = i + n
    BY <1>0
  <2>4. Stands(after, path, i) => Stands(s, path, i) /\ i + n <= Len(path) /\ path[i + n] = Slash
    <3> SUFFICES ASSUME Stands(after, path, i)
                 PROVE  Stands(s, path, i) /\ i + n <= Len(path) /\ path[i + n] = Slash
      OBVIOUS
    <3>1. i + n <= Len(path) /\ \A k \in 1..(n + 1) : path[i + k - 1] = after[k]
      BY <1>1, <2>3 DEF Stands
    <3>2. path[i + n] = Slash
      BY <1>1, <2>2, <2>3, <3>1
    <3>3. i + n - 1 <= Len(path) /\ \A k \in 1..n : path[i + k - 1] = s[k]
      BY <1>0, <1>1, <2>2, <3>1
    <3> QED  BY <3>1, <3>2, <3>3 DEF Stands
  <2>5. Stands(s, path, i) /\ i + n <= Len(path) /\ path[i + n] = Slash => Stands(after, path, i)
    <3> SUFFICES ASSUME Stands(s, path, i), i + n <= Len(path), path[i + n] = Slash
                 PROVE  Stands(after, path, i)
      OBVIOUS
    <3>1. \A k \in 1..(n + 1) : path[i + k - 1] = after[k]
      BY <1>1, <2>1, <2>3 DEF Stands
    <3>2. i + Len(after) - 1 <= Len(path)
      BY <1>1, <2>3
    <3> QED  BY <1>1, <3>1, <3>2 DEF Stands
  <2> QED  BY <2>4, <2>5
<1>4. Stands(before, path, i) <=> path[i] = Slash /\ Stands(s, path, i + 1)
  <2>1. \A k \in 1..(n + 1) : k = 1 \/ k - 1 \in 1..n
    BY <1>0
  <2>2. 1 \in 1..(n + 1) /\ \A k \in 1..n : k + 1 \in 1..(n + 1)
    BY <1>0
  <2>3. Stands(before, path, i) => path[i] = Slash /\ Stands(s, path, i + 1)
    <3> SUFFICES ASSUME Stands(before, path, i) PROVE path[i] = Slash /\ Stands(s, path, i + 1)
      OBVIOUS
    <3>1. i + n <= Len(path) /\ \A k \in 1..(n + 1) : path[i + k - 1] = before[k]
      BY <1>0, <1>2 DEF Stands
    <3>2. path[i] = Slash
      BY <1>2, <2>2, <3>1
    <3>3. \A k \in 1..n : path[i + 1 + k - 1] = s[k]
      <4> SUFFICES ASSUME NEW k \in 1..n PROVE path[i + 1 + k - 1] = s[k]
        OBVIOUS
      <4>1. path[i + (k + 1) - 1] = before[k + 1] /\ i + (k + 1) - 1 = i + 1 + k - 1
        BY <2>2, <3>1
      <4> QED  BY <1>2, <4>1
    <3>4. i + 1 + n - 1 <= Len(path)
      BY <1>0, <3>1
    <3> QED  BY <3>2, <3>3, <3>4 DEF Stands
  <2>4. path[i] = Slash /\ Stands(s, path, i + 1) => Stands(before, path, i)
    <3> SUFFICES ASSUME path[i] = Slash, Stands(s, path, i + 1) PROVE Stands(before, path, i)
      OBVIOUS
    <3>1. i + 1 + n - 1 <= Len(path) /\ \A k \in 1..n : path[i + 1 + k - 1] = s[k]
      BY DEF Stands
    <3>2. ASSUME NEW k \in 1..(n + 1) PROVE path[i + k - 1] = before[k]
      <4>1. CASE k = 1
        BY <1>2, <4>1
      <4>2. CASE k # 1
        <5>1. k - 1 \in 1..n /\ i + 1 + (k - 1) - 1 = i + k - 1 /\ (k - 1) + 1 = k
          BY <1>0, <4>2
        <5>2. path[i + 1 + (k - 1) - 1] = s[k - 1] /\ before[(k - 1) + 1] = s[k - 1]
          BY <1>2, <3>1, <5>1
        <5> QED  BY <5>1, <5>2
      <4> QED  BY <4>1, <4>2
    <3>3. i + (n + 1) - 1 <= Len(path)
      BY <1>0, <3>1
    <3> QED  BY <1>2, <3>2, <3>3 DEF Stands
  <2> QED  BY <2>3, <2>4
<1> QED  BY <1>1, <1>2, <1>3, <1>4 DEF after, before

\* The file name begins after the last slash.
LEMMA FileNameIsLast ==
    ASSUME NEW A, NEW path \in Seq(A), path # <<>>, path[Len(path)] # Slash
    PROVE  \E m \in 0..(Len(path) - 1) :
               /\ FileName(path) = SubSeq(path, m + 1, Len(path))
               /\ m = 0 \/ path[m] = Slash
               /\ \A k \in (m + 1)..Len(path) : path[k] # Slash
<1> DEFINE n == Len(path)
           slashes == {i \in DOMAIN path : path[i] = Slash}
           m == Max(slashes \cup {0})
<1>1. n \in Nat \ {0} /\ DOMAIN path = 1..n
  OBVIOUS
<1>2. slashes \cup {0} \in SUBSET (0..n)
  BY <1>1
<1>3. m \in slashes \cup {0} /\ \A k \in slashes \cup {0} : k <= m
  <2> HIDE DEF slashes
  <2> QED  BY <1>1, <1>2, MaxIsGreatest
<1>4. FileName(path) = SubSeq(path, m + 1, n)
  BY DEF FileName
<1> HIDE DEF m
<1>5. m \in 0..(n - 1) /\ (m = 0 \/ path[m] = Slash)
  BY <1>1, <1>3
<1>6. \A k \in (m + 1)..n : path[k] # Slash
  BY <1>1, <1>3, <1>5
<1> QED  BY <1>4, <1>5, <1>6

\* Where a plain pattern that is no component of the path can match it: at its end,
\* after a slash.
LEMMA PlainMatchesAre ==
    ASSUME NEW A, Slash \in A, NEW path \in Seq(A), path # <<>>, path[Len(path)] # Slash,
           NEW pat \in Seq(A), pat # <<>>, Slash \notin Range(pat)
    PROVE  PlainMatch(pat, path) <=>
               \/ \E i \in 1..Len(path) : Standalone(pat, path, i)
               \/ /\ IsSuffix(pat, path)
                  /\ \E i \in 2..Len(path) : path[i - 1] = Slash /\ Stands(pat, path, i)
<1> DEFINE n == Len(path)
           l == Len(pat)
           Alone(i) == Standalone(pat, path, i)
           Follows(i) == i \in 2..n /\ path[i - 1] = Slash /\ Stands(pat, path, i)
<1>1. n \in Nat \ {0} /\ l \in Nat \ {0}
  OBVIOUS
<1>2. PICK m \in 0..(n - 1) : /\ FileName(path) = SubSeq(path, m + 1, n)
                              /\ m = 0 \/ path[m] = Slash
                              /\ \A k \in (m + 1)..n : path[k] # Slash
  BY FileNameIsLast
<1>3. FileName(path) = pat <=> Stands(pat, path, m + 1) /\ m + l = n
  <2>1. m + 1 \in 1..n /\ n \in (m + 1)..n
    BY <1>1
  <2>2. /\ FileName(path) \in Seq(A) /\ Len(FileName(path)) = n - (m + 1) + 1
        /\ \A k \in 1..(n - (m + 1) + 1) : FileName(path)[k] = path[m + 1 + k - 1]
    BY <1>2, <2>1, Piece
  <2>3. FileName(path) = pat => Stands(pat, path, m + 1) /\ m + l = n
    BY <1>1, <2>2 DEF Stands
  <2>4. ASSUME Stands(pat, path, m + 1), m + l = n PROVE FileName(path) = pat
    <3>1. n - (m + 1) + 1 = l
      BY <1>1, <2>4
    <3>2. \A k \in 1..l : path[m + 1 + k - 1] = pat[k]
      BY <2>4 DEF Stands
    <3>3. Len(FileName(path)) = Len(pat) /\ \A k \in 1..Len(pat) : FileName(path)[k] = pat[k]
      BY <2>2, <3>1, <3>2
    <3> QED  BY <2>2, <3>3, SeqEqual
  <2> QED  BY <2>3, <2>4
<1>4. path = pat <=> Stands(pat, path, 1) /\ l = n
  <2>1. path = pat => Stands(pat, path, 1) /\ l = n
    BY <1>1 DEF Stands
  <2>2. ASSUME Stands(pat, path, 1), l = n PROVE path = pat
    <3>1. \A k \in 1..Len(pat) : path[k] = pat[k]
      BY <1>1, <2>2 DEF Stands
    <3> QED  BY <2>2, <3>1, SeqEqual
  <2> QED  BY <2>1, <2>2
<1>5. IsPrefix(pat \o <<Slash>>, path) <=>
          Stands(pat, path, 1) /\ 1 + l <= n /\ path[1 + l] = Slash
  <2>1. 1 \in 1..n /\ pat \o <<Slash>> \in Seq(A)
    BY <1>1
  <2>2. IsPrefix(pat \o <<Slash>>, path) <=> Stands(pat \o <<Slash>>, path, 1)
    BY <2>1, PrefixStands, Zenon
  <2>3. Stands(pat \o <<Slash>>, path, 1) <=>
            Stands(pat, path, 1) /\ 1 + l <= n /\ path[1 + l] = Slash
    BY <2>1, SlashedStands, Zenon
  <2> QED  BY <2>2, <2>3, Zenon
<1>6. \A s \in Seq(A) : Occurs(s, path) <=> \E i \in 1..n : Stands(s, path, i)
  BY PrefixStands DEF Occurs
<1>7. Occurs(<<Slash>> \o pat, path) <=> \E i \in 1..n : path[i] = Slash /\ Stands(pat, path, i + 1)
  <2>1. <<Slash>> \o pat \in Seq(A)
    BY SlashedStands, <1>1
  <2>2. \A i \in 1..n : Stands(<<Slash>> \o pat, path, i) <=>
            path[i] = Slash /\ Stands(pat, path, i + 1)
    BY SlashedStands
  <2> QED  BY <1>6, <2>1, <2>2
<1>8. Occurs(<<Slash>> \o pat \o <<Slash>>, path) <=>
          \E i \in 1..n : /\ path[i] = Slash /\ Stands(pat, path, i + 1)
                          /\ i + 1 + l <= n /\ path[i + 1 + l] = Slash
  <2>1. <<Slash>> \o pat \in Seq(A) /\ Len(<<Slash>> \o pat) = 1 + l
    BY <1>1
  <2>2. \A i \in 1..n : i + (1 + l) = i + 1 + l
    BY <1>1
  <2>3. \A i \in 1..n : Stands((<<Slash>> \o pat) \o <<Slash>>, path, i) <=>
            /\ Stands(<<Slash>> \o pat, path, i)
            /\ i + (1 + l) <= n /\ path[i + (1 + l)] = Slash
    <3> DEFINE s == <<Slash>> \o pat
    <3>1. s \in Seq(A) /\ Len(s) = 1 + l
      BY <2>1
    <3> HIDE DEF s
    <3>2. \A i \in 1..n : Stands(s \o <<Slash>>, path, i) <=>
              Stands(s, path, i) /\ i + Len(s) <= n /\ path[i + Len(s)] = Slash
      <4> TAKE i \in 1..n
      <4> QED  BY <3>1, SlashedStands, Zenon
    <3> QED  BY <3>1, <3>2 DEF s
  <2>4. \A i \in 1..n : Stands(<<Slash>> \o pat, path, i) <=>
            path[i] = Slash /\ Stands(pat, path, i + 1)
    BY SlashedStands
  <2>5. (<<Slash>> \o pat) \o <<Slash>> \in Seq(A)
    BY <2>1
  <2> HIDE DEF l, n
  <2> QED  BY <1>6, <2>2, <2>3, <2>4, <2>5
<1>9. \A i : Stands(pat, path, i) => i + l - 1 <= n
  BY DEF Stands
<1>10. ASSUME NEW i \in 1..n, Alone(i)
       PROVE  PlainMatch(pat, path)
  <2>1. Stands(pat, path, i) /\ (i = 1 \/ path[i - 1] = Slash)
        /\ (i + l - 1 = n \/ (i + l <= n /\ path[i + l] = Slash))
    BY <1>1, <1>9, <1>10 DEF Standalone
  <2>2. CASE i = 1
    BY <1>1, <1>4, <1>5, <2>1, <2>2 DEF PlainMatch
  <2>3. CASE i # 1 /\ i + l - 1 = n
    <3>1. i - 1 <= m
      BY <1>2, <2>1, <2>3
    <3>2. m <= i - 1
      <4>1. CASE m > i - 1
        <5>1. m - i + 1 \in 1..l /\ i + (m - i + 1) - 1 = m
          BY <1>1, <2>3, <4>1
        <5>2. path[m] = pat[m - i + 1]
          BY <2>1, <5>1 DEF Stands
        <5>3. pat[m - i + 1] # Slash
          BY <5>1 DEF Range
        <5> QED  BY <1>2, <4>1, <5>2, <5>3
      <4> QED  BY <1>1, <4>1
    <3>3. m + 1 = i /\ m + l = n
      BY <1>1, <2>3, <3>1, <3>2
    <3> QED  BY <1>3, <2>1, <3>3 DEF PlainMatch
  <2>4. CASE i # 1 /\ i + l <= n /\ path[i + l] = Slash
    <3>1. i - 1 \in 1..n /\ (i - 1) + 1 = i
      BY <2>4
    <3> QED  BY <1>8, <2>1, <2>4, <3>1 DEF PlainMatch
  <2> QED  BY <2>1, <2>2, <2>3, <2>4
<1>11. ASSUME NEW i, Follows(i), IsSuffix(pat, path) PROVE PlainMatch(pat, path)
  <2>1. i - 1 \in 1..n /\ (i - 1) + 1 = i
    BY <1>11
  <2> QED  BY <1>7, <1>11, <2>1 DEF PlainMatch
<1>12. ASSUME PlainMatch(pat, path)
       PROVE  (\E i \in 1..n : Alone(i)) \/ (IsSuffix(pat, path) /\ \E i : Follows(i))
  <2>1. CASE FileName(path) = pat
    <3>1. m + 1 \in 1..n /\ (m + 1) - 1 = m /\ m + 1 + l - 1 = n
      BY <1>1, <1>3, <2>1
    <3>2. Alone(m + 1)
      BY <1>1, <1>2, <1>3, <2>1, <3>1 DEF Standalone
    <3> QED  BY <3>1, <3>2
  <2>2. CASE path = pat \/ IsPrefix(pat \o <<Slash>>, path)
    <3>1. Alone(1)
      BY <1>1, <1>4, <1>5, <2>2 DEF Standalone
    <3> QED  BY <1>1, <3>1
  <2>3. CASE Occurs(<<Slash>> \o pat \o <<Slash>>, path)
    <3>1. PICK i \in 1..n : /\ path[i] = Slash /\ Stands(pat, path, i + 1)
                            /\ i + 1 + l <= n /\ path[i + 1 + l] = Slash
      BY <1>8, <2>3
    <3>2. i + 1 \in 1..n /\ (i + 1) - 1 = i
      BY <1>1, <3>1
    <3>3. Alone(i + 1)
      BY <3>1, <3>2 DEF Standalone
    <3> QED  BY <3>2, <3>3
  <2>4. CASE Occurs(<<Slash>> \o pat, path) /\ IsSuffix(pat, path)
    <3>1. PICK i \in 1..n : path[i] = Slash /\ Stands(pat, path, i + 1)
      BY <1>7, <2>4
    <3>2. i + 1 + l - 1 <= n
      BY <1>9, <3>1
    <3>3. i + 1 \in 2..n /\ (i + 1) - 1 = i
      BY <1>1, <3>2
    <3> QED  BY <2>4, <3>1, <3>3
  <2> QED  BY <1>12, <2>1, <2>2, <2>3, <2>4 DEF PlainMatch
<1> QED  BY <1>10, <1>11, <1>12

\* A pattern of letters only matches every path that has it as a component, wherever in
\* the path and however long both are (git.rs:1911).
THEOREM PlainPatternsMatchComponents ==
    question = NoQuestion \/ Ask => PlainPatternsNameComponents
<1> SUFFICES ASSUME Ask, Asks("pattern"), Range(question.pattern) \subseteq Letters
             PROVE  PlainPatternsNameComponents
  BY DEF PlainPatternsNameComponents, Asks, NoQuestion
<1> DEFINE pat == question.pattern
           path == question.path
           A == Letters \cup {"*", "?", Slash}
<1>1. pat \in Patterns /\ path \in FilePaths(MaxPath)
  BY DEF Ask, Asks
<1>2. pat \in Seq(A) /\ pat # <<>>
  <2>1. PICK k \in 1..MaxPattern : pat \in [1..k -> A]
    BY <1>1 DEF Patterns, Texts
  <2>2. k \in Nat \ {0}
    BY <2>1, QuestionAssumption
  <2> HIDE DEF pat, A
  <2> QED  BY <2>1, <2>2
<1>3. path \in Seq(A) /\ path # <<>> /\ path[Len(path)] # Slash
  <2>1. PICK k \in 1..MaxPath : path \in [1..k -> Letters \cup {Slash}]
    BY <1>1 DEF FilePaths, Texts
  <2>2. k \in Nat \ {0} /\ path \in [1..k -> A]
    BY <2>1, QuestionAssumption
  <2>3. \A i \in DOMAIN path : path[i] = Slash => i < Len(path)
    BY <1>1 DEF FilePaths
  <2> HIDE DEF path, A
  <2>4. path \in Seq(A) /\ Len(path) = k /\ DOMAIN path = 1..k
    BY <2>2
  <2> QED  BY <2>2, <2>3, <2>4
<1>4. Slash \notin Range(pat) /\ ~IsGlob(pat) /\ Slash \in A
  BY QuestionAssumption DEF IsGlob, Range
<1> HIDE DEF pat, path, A
<1>5. ConfigMatch(pat, path) <=> PlainMatch(pat, path)
  BY <1>4 DEF ConfigMatch
<1>6. pat \in Components(path) => ConfigMatch(pat, path)
  BY <1>2, <1>3, <1>4, <1>5, ComponentsStandAlone, PlainMatchesAre
<1> QED  BY <1>6 DEF PlainPatternsNameComponents, pat, path
-----------------------------------------------------------------------------
(* The matcher                                                               *)

\* The text from its j-th letter up to the one before the k-th fits a letter of the
\* pattern.
FitsAt(c, text, j, k) ==
    IF c = "*" THEN Names(text, j, k)
    ELSE k = j + 1 /\ IF c = "?" THEN text[j] # Slash ELSE text[j] = c

LEMMA PieceFits ==
    ASSUME NEW A, NEW text \in Seq(A), NEW c,
           NEW j \in 1..(Len(text) + 1), NEW k \in j..(Len(text) + 1)
    PROVE  Fits(c, SubSeq(text, j, k - 1)) <=> FitsAt(c, text, j, k)
<1> DEFINE piece == SubSeq(text, j, k - 1)
<1>1. /\ piece \in Seq(A) /\ Len(piece) = k - j
      /\ \A l \in 1..(k - j) : piece[l] = text[j + l - 1]
  OBVIOUS
<1>2. \A d : piece = <<d>> <=> k = j + 1 /\ text[j] = d
  <2> HIDE DEF piece
  <2> SUFFICES ASSUME NEW d PROVE piece = <<d>> <=> k = j + 1 /\ text[j] = d
    OBVIOUS
  <2>1. CASE k = j + 1
    <3>0. k - j = 1 /\ 1 \in 1..(k - j) /\ j + 1 - 1 = j
      BY <2>1
    <3>1. Len(piece) = 1 /\ piece[1] = text[j]
      BY <1>1, <3>0
    <3>2. piece = <<piece[1]>>
      <4>1. piece[1] \in A
        <5>1. piece \in Seq(A)
          BY <1>1
        <5>2. \A l \in 1..Len(piece) : piece[l] \in A
          BY <5>1
        <5>3. 1 \in 1..Len(piece)
          BY <3>1
        <5> QED  BY <5>2, <5>3
      <4> DEFINE one == <<piece[1]>>
      <4>2. one \in Seq(A) /\ Len(one) = 1 /\ one[1] = piece[1]
        BY <4>1
      <4> HIDE DEF one
      <4>3. \A l \in 1..1 : l = 1
        OBVIOUS
      <4>4. piece = one
        BY <1>1, <3>1, <4>2, <4>3, SeqEqual
      <4> QED  BY <4>4 DEF one
    <3>3. piece = <<d>> => piece[1] = d
      OBVIOUS
    <3> QED  BY <2>1, <3>1, <3>2, <3>3
  <2>2. CASE k # j + 1
    <3>1. Len(piece) # 1
      BY <1>1, <2>2
    <3>2. Len(<<d>>) = 1
      OBVIOUS
    <3> QED  BY <2>2, <3>1, <3>2
  <2> QED  BY <2>1, <2>2
<1>3. Slash \notin Range(piece) <=> Names(text, j, k)
  <2>1. ASSUME NEW l \in j..(k - 1) PROVE l - j + 1 \in 1..(k - j) /\ j + (l - j + 1) - 1 = l
    OBVIOUS
  <2>2. ASSUME NEW l \in 1..(k - j) PROVE j + l - 1 \in j..(k - 1)
    OBVIOUS
  <2>3. Slash \notin Range(piece) <=> \A l \in 1..(k - j) : piece[l] # Slash
    <3>1. DOMAIN piece = 1..(k - j)
      BY <1>1
    <3> HIDE DEF piece
    <3> QED  BY <3>1 DEF Range
  <2> HIDE DEF piece
  <2>4. ASSUME \A l \in 1..(k - j) : piece[l] # Slash, NEW l \in j..(k - 1)
        PROVE  text[l] # Slash
    <3>1. piece[l - j + 1] = text[j + (l - j + 1) - 1]
      BY <1>1, <2>1
    <3> QED  BY <2>1, <2>4, <3>1
  <2>5. ASSUME \A l \in j..(k - 1) : text[l] # Slash, NEW l \in 1..(k - j)
        PROVE  piece[l] # Slash
    BY <1>1, <2>2, <2>5
  <2> QED  BY <2>3, <2>4, <2>5 DEF Names
<1>4. Len(piece) = 1 <=> k = j + 1
  BY <1>1
<1> HIDE DEF piece
<1>5. Fits(c, piece) <=> FitsAt(c, text, j, k)
  <2>1. CASE c = "*"
    BY <1>3, <2>1 DEF Fits, FitsAt
  <2>2. CASE c = "?"
    BY <1>2, <1>4, <2>2 DEF Fits, FitsAt
  <2>3. CASE c # "*" /\ c # "?"
    BY <1>2, <2>3 DEF Fits, FitsAt
  <2> QED  BY <2>1, <2>2, <2>3
<1> QED  BY <1>5 DEF piece

\* ends cuts the text into a piece for each letter of the pattern from the i-th on;
\* the piece of letter k goes up to the letter before ends[k].
Cuts(pat, text, i, ends) ==
    /\ ends[Len(pat)] = Len(text) + 1
    /\ \A k \in i..Len(pat) : ends[k - 1] <= ends[k] /\ FitsAt(pat[k], text, ends[k - 1], ends[k])

\* Where the text can begin so that it can be cut for the pattern from i on.
Places(pat, text, i) ==
    {j \in 1..(Len(text) + 1) :
        \E ends \in [(i - 1)..Len(pat) -> 1..(Len(text) + 1)] :
            ends[i - 1] = j /\ Cuts(pat, text, i, ends)}

LEMMA NoPiece ==
    ASSUME NEW A, NEW pat \in Seq(A), NEW text \in Seq(A)
    PROVE  Places(pat, text, Len(pat) + 1) = {Len(text) + 1}
<1> DEFINE m == Len(pat)
           n == Len(text)
           ends == [l \in ((m + 1) - 1)..m |-> n + 1]
<1>1. m \in Nat /\ n \in Nat /\ (m + 1) - 1 = m /\ (m + 1)..m = {}
  OBVIOUS
<1>2. ends \in [((m + 1) - 1)..m -> 1..(n + 1)] /\ ends[(m + 1) - 1] = n + 1
      /\ Cuts(pat, text, m + 1, ends)
  <2>1. m \in ((m + 1) - 1)..m /\ n + 1 \in 1..(n + 1)
    BY <1>1
  <2>2. ends \in [((m + 1) - 1)..m -> 1..(n + 1)] /\ ends[m] = n + 1
    BY <2>1
  <2> HIDE DEF ends
  <2> QED  BY <1>1, <2>2 DEF Cuts
<1>3. n + 1 \in Places(pat, text, m + 1)
  <2> HIDE DEF ends
  <2> QED  BY <1>1, <1>2 DEF Places
<1>4. ASSUME NEW j \in Places(pat, text, m + 1) PROVE j = n + 1
  BY <1>1 DEF Places, Cuts
<1> QED  BY <1>3, <1>4

LEMMA FirstPiece ==
    ASSUME NEW A, NEW pat \in Seq(A), NEW text \in Seq(A),
           NEW i \in 1..Len(pat), NEW j \in 1..(Len(text) + 1)
    PROVE  j \in Places(pat, text, i) <=>
               \E k \in j..(Len(text) + 1) :
                   FitsAt(pat[i], text, j, k) /\ k \in Places(pat, text, i + 1)
<1> DEFINE m == Len(pat)
           n == Len(text)
<1>1. m \in Nat /\ n \in Nat /\ (i + 1) - 1 = i /\ i - 1 \in Nat /\ i <= m
  OBVIOUS
<1>2. ASSUME NEW ends \in [(i - 1)..m -> 1..(n + 1)], ends[i - 1] = j, Cuts(pat, text, i, ends)
      PROVE  \E k \in j..(n + 1) : FitsAt(pat[i], text, j, k) /\ k \in Places(pat, text, i + 1)
  <2> DEFINE rest == [l \in i..m |-> ends[l]]
  <2>1. ends[i] \in j..(n + 1) /\ FitsAt(pat[i], text, j, ends[i])
    <3>1. i \in (i - 1)..m /\ i \in i..m /\ ends[i] \in 1..(n + 1)
      BY <1>1
    <3>2. ends[i - 1] <= ends[i] /\ FitsAt(pat[i], text, ends[i - 1], ends[i])
      BY <1>2, <3>1 DEF Cuts
    <3> QED  BY <1>1, <1>2, <3>1, <3>2
  <2>2. rest \in [i..m -> 1..(n + 1)] /\ rest[i] = ends[i]
    BY <1>1
  <2>3. Cuts(pat, text, i + 1, rest)
    <3>1. \A k \in (i + 1)..m : k \in i..m /\ k - 1 \in i..m
      BY <1>1
    <3>2. m \in i..m
      BY <1>1
    <3>3. \A l \in i..m : rest[l] = ends[l]
      OBVIOUS
    <3> HIDE DEF rest
    <3> QED  BY <1>1, <1>2, <3>1, <3>2, <3>3 DEF Cuts
  <2>4. ends[i] \in Places(pat, text, i + 1)
    <3>1. ends[i] \in 1..(n + 1)
      BY <1>1
    <3> HIDE DEF rest
    <3> QED  BY <1>1, <2>2, <2>3, <3>1 DEF Places
  <2> QED  BY <2>1, <2>4
<1>3. ASSUME NEW k \in j..(n + 1), FitsAt(pat[i], text, j, k),
             NEW rest \in [i..m -> 1..(n + 1)], rest[i] = k, Cuts(pat, text, i + 1, rest)
      PROVE  j \in Places(pat, text, i)
  <2> DEFINE ends == [l \in (i - 1)..m |-> IF l = i - 1 THEN j ELSE rest[l]]
  <2>1. ends \in [(i - 1)..m -> 1..(n + 1)]
    <3>1. \A l \in (i - 1)..m : l # i - 1 => l \in i..m
      BY <1>1
    <3> QED  BY <3>1
  <2>2. ends[i - 1] = j /\ \A l \in i..m : ends[l] = rest[l]
    BY <1>1
  <2>3. Cuts(pat, text, i, ends)
    <3> HIDE DEF ends
    <3>1. m \in i..m
      BY <1>1
    <3>2. ASSUME NEW l \in i..m
          PROVE  ends[l - 1] <= ends[l] /\ FitsAt(pat[l], text, ends[l - 1], ends[l])
      <4>1. CASE l = i
        BY <1>1, <1>3, <2>2, <4>1
      <4>2. CASE l # i
        <5>1. l \in (i + 1)..m /\ l - 1 \in i..m
          BY <1>1, <4>2
        <5>2. rest[l - 1] <= rest[l] /\ FitsAt(pat[l], text, rest[l - 1], rest[l])
          BY <1>3, <5>1 DEF Cuts
        <5> QED  BY <2>2, <5>1, <5>2
      <4> QED  BY <4>1, <4>2
    <3>3. rest[m] = n + 1
      BY <1>3 DEF Cuts
    <3> QED  BY <2>2, <3>1, <3>2, <3>3 DEF Cuts
  <2> HIDE DEF ends
  <2> QED  BY <2>1, <2>2, <2>3 DEF Places
<1>4. j \in Places(pat, text, i) =>
          \E k \in j..(n + 1) : FitsAt(pat[i], text, j, k) /\ k \in Places(pat, text, i + 1)
  BY <1>2 DEF Places
<1>5. ASSUME NEW k \in j..(n + 1), FitsAt(pat[i], text, j, k), k \in Places(pat, text, i + 1)
      PROVE  j \in Places(pat, text, i)
  BY <1>1, <1>3, <1>5 DEF Places
<1> QED  BY <1>4, <1>5

\* The matcher goes through the pattern from its end; what it finds at each letter are
\* the places.
LEMMA GlobFindsPlaces ==
    ASSUME NEW A, NEW pat \in Seq(A), NEW text \in Seq(A)
    PROVE  Glob(pat, text) <=> 1 \in Places(pat, text, 1)
<1> DEFINE m == Len(pat)
           n == Len(text)
           Step(rest, i) ==
               {j \in 1..(n + 1) :
                  IF pat[i] = "*"
                    THEN \E k \in j..(n + 1) : Names(text, j, k) /\ k \in rest
                    ELSE /\ j <= n
                         /\ IF pat[i] = "?" THEN text[j] # Slash ELSE text[j] = pat[i]
                         /\ j + 1 \in rest}
           Def(f) == [i \in 1..(m + 1) |-> IF i > m THEN {n + 1} ELSE Step(f[i + 1], i)]
           places == [i \in 1..(m + 1) |-> Places(pat, text, i)]
           matches == CHOOSE f : f = Def(f)
<1>1. m \in Nat /\ n \in Nat
  OBVIOUS
<1>2. ASSUME NEW i \in 1..m
      PROVE  Places(pat, text, i) = Step(Places(pat, text, i + 1), i)
  <2>1. ASSUME NEW j \in 1..(n + 1)
        PROVE  j \in Places(pat, text, i) <=> j \in Step(Places(pat, text, i + 1), i)
    <3>1. j \in Places(pat, text, i) <=>
              \E k \in j..(n + 1) : FitsAt(pat[i], text, j, k) /\ k \in Places(pat, text, i + 1)
      BY FirstPiece
    <3>2. CASE pat[i] = "*"
      BY <3>1, <3>2 DEF FitsAt
    <3>3. CASE pat[i] # "*"
      <4>1. \A k \in j..(n + 1) : k = j + 1 => j <= n
        BY <1>1
      <4>2. j <= n => j + 1 \in j..(n + 1)
        BY <1>1
      <4> QED  BY <3>1, <3>3, <4>1, <4>2 DEF FitsAt
    <3> QED  BY <3>2, <3>3
  <2>2. Places(pat, text, i) \subseteq 1..(n + 1)
    BY DEF Places
  <2>3. Step(Places(pat, text, i + 1), i) \subseteq 1..(n + 1)
    OBVIOUS
  <2> HIDE DEF Step, n
  <2> QED  BY <2>1, <2>2, <2>3
<1>3. Places(pat, text, m + 1) = {n + 1}
  BY NoPiece
<1>4. places = Def(places)
  <2> HIDE DEF Step
  <2>1. ASSUME NEW i \in 1..(m + 1)
        PROVE  Places(pat, text, i) = IF i > m THEN {n + 1} ELSE Step(places[i + 1], i)
    <3>1. CASE i = m + 1
      <4>1. i > m
        BY <1>1, <3>1
      <4> HIDE DEF places, m, n
      <4> QED  BY <1>3, <3>1, <4>1
    <3>2. CASE i # m + 1
      <4>1. i \in 1..m /\ ~(i > m) /\ i + 1 \in 1..(m + 1)
        BY <1>1, <3>2
      <4>2. places[i + 1] = Places(pat, text, i + 1)
        BY <4>1
      <4> HIDE DEF places
      <4> QED  BY <1>2, <4>1, <4>2
    <3> QED  BY <3>1, <3>2
  <2> QED  BY <2>1
<1>5. matches = Def(matches)
  <2> HIDE DEF Def, places
  <2> QED  BY <1>4
<1>6. Glob(pat, text) <=> 1 \in matches[1]
  BY DEF Glob
<1>7. \A i \in 1..(m + 1) : matches[i] = IF i > m THEN {n + 1} ELSE Step(matches[i + 1], i)
  <2> HIDE DEF matches, Step, m, n
  <2> QED  BY <1>5
<1> HIDE DEF matches, Step, m, n
<1>8. 0..m \subseteq {d \in 0..m : matches[m + 1 - d] = Places(pat, text, m + 1 - d)}
  <2> DEFINE Right == {d \in 0..m : matches[m + 1 - d] = Places(pat, text, m + 1 - d)}
  <2>1. ASSUME NEW d \in 0..m, \A e \in 0..m : e < d => e \in Right
        PROVE  d \in Right
    <3>1. CASE d = 0
      <4>1. m + 1 - d = m + 1 /\ m + 1 \in 1..(m + 1) /\ m + 1 > m
        BY <1>1, <3>1
      <4> QED  BY <1>3, <1>7, <4>1
    <3>2. CASE d # 0
      <4> DEFINE i == m + 1 - d
      <4>1. i \in 1..m /\ i \in 1..(m + 1) /\ ~(i > m)
        BY <1>1, <3>2
      <4>2. d - 1 \in 0..m /\ d - 1 < d /\ m + 1 - (d - 1) = i + 1
        BY <1>1, <3>2
      <4>3. matches[i + 1] = Places(pat, text, i + 1)
        BY <2>1, <4>2
      <4> HIDE DEF i
      <4>4. matches[i] = Places(pat, text, i)
        BY <1>2, <1>7, <4>1, <4>3
      <4> QED  BY <4>4 DEF i
    <3> QED  BY <3>1, <3>2
  <2> HIDE DEF Right
  <2>2. 0..m \subseteq Right
    BY <1>1, <2>1, SegmentInduction
  <2> QED  BY <2>2 DEF Right
<1>9. matches[1] = Places(pat, text, 1)
  <2>1. m \in 0..m /\ m + 1 - m = 1
    BY <1>1
  <2> QED  BY <1>8, <2>1
<1> QED  BY <1>6, <1>9

\* A cut as CutsInto has it, by the last letters of the pieces, is one as Places has it.
LEMMA CutsArePlaces ==
    ASSUME NEW A, NEW pat \in Seq(A), NEW text \in Seq(A), pat # <<>>
    PROVE  CutsInto(pat, text) <=> 1 \in Places(pat, text, 1)
<1> DEFINE m == Len(pat)
           n == Len(text)
           End(cut, k) == IF k = 0 THEN 0 ELSE IF k = m THEN n ELSE cut[k]
           Cutting(cut) ==
               \A k \in 1..m : /\ End(cut, k - 1) <= End(cut, k)
                               /\ Fits(pat[k], SubSeq(text, End(cut, k - 1) + 1, End(cut, k)))
<1>1. m \in Nat \ {0} /\ n \in Nat /\ 1 - 1 = 0 /\ 1 \in 1..(n + 1)
  OBVIOUS
<1>2. ASSUME NEW cut \in [1..(m - 1) -> 0..n], Cutting(cut)
      PROVE  1 \in Places(pat, text, 1)
  <2> DEFINE ends == [k \in 0..m |-> End(cut, k) + 1]
  <2>1. \A k \in 0..m : End(cut, k) \in 0..n
    <3>1. \A k \in 0..m : k # 0 /\ k # m => k \in 1..(m - 1) /\ cut[k] \in 0..n
      <4>1. \A k \in 1..(m - 1) : cut[k] \in 0..n
        OBVIOUS
      <4> QED  BY <1>1, <4>1
    <3>2. 0 \in 0..n /\ n \in 0..n
      BY <1>1
    <3> HIDE DEF m, n
    <3> QED  BY <3>1, <3>2
  <2>2. ends \in [0..m -> 1..(n + 1)] /\ ends[0] = 1 /\ ends[m] = n + 1
    BY <1>1, <2>1
  <2>3. ASSUME NEW k \in 1..m
        PROVE  ends[k - 1] <= ends[k] /\ FitsAt(pat[k], text, ends[k - 1], ends[k])
    <3> DEFINE a == End(cut, k - 1)
               b == End(cut, k)
    <3>1. k - 1 \in 0..m /\ k \in 0..m /\ a \in 0..n /\ b \in 0..n
      BY <1>1, <2>1
    <3>2. a <= b /\ Fits(pat[k], SubSeq(text, a + 1, b))
      BY <1>2
    <3>3. ends[k - 1] = a + 1 /\ ends[k] = b + 1
      BY <3>1
    <3> HIDE DEF a, b, ends
    <3>4. a + 1 \in 1..(n + 1) /\ b + 1 \in (a + 1)..(n + 1) /\ (b + 1) - 1 = b
      BY <1>1, <3>1, <3>2
    <3>5. FitsAt(pat[k], text, a + 1, b + 1)
      <4>1. Fits(pat[k], SubSeq(text, a + 1, (b + 1) - 1)) <=> FitsAt(pat[k], text, a + 1, b + 1)
        BY <3>4, PieceFits
      <4> QED  BY <3>2, <3>4, <4>1
    <3> QED  BY <3>1, <3>2, <3>3, <3>5
  <2>4. Cuts(pat, text, 1, ends)
    <3> HIDE DEF ends
    <3> QED  BY <2>2, <2>3 DEF Cuts
  <2> HIDE DEF ends
  <2> QED  BY <1>1, <2>2, <2>4 DEF Places
<1>3. ASSUME NEW ends \in [0..m -> 1..(n + 1)], ends[0] = 1, Cuts(pat, text, 1, ends)
      PROVE  \E cut \in [1..(m - 1) -> 0..n] : Cutting(cut)
  <2> DEFINE cut == [k \in 1..(m - 1) |-> ends[k] - 1]
  <2>1. \A k \in 0..m : ends[k] \in 1..(n + 1)
    BY <1>1
  <2>2. cut \in [1..(m - 1) -> 0..n]
    BY <1>1, <2>1
  <2>3. \A k \in 0..m : End(cut, k) = ends[k] - 1
    <3>1. ends[m] = n + 1
      BY <1>3 DEF Cuts
    <3>2. \A k \in 0..m : k # 0 /\ k # m => k \in 1..(m - 1)
      BY <1>1
    <3> QED  BY <1>1, <1>3, <3>1, <3>2
  <2>4. ASSUME NEW k \in 1..m
        PROVE  /\ End(cut, k - 1) <= End(cut, k)
               /\ Fits(pat[k], SubSeq(text, End(cut, k - 1) + 1, End(cut, k)))
    <3> DEFINE a == ends[k - 1]
               b == ends[k]
    <3>1. k - 1 \in 0..m /\ k \in 0..m /\ a \in 1..(n + 1) /\ b \in 1..(n + 1)
      BY <1>1, <2>1
    <3>2. a <= b /\ FitsAt(pat[k], text, a, b)
      BY <1>3 DEF Cuts
    <3>3. End(cut, k - 1) = a - 1 /\ End(cut, k) = b - 1
      BY <2>3, <3>1
    <3> HIDE DEF a, b, End, cut
    <3>4. b \in a..(n + 1) /\ (a - 1) + 1 = a /\ a - 1 <= b - 1
      BY <1>1, <3>1, <3>2
    <3>5. Fits(pat[k], SubSeq(text, a, b - 1))
      BY <3>1, <3>2, <3>4, PieceFits
    <3> QED  BY <3>3, <3>4, <3>5
  <2> HIDE DEF cut, End
  <2> QED  BY <2>2, <2>4
<1>4. CutsInto(pat, text) <=> \E cut \in [1..(m - 1) -> 0..n] : Cutting(cut)
  BY DEF CutsInto
<1>5. 1 \in Places(pat, text, 1) <=>
          \E ends \in [0..m -> 1..(n + 1)] : ends[0] = 1 /\ Cuts(pat, text, 1, ends)
  BY <1>1 DEF Places
<1> HIDE DEF Cutting
<1> QED  BY <1>2, <1>3, <1>4, <1>5

\* However many stars the pattern has, the matcher's backtracking misses no way to cut
\* the text and invents none (git.rs:2205-2242).
THEOREM GlobMatchesCuts == question = NoQuestion \/ Ask => GlobAgrees
<1> SUFFICES ASSUME Ask, Asks("pattern") PROVE GlobAgrees
  BY DEF GlobAgrees, Asks, NoQuestion
<1> DEFINE pat == question.pattern
           path == question.path
           A == Letters \cup {"*", "?", Slash}
<1>1. pat \in Patterns /\ path \in FilePaths(MaxPath)
  BY DEF Ask, Asks
<1>2. pat \in Seq(A) /\ pat # <<>> /\ path \in Seq(A)
  <2>1. PICK n \in 1..MaxPattern : pat \in [1..n -> A]
    BY <1>1 DEF Patterns, Texts
  <2>2. PICK l \in 1..MaxPath : path \in [1..l -> Letters \cup {Slash}]
    BY <1>1 DEF FilePaths, Texts
  <2>3. path \in [1..l -> A]
    BY <2>2
  <2> HIDE DEF pat, path, A
  <2>4. pat \in Seq(A) /\ Len(pat) = n
    BY <2>1
  <2>5. path \in Seq(A)
    BY <2>3
  <2> QED  BY <2>4, <2>5
<1> HIDE DEF A
<1>3. Glob(pat, path) <=> CutsInto(pat, path)
  <2> HIDE DEF pat, path
  <2> QED  BY <1>2, GlobFindsPlaces, CutsArePlaces
<1> QED  BY <1>3 DEF GlobAgrees
=============================================================================
