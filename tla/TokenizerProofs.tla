-------------------------- MODULE TokenizerProofs --------------------------
(***************************************************************************)
(* What tokenize does with every text. The loops of its helpers are shown  *)
(* to end where the lexical rules say, by induction over sets of places    *)
(* (LeastNat); from this every turn passes one lexeme (OneTurn). A lexeme  *)
(* hangs only on the characters up to its end and on whether the next one  *)
(* continues it, so the lexemes before the cut are those of the text that  *)
(* is left (LexemeCut), and a second reading follows the first (Read).     *)
(***************************************************************************)
EXTENDS Tokenizer, FiniteSetTheorems, SequenceTheorems, WellFoundedInduction, TLAPS

-----------------------------------------------------------------------------
(* Least members and induction *)

\* Every nonempty set of natural numbers has a least member.
LEMMA LeastNat ==
  ASSUME NEW T, T \subseteq Nat, T # {}
  PROVE \E m \in T : \A y \in T : m <= y
<1> DEFINE R == OpToRel(<, Nat)
<1>1. IsWellFoundedOn(R, Nat)
  BY NatLessThanWellFounded, Zenon
<1>2. \A x, y \in Nat : x < y => <<x, y>> \in R
  BY SMT DEF OpToRel
<1> HIDE DEF R
<1>3. PICK x \in T : \A y \in T : ~ (<<y, x>> \in R)
  BY <1>1, WFMin, Zenon
<1>4. ASSUME NEW y \in T PROVE x <= y
  <2>1. x \in Nat /\ y \in Nat OBVIOUS
  <2>2. ~ (y < x) BY <1>2, <1>3, <2>1, Zenon
  <2> QED BY <2>1, <2>2
<1> QED BY <1>4

\* Induction, as a fact about sets.
LEMMA Induct ==
  ASSUME NEW S, 0 \in S, \A m \in Nat : m \in S => m + 1 \in S
  PROVE Nat \subseteq S
<1> SUFFICES ASSUME NEW z \in Nat, z \notin S PROVE FALSE
  OBVIOUS
<1> DEFINE T == {x \in Nat : x \notin S}
<1>1. PICK m \in T : \A y \in T : m <= y
  <2> T \subseteq Nat /\ T # {} OBVIOUS
  <2> HIDE DEF T
  <2> QED BY LeastNat
<1>2. m # 0 /\ m - 1 \in Nat BY <1>1
<1>3. m - 1 \notin T BY <1>1, <1>2
<1> QED BY <1>2, <1>3, <1>1

\* Induction from the end of an interval to its beginning.
LEMMA Backwards ==
  ASSUME NEW m \in Nat, NEW S,
         \A j \in 1 .. m : (\A k \in j + 1 .. m : k \in S) => j \in S
  PROVE  1 .. m \subseteq S
<1> DEFINE T == {x \in Nat : \A k \in 1 .. m : m - x < k => k \in S}
<1>1. 0 \in T  OBVIOUS
<1>2. ASSUME NEW x \in Nat, x \in T  PROVE  x + 1 \in T
  <2> SUFFICES ASSUME NEW k \in 1 .. m, m - (x + 1) < k  PROVE k \in S
    OBVIOUS
  <2>1. \A l \in k + 1 .. m : l \in S
    BY <1>2
  <2> QED BY <2>1
<1> HIDE DEF T
<1>3. Nat \subseteq T
  BY <1>1, <1>2, Induct
<1>4. m \in T  BY <1>3
<1> QED BY <1>4 DEF T

\* Induction from an integer upwards.
LEMMA Forwards ==
  ASSUME NEW a \in Int, NEW S, a \in S,
         \A j \in Int : j >= a /\ j \in S => j + 1 \in S
  PROVE  \A j \in Int : j >= a => j \in S
<1> DEFINE T == {x \in Nat : a + x \in S}
<1>1. 0 \in T  OBVIOUS
<1>2. ASSUME NEW x \in Nat, x \in T  PROVE  x + 1 \in T
  <2>1. a + x \in Int /\ a + x >= a /\ a + x \in S  BY <1>2
  <2>2. (a + x) + 1 \in S  BY <2>1
  <2>3. (a + x) + 1 = a + (x + 1)  OBVIOUS
  <2> QED BY <2>2, <2>3
<1> HIDE DEF T
<1>3. Nat \subseteq T  BY <1>1, <1>2, Induct
<1>4. ASSUME NEW j \in Int, j >= a  PROVE j \in S
  <2>1. j - a \in T  BY <1>3, <1>4
  <2>2. a + (j - a) = j  OBVIOUS
  <2> QED BY <2>1, <2>2 DEF T
<1> QED BY <1>4

\* Min is the least member of a nonempty set of natural numbers.
LEMMA MinIs ==
  ASSUME NEW S, S \subseteq Nat, S # {}
  PROVE  Min(S) \in S /\ \A y \in S : Min(S) <= y
BY LeastNat DEF Min

\* The member that is at most every other is Min.
LEMMA MinOf ==
  ASSUME NEW S, S \subseteq Nat, NEW x \in S, \A y \in S : x <= y
  PROVE  Min(S) = x
<1>1. Min(S) \in S /\ Min(S) <= x  BY MinIs
<1>2. x <= Min(S)  BY <1>1
<1>3. x \in Nat /\ Min(S) \in Nat  BY <1>1
<1> QED BY <1>1, <1>2, <1>3

\* f is defined by loop: it stops at Ends with val, elsewhere it goes on at next.
Loop(f, D, Ends, val, next) ==
  f = [x \in D |-> IF x \in Ends THEN val[x] ELSE f[next[x]]]

\* Each turn of the loop brings it nearer to its end, which is fewer than B turns away.
Shrinks(D, Ends, next, rank, B) ==
  /\ rank \in [D -> Nat] /\ B \in Nat
  /\ \A x \in D : rank[x] < B
  /\ \A x \in D \ Ends : next[x] \in D /\ rank[next[x]] < rank[x]

\* A loop whose turns come nearer to its end defines a function.
LEMMA LoopDefines ==
  ASSUME NEW D, NEW Ends, NEW val, NEW next, NEW rank, NEW B, Shrinks(D, Ends, next, rank, B)
  PROVE  \E f : Loop(f, D, Ends, val, next)
<1> USE DEF Shrinks
<1> DEFINE
      Upto(m) == {x \in D : rank[x] < m}
      Solves(f, m) == f = [x \in Upto(m) |-> IF x \in Ends THEN val[x] ELSE f[next[x]]]
      Solvable(m) == \E f : Solves(f, m)
      S == {m \in Nat : Solvable(m)}
<1>1. 0 \in S
  <2>1. Upto(0) = {}  OBVIOUS
  <2>2. Solves([x \in {} |-> x], 0)  BY <2>1
  <2>3. QED  BY <2>2
<1>2. ASSUME NEW m \in Nat, m \in S  PROVE m + 1 \in S
  <2>1. PICK f : Solves(f, m)  BY <1>2
  <2> DEFINE g == [x \in Upto(m + 1) |->
                     IF x \in Upto(m) THEN f[x]
                     ELSE IF x \in Ends THEN val[x] ELSE f[next[x]]]
  <2>2. \A x \in Upto(m) : g[x] = f[x]  OBVIOUS
  <2>3. ASSUME NEW x \in Upto(m + 1), x \notin Ends  PROVE  next[x] \in Upto(m)
    <3>1. x \in D /\ rank[x] < m + 1 /\ x \in D \ Ends  BY <2>3
    <3>2. PICK y : y = next[x]  OBVIOUS
    <3>3. y \in D /\ rank[y] < rank[x]  BY <3>1, <3>2
    <3>4. rank[y] \in Nat /\ rank[x] \in Nat  BY <3>1, <3>3
    <3>5. rank[y] < m  BY <3>1, <3>3, <3>4
    <3>6. QED  BY <3>2, <3>3, <3>5
  <2>4. ASSUME NEW x \in Upto(m + 1)
        PROVE  g[x] = IF x \in Ends THEN val[x] ELSE g[next[x]]
    <3>1. CASE x \in Upto(m)
      <4>1. g[x] = IF x \in Ends THEN val[x] ELSE f[next[x]]  BY <2>1, <3>1
      <4> HIDE DEF g, Upto
      <4>2. QED  BY <2>2, <2>3, <4>1
    <3>2. CASE x \notin Upto(m)
      <4>1. g[x] = IF x \in Ends THEN val[x] ELSE f[next[x]]  BY <3>2
      <4> HIDE DEF g, Upto
      <4>2. QED  BY <2>2, <2>3, <4>1
    <3>3. QED  BY <3>1, <3>2
  <2>5. Solves(g, m + 1)
    <3> DEFINE h == [x \in Upto(m + 1) |-> IF x \in Ends THEN val[x] ELSE g[next[x]]]
    <3>1. g = [x \in Upto(m + 1) |-> g[x]]  OBVIOUS
    <3> HIDE DEF g, Upto
    <3>2. QED  BY <2>4, <3>1, Zenon
  <2> HIDE DEF g, Solves
  <2>6. Solvable(m + 1)  BY <2>5, Zenon
  <2> HIDE DEF Solvable
  <2>7. QED  BY <2>6
<1> HIDE DEF Solves
<1>3. PICK f : Solves(f, B)
  <2> HIDE DEF Solvable
  <2>1. Nat \subseteq S  BY <1>1, <1>2, Induct
  <2>2. B \in S  BY <2>1
  <2>3. Solvable(B)  BY <2>2
  <2>4. QED  BY <2>3 DEF Solvable
<1>4. Upto(B) = D  OBVIOUS
<1>5. QED
  <2> HIDE DEF Upto
  <2>1. QED  BY <1>3, <1>4 DEF Solves, Loop

\* The loop of skipQuoted.
QuotedLoop(f, q) ==
  f = [j \in 1 .. n + 1 |->
         IF j > n THEN 0
         ELSE IF text[j] # q THEN f[j + 1]
         ELSE IF Is(j + 1, q) THEN f[j + 2]
         ELSE j + 1]

\* The function in skipQuoted satisfies the equation of its loop.
LEMMA SkipQuotedLoops ==
  ASSUME n \in Nat, NEW q
  PROVE  \E f : QuotedLoop(f, q) /\ \A s : skipQuoted(s, q) = f[s]
<1> DEFINE P(f) == QuotedLoop(f, q)
<1>1. \E f : P(f)
  <2> DEFINE D == 1 .. n + 1
             Ends == {j \in D : j > n \/ (text[j] = q /\ ~Is(j + 1, q))}
             val == [j \in D |-> IF j > n THEN 0 ELSE j + 1]
             next == [j \in D |-> IF text[j] # q THEN j + 1 ELSE j + 2]
             rank == [j \in D |-> n + 1 - j]
  <2>1. Shrinks(D, Ends, next, rank, n + 1)
    BY DEF Is, Shrinks
  <2>2. \A f : \A j \in D :
          (IF j \in Ends THEN val[j] ELSE f[next[j]])
            = (IF j > n THEN 0
               ELSE IF text[j] # q THEN f[j + 1]
               ELSE IF Is(j + 1, q) THEN f[j + 2]
               ELSE j + 1)
    OBVIOUS
  <2> HIDE DEF D, Ends, val, next, rank
  <2>3. PICK f : Loop(f, D, Ends, val, next)
    BY <2>1, LoopDefines, Zenon
  <2>4. [j \in D |-> IF j \in Ends THEN val[j] ELSE f[next[j]]]
          = [j \in D |-> IF j > n THEN 0
                         ELSE IF text[j] # q THEN f[j + 1]
                         ELSE IF Is(j + 1, q) THEN f[j + 2]
                         ELSE j + 1]
    BY <2>2, Zenon
  <2>5. QED  BY <2>3, <2>4 DEF D, Loop, QuotedLoop
<1>2. P(CHOOSE f : P(f))  BY <1>1, Zenon
<1>3. ASSUME NEW s  PROVE skipQuoted(s, q) = (CHOOSE f : P(f))[s]
  BY DEF skipQuoted, QuotedLoop
<1>4. QED  BY <1>2, <1>3, Zenon

-----------------------------------------------------------------------------
(* Literals and quoted identifiers *)

\* Counting from j on adds one to counting from j + 1 on where j counts.
LEMMA CountFrom ==
  ASSUME NEW j \in Int, NEW b \in Int, NEW c
  PROVE  /\ Count(j, b, c) \in Nat
         /\ j <= b => Count(j, b, c) = Count(j + 1, b, c) + (IF text[j] = c THEN 1 ELSE 0)
         /\ j > b => Count(j, b, c) = 0
<1> DEFINE S(k) == {l \in k .. b : text[l] = c}
<1>1. ASSUME NEW k \in Int  PROVE IsFiniteSet(S(k)) /\ Cardinality(S(k)) \in Nat
  <2>1. IsFiniteSet(k .. b)  BY FS_Interval
  <2>2. S(k) \in SUBSET (k .. b)  OBVIOUS
  <2> HIDE DEF S
  <2>3. IsFiniteSet(S(k))  BY <2>1, <2>2, FS_Subset
  <2>4. QED  BY <2>3, FS_CardinalityType
<1>2. ASSUME j <= b, text[j] = c  PROVE Cardinality(S(j)) = Cardinality(S(j + 1)) + 1
  <2>1. S(j) = S(j + 1) \cup {j} /\ j \notin S(j + 1)  BY <1>2
  <2>2. IsFiniteSet(S(j + 1))  BY <1>1
  <2> HIDE DEF S
  <2>3. QED  BY <2>1, <2>2, FS_AddElement
<1>3. ASSUME text[j] # c  PROVE S(j) = S(j + 1)
  BY <1>3
<1>4. ASSUME j > b  PROVE Cardinality(S(j)) = 0
  <2>1. S(j) = {}  BY <1>4
  <2>2. QED  BY <2>1, FS_EmptySet
<1>5. \A k : Count(k, b, c) = Cardinality(S(k))  BY DEF Count
<1> HIDE DEF S
<1>6. j + 1 \in Int  OBVIOUS
<1>7. QED  BY <1>1, <1>2, <1>3, <1>4, <1>5, <1>6

\* Where a literal whose characters begin at s may end.
Closing(s, q) ==
  {b \in s .. n : text[b] = q /\ ~Is(b + 1, q) /\ Count(s, b, q) % 2 = 1}

\* What a helper returns that looks for the least of S.
After(S) == IF S = {} THEN 0 ELSE Min(S) + 1

\* skipQuoted finds the first place where a literal may end.
LEMMA SkipQuotedFinds ==
  ASSUME n \in Nat, NEW q, NEW s \in 1 .. n + 1
  PROVE  skipQuoted(s, q) = After(Closing(s, q))
<1>1. PICK f : QuotedLoop(f, q) /\ \A t : skipQuoted(t, q) = f[t]
  BY SkipQuotedLoops
<1> DEFINE S == {j \in 1 .. n + 1 : f[j] = After(Closing(j, q))}
<1>2. ASSUME NEW j \in 1 .. n + 1, \A k \in j + 1 .. n + 1 : k \in S
      PROVE  j \in S
  <2>1. f[j] = IF j > n THEN 0
               ELSE IF text[j] # q THEN f[j + 1]
               ELSE IF Is(j + 1, q) THEN f[j + 2]
               ELSE j + 1
    BY <1>1 DEF QuotedLoop
  <2>2. CASE j > n
    <3>1. Closing(j, q) = {}  BY <2>2 DEF Closing
    <3>2. QED  BY <2>1, <2>2, <3>1 DEF After
  <2>3. CASE j <= n /\ text[j] # q
    <3>1. Closing(j, q) = Closing(j + 1, q)
      <4>1. \A b \in j .. n : Count(j, b, q) = Count(j + 1, b, q) /\ Count(j, b, q) \in Nat
        BY <2>3, CountFrom
      <4>2. QED  BY <2>3, <4>1 DEF Closing
    <3>2. j + 1 \in S  BY <1>2, <2>3
    <3>3. QED  BY <2>1, <2>3, <3>1, <3>2
  <2>4. CASE j <= n /\ text[j] = q /\ Is(j + 1, q)
    <3>1. j + 1 <= n /\ text[j + 1] = q  BY <2>4 DEF Is
    <3>2. ASSUME NEW b \in j + 1 .. n
          PROVE  Count(j, b, q) = Count(j + 2, b, q) + 2 /\ Count(j + 2, b, q) \in Nat
      <4>1. Count(j, b, q) = Count(j + 1, b, q) + 1  BY <2>4, CountFrom
      <4>2. Count(j + 1, b, q) = Count((j + 1) + 1, b, q) + 1  BY <3>1, CountFrom
      <4>3. (j + 1) + 1 = j + 2 /\ Count(j + 2, b, q) \in Nat  BY CountFrom
      <4>4. QED  BY <4>1, <4>2, <4>3
    <3>3. Count(j, j + 1, q) % 2 = 0
      <4>1. Count(j + 2, j + 1, q) = 0  BY CountFrom
      <4>2. QED  BY <3>1, <3>2, <4>1
    <3>4. \A b \in j + 2 .. n : Count(j, b, q) % 2 = Count(j + 2, b, q) % 2
      BY <3>2
    <3>5. Closing(j, q) = Closing(j + 2, q)
      BY <2>4, <3>1, <3>3, <3>4 DEF Closing
    <3>6. j + 2 \in S  BY <1>2, <3>1
    <3>7. QED  BY <2>1, <2>4, <3>5, <3>6
  <2>5. CASE j <= n /\ text[j] = q /\ ~Is(j + 1, q)
    <3>1. Count(j, j, q) = 1
      <4>1. Count(j, j, q) = Count(j + 1, j, q) + 1  BY <2>5, CountFrom
      <4>2. Count(j + 1, j, q) = 0  BY CountFrom
      <4>3. QED  BY <4>1, <4>2
    <3>2. j \in Closing(j, q) /\ Closing(j, q) \subseteq Nat /\ \A b \in Closing(j, q) : j <= b
      BY <2>5, <3>1 DEF Closing
    <3>3. Min(Closing(j, q)) = j  BY <3>2, MinOf
    <3>4. QED  BY <2>1, <2>5, <3>2, <3>3 DEF After
  <2>6. QED  BY <2>2, <2>3, <2>4, <2>5
<1> HIDE DEF S
<1>3. 1 .. n + 1 \subseteq S
  <2>1. PICK m : m = n + 1  OBVIOUS
  <2>2. m \in Nat  BY <2>1
  <2>3. \A j \in 1 .. m : (\A k \in j + 1 .. m : k \in S) => j \in S  BY <1>2, <2>1
  <2>4. 1 .. m \subseteq S  BY <2>2, <2>3, Backwards
  <2>5. QED  BY <2>1, <2>4
<1>4. QED  BY <1>1, <1>3 DEF S

-----------------------------------------------------------------------------
(* E literals *)

\* The loop of skipEscapedString.
EscapedLoop(f) ==
  f = [j \in 1 .. n + 2 |->
         IF j > n THEN 0
         ELSE IF text[j] = "\\" THEN f[j + 2]
         ELSE IF text[j] = "'" THEN IF Is(j + 1, "'") THEN f[j + 2] ELSE j + 1
         ELSE f[j + 1]]

\* The function in skipEscapedString satisfies the equation of its loop.
LEMMA SkipEscapedLoops ==
  ASSUME n \in Nat
  PROVE  \E f : EscapedLoop(f) /\ \A s : skipEscapedString(s) = f[s]
<1> DEFINE P(f) == EscapedLoop(f)
<1>1. \E f : P(f)
  <2> DEFINE D == 1 .. n + 2
             Ends == {j \in D : j > n \/ (text[j] = "'" /\ ~Is(j + 1, "'"))}
             val == [j \in D |-> IF j > n THEN 0 ELSE j + 1]
             next == [j \in D |-> IF text[j] \in {"\\", "'"} THEN j + 2 ELSE j + 1]
             rank == [j \in D |-> n + 2 - j]
  <2>1. Shrinks(D, Ends, next, rank, n + 2)
    BY DEF Shrinks
  <2>2. \A f : \A j \in D :
          (IF j \in Ends THEN val[j] ELSE f[next[j]])
            = (IF j > n THEN 0
               ELSE IF text[j] = "\\" THEN f[j + 2]
               ELSE IF text[j] = "'" THEN IF Is(j + 1, "'") THEN f[j + 2] ELSE j + 1
               ELSE f[j + 1])
    OBVIOUS
  <2> HIDE DEF D, Ends, val, next, rank
  <2>3. PICK f : Loop(f, D, Ends, val, next)
    BY <2>1, LoopDefines, Zenon
  <2>4. [j \in D |-> IF j \in Ends THEN val[j] ELSE f[next[j]]]
          = [j \in D |-> IF j > n THEN 0
                         ELSE IF text[j] = "\\" THEN f[j + 2]
                         ELSE IF text[j] = "'" THEN IF Is(j + 1, "'") THEN f[j + 2] ELSE j + 1
                         ELSE f[j + 1]]
    BY <2>2, Zenon
  <2>5. QED  BY <2>3, <2>4 DEF D, Loop, EscapedLoop
<1>2. P(CHOOSE f : P(f))  BY <1>1, Zenon
<1>3. ASSUME NEW s  PROVE skipEscapedString(s) = (CHOOSE f : P(f))[s]
  BY DEF skipEscapedString, EscapedLoop
<1>4. QED  BY <1>2, <1>3, Zenon

\* Whether a character is escaped depends on the one before it.
LEMMA EscapedStep ==
  ASSUME NEW a \in Int, NEW b \in Int, b > a
  PROVE  Escaped(a, b) <=> b > a + 1 /\ text[b - 1] = "\\" /\ ~Escaped(a, b - 1)
<1> DEFINE Run(c) == {k \in 1 .. c - a - 1 : \A j \in c - k .. c - 1 : text[j] = "\\"}
<1>1. ASSUME NEW c \in Int  PROVE IsFiniteSet(Run(c)) /\ Cardinality(Run(c)) \in Nat
  <2>1. IsFiniteSet(1 .. c - a - 1)  BY FS_Interval
  <2>2. Run(c) \in SUBSET (1 .. c - a - 1)  OBVIOUS
  <2> HIDE DEF Run
  <2>3. IsFiniteSet(Run(c))  BY <2>1, <2>2, FS_Subset
  <2>4. QED  BY <2>3, FS_CardinalityType
<1>2. \A c : Escaped(a, c) <=> Cardinality(Run(c)) % 2 = 1
  BY DEF Escaped
<1>3. CASE b = a + 1 \/ text[b - 1] # "\\"
  <2>1. Run(b) = {}  BY <1>3
  <2>2. Cardinality(Run(b)) = 0  BY <2>1, FS_EmptySet
  <2>3. QED  BY <1>2, <1>3, <2>2
<1>4. CASE b > a + 1 /\ text[b - 1] = "\\"
  <2> DEFINE F == [k \in Run(b - 1) |-> k + 1]
             T == {k + 1 : k \in Run(b - 1)}
  <2>1. Run(b) = T \cup {1}
    <3>1. ASSUME NEW k \in Run(b), k # 1  PROVE k \in T
      <4>1. k - 1 \in 1 .. (b - 1) - a - 1  BY <3>1
      <4>2. \A j \in (b - 1) - (k - 1) .. (b - 1) - 1 : text[j] = "\\"  BY <3>1
      <4>3. k - 1 \in Run(b - 1)  BY <4>1, <4>2
      <4>4. k = (k - 1) + 1  BY <4>1
      <4> HIDE DEF Run
      <4>5. QED  BY <4>3, <4>4
    <3>2. ASSUME NEW k \in Run(b - 1)  PROVE k + 1 \in Run(b)
      <4>1. \A j \in b - (k + 1) .. b - 1 : j = b - 1 \/ j \in (b - 1) - k .. (b - 1) - 1  OBVIOUS
      <4>2. QED  BY <1>4, <4>1
    <3>3. 1 \in Run(b)  BY <1>4
    <3> HIDE DEF Run
    <3>4. QED  BY <3>1, <3>2, <3>3
  <2>2. 1 \notin T  OBVIOUS
  <2>3. \A k \in Run(b - 1) : k \in Int  OBVIOUS
  <2> HIDE DEF Run
  <2>4. IsFiniteSet(Run(b - 1)) /\ Cardinality(Run(b - 1)) \in Nat  BY <1>1
  <2>5. F \in Bijection(Run(b - 1), T)
    BY <2>3 DEF Bijection, Injection, Surjection, IsInjective
  <2>6. ExistsBijection(Run(b - 1), T)  BY <2>5 DEF ExistsBijection
  <2> HIDE DEF T, F
  <2>7. IsFiniteSet(T) /\ Cardinality(T) = Cardinality(Run(b - 1))  BY <2>4, <2>6, FS_Bijection
  <2>8. Cardinality(Run(b)) = Cardinality(Run(b - 1)) + 1  BY <2>1, <2>2, <2>7, FS_AddElement
  <2>9. QED  BY <1>2, <1>4, <2>4, <2>8
<1>5. QED  BY <1>3, <1>4

\* Characters before s do not tell whether one behind s is escaped, when s is not
\* escaped itself: its backslash, or the absence of one, is what counts.
LEMMA EscapedLater ==
  ASSUME NEW a \in Int, NEW s \in Int, s >= a, ~Escaped(a, s + 1)
  PROVE  \A b \in Int : b > s => (Escaped(a, b) <=> Escaped(s, b))
<1> DEFINE S == {b \in Int : Escaped(a, b) <=> Escaped(s, b)}
<1>1. s + 1 \in S  BY EscapedStep
<1>2. ASSUME NEW b \in Int, b >= s + 1, b \in S  PROVE b + 1 \in S
  <2>1. Escaped(a, b + 1) <=> text[(b + 1) - 1] = "\\" /\ ~Escaped(a, (b + 1) - 1)
    BY <1>2, EscapedStep
  <2>2. Escaped(s, b + 1) <=> text[(b + 1) - 1] = "\\" /\ ~Escaped(s, (b + 1) - 1)
    BY <1>2, EscapedStep
  <2>3. (b + 1) - 1 = b  OBVIOUS
  <2>4. QED  BY <1>2, <2>1, <2>2, <2>3
<1> HIDE DEF S
<1>3. \A b \in Int : b >= s + 1 => b \in S  BY <1>1, <1>2, Forwards
<1>4. QED  BY <1>3 DEF S

\* The quotes of an E literal whose characters begin at s, as far as b.
Quotes(s, b) == {j \in s .. b : text[j] = "'" /\ ~Escaped(s - 1, j)}

\* Where an E literal whose characters begin at s may end.
ClosingE(s) ==
  {b \in s .. n : /\ text[b] = "'" /\ ~Escaped(s - 1, b) /\ ~Is(b + 1, "'")
                  /\ Cardinality(Quotes(s, b)) % 2 = 1}

\* A text has finitely many quotes that count.
LEMMA QuotesFinite ==
  ASSUME NEW s \in Int, NEW b \in Int
  PROVE  IsFiniteSet(Quotes(s, b)) /\ Cardinality(Quotes(s, b)) \in Nat
<1>1. IsFiniteSet(s .. b)  BY FS_Interval
<1>2. Quotes(s, b) \in SUBSET (s .. b)  BY DEF Quotes
<1>3. IsFiniteSet(Quotes(s, b))  BY <1>1, <1>2, FS_Subset
<1>4. QED  BY <1>3, FS_CardinalityType

\* skipEscapedString finds the first place where an E literal may end.
LEMMA SkipEscapedFinds ==
  ASSUME n \in Nat, NEW s \in 1 .. n + 2
  PROVE  skipEscapedString(s) = After(ClosingE(s))
<1>1. PICK f : EscapedLoop(f) /\ \A t : skipEscapedString(t) = f[t]
  BY SkipEscapedLoops
<1> DEFINE S == {j \in 1 .. n + 2 : f[j] = After(ClosingE(j))}
<1>2. ASSUME NEW j \in 1 .. n + 2, \A k \in j + 1 .. n + 2 : k \in S
      PROVE  j \in S
  <2>1. f[j] = IF j > n THEN 0
               ELSE IF text[j] = "\\" THEN f[j + 2]
               ELSE IF text[j] = "'" THEN IF Is(j + 1, "'") THEN f[j + 2] ELSE j + 1
               ELSE f[j + 1]
    BY <1>1 DEF EscapedLoop
  <2>2. ~Escaped(j - 1, j)  BY EscapedStep
  <2>3. Escaped(j - 1, j + 1) <=> text[j] = "\\"
    <3>1. (j + 1) - 1 = j  OBVIOUS
    <3>2. Escaped(j - 1, j + 1) <=> text[(j + 1) - 1] = "\\" /\ ~Escaped(j - 1, (j + 1) - 1)
      BY EscapedStep
    <3>3. QED  BY <2>2, <3>1, <3>2
  <2>4. Escaped(j - 1, j + 2) <=> text[j + 1] = "\\" /\ ~Escaped(j - 1, j + 1)
    <3>1. (j + 2) - 1 = j + 1  OBVIOUS
    <3>2. Escaped(j - 1, j + 2) <=> text[(j + 2) - 1] = "\\" /\ ~Escaped(j - 1, (j + 2) - 1)
      BY EscapedStep
    <3>3. QED  BY <3>1, <3>2
  <2>5. CASE j > n
    <3>1. ClosingE(j) = {}  BY <2>5 DEF ClosingE
    <3>2. QED  BY <2>1, <2>5, <3>1 DEF After
  <2>6. CASE j <= n /\ text[j] = "\\"
    <3>1. \A b \in Int : b > j + 1 => (Escaped(j - 1, b) <=> Escaped(j + 1, b))
      <4>1. ~Escaped(j - 1, (j + 1) + 1)  BY <2>3, <2>4, <2>6
      <4>2. QED  BY <4>1, EscapedLater
    <3>2. (j + 2) - 1 = j + 1  OBVIOUS
    <3>3. \A b \in Int : Quotes(j, b) = Quotes(j + 2, b)
      BY <2>3, <2>6, <3>1, <3>2 DEF Quotes
    <3>4. ClosingE(j) = ClosingE(j + 2)
      BY <2>3, <2>6, <3>1, <3>2, <3>3 DEF ClosingE
    <3>5. j + 2 \in S  BY <1>2, <2>6
    <3>6. QED  BY <2>1, <2>6, <3>4, <3>5
  <2>7. CASE j <= n /\ text[j] = "'" /\ Is(j + 1, "'")
    <3>1. j + 1 <= n /\ text[j + 1] = "'"  BY <2>7 DEF Is
    <3>2. \A b \in Int : b > j + 1 => (Escaped(j - 1, b) <=> Escaped(j + 1, b))
      <4>1. ~Escaped(j - 1, (j + 1) + 1)  BY <2>4, <3>1
      <4>2. QED  BY <4>1, EscapedLater
    <3>3. (j + 2) - 1 = j + 1  OBVIOUS
    <3>4. ASSUME NEW b \in j + 1 .. n
          PROVE  /\ Cardinality(Quotes(j, b)) = Cardinality(Quotes(j + 2, b)) + 2
                 /\ Cardinality(Quotes(j + 2, b)) \in Nat
      <4>1. PICK Q : Q = Quotes(j + 2, b)  OBVIOUS
      <4>2. Quotes(j, b) = (Q \cup {j}) \cup {j + 1} /\ j \notin Q /\ j + 1 \notin Q
        BY <2>2, <2>3, <2>7, <3>1, <3>2, <3>3, <4>1 DEF Quotes
      <4>3. IsFiniteSet(Q) /\ Cardinality(Q) \in Nat  BY <4>1, QuotesFinite
      <4>4. IsFiniteSet(Q \cup {j}) /\ Cardinality(Q \cup {j}) = Cardinality(Q) + 1
        BY <4>2, <4>3, FS_AddElement
      <4>5. j + 1 \notin Q \cup {j}  BY <4>2
      <4>6. Cardinality((Q \cup {j}) \cup {j + 1}) = Cardinality(Q \cup {j}) + 1
        BY <4>4, <4>5, FS_AddElement
      <4>7. QED  BY <4>1, <4>2, <4>3, <4>4, <4>6
    <3>5. Cardinality(Quotes(j, j + 1)) % 2 = 0
      <4>1. Quotes(j + 2, j + 1) = {}  BY DEF Quotes
      <4>2. Cardinality(Quotes(j + 2, j + 1)) = 0  BY <4>1, FS_EmptySet
      <4>3. QED  BY <3>1, <3>4, <4>2
    <3>6. \A b \in j + 2 .. n : Cardinality(Quotes(j, b)) % 2 = Cardinality(Quotes(j + 2, b)) % 2
      BY <3>4
    <3>7. ClosingE(j) = ClosingE(j + 2)
      BY <2>7, <3>1, <3>2, <3>3, <3>5, <3>6 DEF ClosingE
    <3>8. j + 2 \in S  BY <1>2, <3>1
    <3>9. QED  BY <2>1, <2>7, <3>7, <3>8
  <2>8. CASE j <= n /\ text[j] = "'" /\ ~Is(j + 1, "'")
    <3>1. Quotes(j, j) = {j}  BY <2>2, <2>8 DEF Quotes
    <3>2. Cardinality(Quotes(j, j)) = 1  BY <3>1, FS_Singleton
    <3>3. j \in ClosingE(j) /\ ClosingE(j) \subseteq Nat /\ \A b \in ClosingE(j) : j <= b
      BY <2>2, <2>8, <3>2 DEF ClosingE
    <3>4. Min(ClosingE(j)) = j  BY <3>3, MinOf
    <3>5. QED  BY <2>1, <2>8, <3>3, <3>4 DEF After
  <2>9. CASE j <= n /\ text[j] \notin {"'", "\\"}
    <3>1. \A b \in Int : b > j => (Escaped(j - 1, b) <=> Escaped(j, b))
      BY <2>3, <2>9, EscapedLater
    <3>2. (j + 1) - 1 = j  OBVIOUS
    <3>3. \A b \in Int : Quotes(j, b) = Quotes(j + 1, b)
      BY <2>9, <3>1, <3>2 DEF Quotes
    <3>4. ClosingE(j) = ClosingE(j + 1)
      BY <2>9, <3>1, <3>2, <3>3 DEF ClosingE
    <3>5. j + 1 \in S  BY <1>2, <2>9
    <3>6. QED  BY <2>1, <2>9, <3>4, <3>5
  <2>10. QED  BY <2>5, <2>6, <2>7, <2>8, <2>9
<1> HIDE DEF S
<1>3. 1 .. n + 2 \subseteq S
  <2>1. PICK m : m = n + 2  OBVIOUS
  <2>2. m \in Nat  BY <2>1
  <2>3. \A j \in 1 .. m : (\A k \in j + 1 .. m : k \in S) => j \in S  BY <1>2, <2>1
  <2>4. 1 .. m \subseteq S  BY <2>2, <2>3, Backwards
  <2>5. QED  BY <2>1, <2>4
<1>4. QED  BY <1>1, <1>3 DEF S

-----------------------------------------------------------------------------
(* Block comments *)

Opens(j) == text[j] = "/" /\ text[j + 1] = "*"
Closes(j) == text[j] = "*" /\ text[j + 1] = "/"

\* The loop of skipBlockComment.
CommentLoop(f) ==
  f = [x \in (1 .. n + 1) \X Int |->
         IF x[1] + 1 > n THEN 0
         ELSE IF Opens(x[1]) THEN f[<<x[1] + 2, x[2] + 1>>]
         ELSE IF Closes(x[1]) THEN IF x[2] = 1 THEN x[1] + 2 ELSE f[<<x[1] + 2, x[2] - 1>>]
         ELSE f[<<x[1] + 1, x[2]>>]]

\* The function in skipBlockComment satisfies the equation of its loop.
LEMMA SkipBlockCommentLoops ==
  ASSUME n \in Nat
  PROVE  \E f : CommentLoop(f) /\ \A s : skipBlockComment(s) = f[<<s, 0>>]
<1> DEFINE P(f) == CommentLoop(f)
<1>1. \E f : P(f)
  <2> DEFINE D == (1 .. n + 1) \X Int
             Ends == {x \in D : \/ x[1] + 1 > n
                                \/ ~Opens(x[1]) /\ Closes(x[1]) /\ x[2] = 1}
             val == [x \in D |-> IF x[1] + 1 > n THEN 0 ELSE x[1] + 2]
             next == [x \in D |-> IF Opens(x[1]) THEN <<x[1] + 2, x[2] + 1>>
                                  ELSE IF Closes(x[1]) THEN <<x[1] + 2, x[2] - 1>>
                                  ELSE <<x[1] + 1, x[2]>>]
             rank == [x \in D |-> n + 1 - x[1]]
  <2>1. Shrinks(D, Ends, next, rank, n + 1)
    <3>1. ASSUME NEW x \in D \ Ends  PROVE next[x] \in D /\ rank[next[x]] < rank[x]
      OBVIOUS
    <3>2. rank \in [D -> Nat] /\ \A x \in D : rank[x] < n + 1
      OBVIOUS
    <3> HIDE DEF D, Ends, next, rank
    <3>3. QED  BY <3>1, <3>2 DEF Shrinks
  <2>2. \A f : \A x \in D :
          (IF x \in Ends THEN val[x] ELSE f[next[x]])
            = (IF x[1] + 1 > n THEN 0
               ELSE IF Opens(x[1]) THEN f[<<x[1] + 2, x[2] + 1>>]
               ELSE IF Closes(x[1]) THEN IF x[2] = 1 THEN x[1] + 2 ELSE f[<<x[1] + 2, x[2] - 1>>]
               ELSE f[<<x[1] + 1, x[2]>>])
    OBVIOUS
  <2> HIDE DEF D, Ends, val, next, rank
  <2>3. PICK f : Loop(f, D, Ends, val, next)
    BY <2>1, LoopDefines, Zenon
  <2>4. [x \in D |-> IF x \in Ends THEN val[x] ELSE f[next[x]]]
          = [x \in D |->
               IF x[1] + 1 > n THEN 0
               ELSE IF Opens(x[1]) THEN f[<<x[1] + 2, x[2] + 1>>]
               ELSE IF Closes(x[1]) THEN IF x[2] = 1 THEN x[1] + 2 ELSE f[<<x[1] + 2, x[2] - 1>>]
               ELSE f[<<x[1] + 1, x[2]>>]]
    BY <2>2, Zenon
  <2>5. QED  BY <2>3, <2>4 DEF D, Loop, CommentLoop
<1>2. P(CHOOSE f : P(f))  BY <1>1, Zenon
<1>3. ASSUME NEW s  PROVE skipBlockComment(s) = (CHOOSE f : P(f))[<<s, 0>>]
  BY DEF skipBlockComment, CommentLoop, Opens, Closes
<1>4. QED  BY <1>2, <1>3, Zenon

\* f goes from a to m, each of its values made from the one before.
Steps(f, a, m, start, step) ==
  f = [j \in a .. m |-> IF j = a THEN start ELSE step[<<j, f[j - 1]>>]]

\* Going step by step from a start defines a function.
LEMMA StepsDefine ==
  ASSUME NEW a \in Int, NEW m \in Int, NEW start, NEW step
  PROVE  \E f : Steps(f, a, m, start, step)
<1> DEFINE
      Solves(f, l) == f = [j \in a .. l |-> IF j = a THEN start ELSE step[<<j, f[j - 1]>>]]
      Solvable(l) == \E f : Solves(f, l)
      S == {l \in Int : Solvable(l)}
<1>1. a - 1 \in S
  <2>1. a .. a - 1 = {}  OBVIOUS
  <2>2. Solves([x \in {} |-> x], a - 1)  BY <2>1
  <2> HIDE DEF Solves
  <2>3. Solvable(a - 1)  BY <2>2, Zenon
  <2> HIDE DEF Solvable
  <2>4. QED  BY <2>3
<1>2. ASSUME NEW l \in Int, l >= a - 1, l \in S  PROVE l + 1 \in S
  <2>1. PICK f : Solves(f, l)  BY <1>2
  <2> DEFINE g == [j \in a .. l + 1 |->
                     IF j <= l THEN f[j] ELSE IF j = a THEN start ELSE step[<<j, f[j - 1]>>]]
  <2>2. \A j \in a .. l : g[j] = f[j]  OBVIOUS
  <2>3. ASSUME NEW j \in a .. l + 1
        PROVE  g[j] = IF j = a THEN start ELSE step[<<j, g[j - 1]>>]
    <3>1. g[j] = IF j = a THEN start ELSE step[<<j, f[j - 1]>>]
      <4>1. CASE j <= l
        <5>1. j \in a .. l  BY <4>1
        <5>2. f[j] = IF j = a THEN start ELSE step[<<j, f[j - 1]>>]  BY <2>1, <5>1
        <5> HIDE DEF g
        <5>3. QED  BY <2>2, <5>1, <5>2
      <4>2. CASE ~(j <= l)  BY <4>2
      <4>3. QED  BY <4>1, <4>2
    <3>2. CASE j = a  BY <3>1, <3>2
    <3>3. CASE j # a
      <4>1. j - 1 \in a .. l  BY <3>3
      <4> HIDE DEF g
      <4>2. g[j - 1] = f[j - 1]  BY <2>2, <4>1
      <4>3. QED  BY <3>1, <3>3, <4>2
    <3>4. QED  BY <3>2, <3>3
  <2>4. Solves(g, l + 1)
    <3>1. g = [j \in a .. l + 1 |-> g[j]]  OBVIOUS
    <3> HIDE DEF g
    <3>2. QED  BY <2>3, <3>1, Zenon
  <2> HIDE DEF g, Solves
  <2>5. Solvable(l + 1)  BY <2>4, Zenon
  <2> HIDE DEF Solvable
  <2>6. QED  BY <2>5
<1>3. Solvable(m)
  <2>1. CASE m < a
    <3>1. a .. m = {}  BY <2>1
    <3>2. Solves([x \in {} |-> x], m)  BY <3>1
    <3>3. QED  BY <3>2
  <2>2. CASE m >= a
    <3> HIDE DEF S
    <3>1. \A l \in Int : l >= a - 1 => l \in S  BY <1>1, <1>2, Forwards
    <3>2. m \in S  BY <2>2, <3>1
    <3>3. QED  BY <3>2 DEF S
  <2>3. QED  BY <2>1, <2>2
<1>4. QED  BY <1>3 DEF Steps

\* How deep a comment that opens at a is after each character.
Depths == [deep : Int, second : BOOLEAN]
Two(j) == <<text[j - 1], text[j]>>
Deeper(j, p) ==
  [deep |-> p.deep + (IF p.second THEN 0 ELSE CASE Two(j) = <<"/", "*">> -> 1
                                               [] Two(j) = <<"*", "/">> -> -1
                                               [] OTHER -> 0),
   second |-> ~p.second /\ Two(j) \in {<<"/", "*">>, <<"*", "/">>}]
DepthSteps(d, a) ==
  d = [j \in a .. n |-> IF j = a THEN [deep |-> 0, second |-> FALSE] ELSE Deeper(j, d[j - 1])]

\* Each character leaves a depth.
LEMMA DeeperType ==
  ASSUME NEW j, NEW p \in Depths
  PROVE  Deeper(j, p) \in Depths
BY DEF Deeper, Depths

\* CommentEnd is the first place at which the depth returns to zero.
LEMMA CommentEndIs ==
  ASSUME n \in Nat, NEW a \in 1 .. n
  PROVE  \E d : /\ DepthSteps(d, a)
                /\ CommentEnd(a) = Least({j \in a + 1 .. n : d[j].deep = 0 /\ d[j].second}) + 1
<1> DEFINE P(d) == DepthSteps(d, a)
<1>1. \E d : P(d)
  <2> DEFINE start == [deep |-> 0, second |-> FALSE]
             D == (a .. n) \X Depths
             step == [x \in D |-> Deeper(x[1], x[2])]
  <2>0. \A j \in a .. n, p \in Depths : step[<<j, p>>] = Deeper(j, p)
    OBVIOUS
  <2>1. start \in Depths  BY DEF Depths
  <2> HIDE DEF step, start
  <2>2. PICK d : Steps(d, a, n, start, step)  BY StepsDefine
  <2> DEFINE S == {j \in Int : j <= n => d[j] \in Depths}
  <2>3. a \in S  BY <2>1, <2>2 DEF Steps
  <2>4. ASSUME NEW j \in Int, j >= a, j \in S  PROVE j + 1 \in S
    <3> SUFFICES ASSUME j + 1 <= n  PROVE d[j + 1] \in Depths  OBVIOUS
    <3>1. d[j + 1] = step[<<j + 1, d[(j + 1) - 1]>>]  BY <2>2, <2>4 DEF Steps
    <3>2. (j + 1) - 1 = j /\ d[j] \in Depths  BY <2>4
    <3>3. step[<<j + 1, d[j]>>] = Deeper(j + 1, d[j])  BY <2>0, <2>4, <3>2
    <3>4. QED  BY <3>1, <3>2, <3>3, DeeperType
  <2> HIDE DEF S
  <2>5. \A j \in Int : j >= a => j \in S  BY <2>3, <2>4, Forwards
  <2>6. ASSUME NEW j \in a .. n, j # a  PROVE step[<<j, d[j - 1]>>] = Deeper(j, d[j - 1])
    <3>1. d[j - 1] \in Depths  BY <2>5, <2>6 DEF S
    <3>2. QED  BY <2>0, <3>1
  <2>7. [j \in a .. n |-> IF j = a THEN start ELSE step[<<j, d[j - 1]>>]]
        = [j \in a .. n |-> IF j = a THEN start ELSE Deeper(j, d[j - 1])]
    BY <2>6, Zenon
  <2>8. QED  BY <2>2, <2>7 DEF Steps, DepthSteps, start
<1>2. P(CHOOSE d : P(d))  BY <1>1, Zenon
<1>3. PICK d : d = CHOOSE e : P(e)  OBVIOUS
<1>4. CommentEnd(a) = Least({j \in a + 1 .. n : d[j].deep = 0 /\ d[j].second}) + 1
  BY <1>3 DEF CommentEnd, DepthSteps, Deeper, Two
<1>5. QED  BY <1>2, <1>3, <1>4, Zenon

\* The end of a lexeme as Lexeme gives it, 1 for none, from the end as the helpers
\* return it, 0 for none.
Ended(e) == IF e = 0 THEN 1 ELSE e

\* After and Least say the same of a set of places.
LEMMA LeastAfter ==
  ASSUME NEW S, S \subseteq Nat
  PROVE  /\ Least(S) + 1 = Ended(After(S))
         /\ After(S) \in Nat
         /\ \A x \in S : After(S) # 0
         /\ After(S) # 0 => After(S) - 1 \in S
<1>1. CASE S = {}  BY <1>1 DEF Least, After, Ended
<1>2. CASE S # {}
  <2>1. Min(S) \in S /\ Min(S) \in Nat  BY <1>2, MinIs
  <2>2. Least(S) = Min(S) /\ After(S) = Min(S) + 1  BY <1>2 DEF Least, After
  <2>3. After(S) # 0 /\ After(S) - 1 = Min(S)  BY <2>1, <2>2
  <2>4. QED  BY <2>1, <2>2, <2>3 DEF Ended
<1>3. QED  BY <1>1, <1>2

\* After character j of a comment the text is k deep, and j ended a bracket or not.
Inside(p, k) == p.deep = k /\ ~p.second
Bracket(p, k) == p.deep = k /\ p.second

\* Where a comment may end, behind j.
ClosingC(d, j) == {b \in j + 1 .. n : d[b].deep = 0 /\ d[b].second}

\* One character on, by what it is and what came before.
LEMMA DeeperIs ==
  ASSUME NEW j, NEW k \in Int, NEW p
  PROVE  /\ Inside(p, k) /\ Two(j) = <<"/", "*">> => Bracket(Deeper(j, p), k + 1)
         /\ Inside(p, k) /\ Two(j) = <<"*", "/">> => Bracket(Deeper(j, p), k - 1)
         /\ Inside(p, k) /\ Two(j) # <<"/", "*">> /\ Two(j) # <<"*", "/">>
              => Inside(Deeper(j, p), k)
         /\ Bracket(p, k) => Inside(Deeper(j, p), k)
<1>1. PICK t, o, c : t = Two(j) /\ o = <<"/", "*">> /\ c = <<"*", "/">>  OBVIOUS
<1>2. o # c  BY <1>1
<1>3. PICK x : x = IF p.second THEN 0 ELSE CASE t = o -> 1 [] t = c -> -1 [] OTHER -> 0
  OBVIOUS
<1>4. Deeper(j, p).deep = p.deep + x
  BY <1>1, <1>3 DEF Deeper
<1>5. Deeper(j, p).second <=> ~p.second /\ (t = o \/ t = c)
  BY <1>1, Zenon DEF Deeper
<1>6. ASSUME Bracket(p, k)  PROVE Inside(Deeper(j, p), k)
  <2>1. x = 0 /\ p.deep = k  BY <1>3, <1>6, Zenon DEF Bracket
  <2>2. Deeper(j, p).deep = k  BY <1>4, <2>1
  <2>3. QED  BY <1>5, <1>6, <2>2, Zenon DEF Bracket, Inside
<1>7. ASSUME Inside(p, k), t = o  PROVE Bracket(Deeper(j, p), k + 1)
  <2>1. x = 1 /\ p.deep = k  BY <1>2, <1>3, <1>7, Zenon DEF Inside
  <2>2. Deeper(j, p).deep = k + 1  BY <1>4, <2>1
  <2>3. QED  BY <1>5, <1>7, <2>2, Zenon DEF Bracket, Inside
<1>8. ASSUME Inside(p, k), t = c  PROVE Bracket(Deeper(j, p), k - 1)
  <2>1. x = -1 /\ p.deep = k  BY <1>2, <1>3, <1>8, Zenon DEF Inside
  <2>2. Deeper(j, p).deep = k - 1  BY <1>4, <2>1
  <2>3. QED  BY <1>5, <1>8, <2>2, Zenon DEF Bracket, Inside
<1>9. ASSUME Inside(p, k), t # o, t # c  PROVE Inside(Deeper(j, p), k)
  <2>1. x = 0 /\ p.deep = k  BY <1>3, <1>9, Zenon DEF Inside
  <2>2. Deeper(j, p).deep = k  BY <1>4, <2>1
  <2>3. QED  BY <1>5, <1>9, <2>2, Zenon DEF Inside
<1>10. QED  BY <1>1, <1>6, <1>7, <1>8, <1>9, Zenon

\* How deep the text is one character on.
LEMMA DepthStep ==
  ASSUME n \in Nat, NEW a \in 1 .. n, NEW d, DepthSteps(d, a), NEW j \in a .. n - 1, NEW k \in Int,
         Inside(d[j], k)
  PROVE  /\ Opens(j) => Bracket(d[j + 1], k + 1)
         /\ Closes(j) => Bracket(d[j + 1], k - 1)
         /\ ~Opens(j) /\ ~Closes(j) => Inside(d[j + 1], k)
         /\ j + 2 <= n /\ (Opens(j) \/ Closes(j))
              => Inside(d[j + 2], d[j + 1].deep)
<1>1. \A l \in a .. n : l # a => d[l] = Deeper(l, d[l - 1])  BY DEF DepthSteps
<1>2. d[j + 1] = Deeper(j + 1, d[j])
  <2>1. (j + 1) - 1 = j /\ j + 1 \in a .. n /\ j + 1 # a  OBVIOUS
  <2>2. QED  BY <1>1, <2>1
<1>3. Two(j + 1) = <<text[j], text[j + 1]>>
  <2>1. (j + 1) - 1 = j  OBVIOUS
  <2>2. QED  BY <2>1 DEF Two
<1>4. /\ Opens(j) <=> Two(j + 1) = <<"/", "*">>
      /\ Closes(j) <=> Two(j + 1) = <<"*", "/">>
  BY <1>3 DEF Opens, Closes
<1>5. /\ Opens(j) => Bracket(d[j + 1], k + 1)
      /\ Closes(j) => Bracket(d[j + 1], k - 1)
      /\ ~Opens(j) /\ ~Closes(j) => Inside(d[j + 1], k)
  BY <1>2, <1>4, DeeperIs
<1>6. ASSUME j + 2 <= n, Opens(j) \/ Closes(j)
      PROVE  Inside(d[j + 2], d[j + 1].deep)
  <2>1. (j + 2) - 1 = j + 1 /\ j + 2 \in a .. n /\ j + 2 # a  BY <1>6
  <2>2. d[j + 2] = Deeper(j + 2, d[j + 1])  BY <1>1, <2>1
  <2>3. PICK l \in Int : Bracket(d[j + 1], l)
    <3>1. k + 1 \in Int /\ k - 1 \in Int  OBVIOUS
    <3>2. QED  BY <1>5, <1>6, <3>1, Zenon
  <2>4. d[j + 1].deep = l  BY <2>3, Zenon DEF Bracket
  <2>5. QED  BY <2>2, <2>3, <2>4, DeeperIs
<1>7. QED  BY <1>5, <1>6

\* The comment does not end where the text stays inside.
LEMMA ClosingLater ==
  ASSUME n \in Nat, NEW d, NEW j \in Int, NEW k,
         Inside(d[j + 1], k) \/ (Bracket(d[j + 1], k) /\ k # 0) \/ j + 1 > n
  PROVE  ClosingC(d, j) = ClosingC(d, j + 1)
<1>1. PICK T : \A b : b \in T <=> d[b].deep = 0 /\ d[b].second /\ b \in Int
  <2>1. \A b : b \in {c \in Int : d[c].deep = 0 /\ d[c].second}
                 <=> d[b].deep = 0 /\ d[b].second /\ b \in Int
    BY Zenon
  <2>2. QED  BY <2>1, Zenon
<1>2. \A l : ClosingC(d, l) = {b \in l + 1 .. n : b \in T}
  BY <1>1 DEF ClosingC
<1>3. j + 1 \notin T \/ j + 1 > n  BY <1>1, Zenon DEF Inside, Bracket
<1>4. {b \in j + 1 .. n : b \in T} = {b \in (j + 1) + 1 .. n : b \in T}  BY <1>3
<1>5. QED  BY <1>2, <1>4

\* skipBlockComment finds the end of the comment that opens at a.
LEMMA SkipBlockCommentFinds ==
  ASSUME n \in Nat, NEW a \in 1 .. n, Is(a, "/"), Is(a + 1, "*")
  PROVE  /\ CommentEnd(a) = Ended(skipBlockComment(a))
         /\ skipBlockComment(a) = 0 \/ skipBlockComment(a) \in a + 2 .. n + 1
<1>1. PICK f : CommentLoop(f) /\ \A t : skipBlockComment(t) = f[<<t, 0>>]
  BY SkipBlockCommentLoops
<1>2. PICK d : /\ DepthSteps(d, a)
               /\ CommentEnd(a) = Least({j \in a + 1 .. n : d[j].deep = 0 /\ d[j].second}) + 1
  BY CommentEndIs
<1> DEFINE Right(j, k) == f[<<j, k>>] = After(ClosingC(d, j))
           Good(j) == j >= a => \A k \in Nat \ {0} : j > n \/ Inside(d[j], k) => Right(j, k)
           S == {j \in 1 .. n + 1 : Good(j)}
<1>3. \A j \in 1 .. n + 1, k \in Int :
        f[<<j, k>>] = IF j + 1 > n THEN 0
                      ELSE IF Opens(j) THEN f[<<j + 2, k + 1>>]
                      ELSE IF Closes(j) THEN IF k = 1 THEN j + 2 ELSE f[<<j + 2, k - 1>>]
                      ELSE f[<<j + 1, k>>]
  BY <1>1 DEF CommentLoop
<1> HIDE DEF Right
<1>4. ASSUME NEW j \in 1 .. n + 1, \A k \in j + 1 .. n + 1 : k \in S
      PROVE  j \in S
  <2> SUFFICES ASSUME j >= a, NEW k \in Nat \ {0}, j > n \/ Inside(d[j], k)
               PROVE  Right(j, k)
    OBVIOUS
  <2>3. k \in Int  OBVIOUS
  <2>4. f[<<j, k>>] = IF j + 1 > n THEN 0
                      ELSE IF Opens(j) THEN f[<<j + 2, k + 1>>]
                      ELSE IF Closes(j) THEN IF k = 1 THEN j + 2 ELSE f[<<j + 2, k - 1>>]
                      ELSE f[<<j + 1, k>>]
    BY <1>3, <2>3, Zenon
  <2>1. CASE j + 1 > n
    <3>1. ClosingC(d, j) = {}  BY <2>1 DEF ClosingC
    <3>2. QED  BY <2>4, <2>1, <3>1 DEF After, Right
  <2>2. CASE j + 1 <= n
    <3>1. j \in a .. n - 1 /\ Inside(d[j], k)  BY <2>2
    <3>2. /\ Opens(j) => Bracket(d[j + 1], k + 1)
          /\ Closes(j) => Bracket(d[j + 1], k - 1)
          /\ ~Opens(j) /\ ~Closes(j) => Inside(d[j + 1], k)
          /\ j + 2 <= n /\ (Opens(j) \/ Closes(j)) => Inside(d[j + 2], d[j + 1].deep)
      BY <1>2, <3>1, DepthStep
    <3>3. ASSUME NEW l \in Nat \ {0}, Bracket(d[j + 1], l), Opens(j) \/ Closes(j)
          PROVE  Right(j + 2, l) /\ ClosingC(d, j) = ClosingC(d, j + 2)
      <4>1. j + 2 > n \/ Inside(d[j + 2], l)  BY <3>2, <3>3 DEF Bracket
      <4>2. j + 2 \in S  BY <1>4, <2>2
      <4>3. Right(j + 2, l)  BY <4>1, <4>2
      <4>4. ClosingC(d, j) = ClosingC(d, j + 1)  BY <3>3, ClosingLater
      <4>5. (j + 1) + 1 = j + 2 /\ j + 1 \in Int  OBVIOUS
      <4>6. ClosingC(d, j + 1) = ClosingC(d, (j + 1) + 1)  BY <4>1, <4>5, ClosingLater
      <4>7. QED  BY <4>3, <4>4, <4>5, <4>6
    <3>4. CASE Opens(j)
      <4>1. f[<<j, k>>] = f[<<j + 2, k + 1>>]  BY <2>4, <2>2, <3>4
      <4>2. Right(j + 2, k + 1) /\ ClosingC(d, j) = ClosingC(d, j + 2)  BY <3>2, <3>3, <3>4
      <4>3. QED  BY <4>1, <4>2 DEF Right
    <3>5. CASE Closes(j) /\ k = 1
      <4>1. ~Opens(j)  BY <3>5 DEF Opens, Closes
      <4>2. f[<<j, k>>] = j + 2  BY <2>4, <2>2, <3>5, <4>1
      <4>3. d[j + 1].deep = 0 /\ d[j + 1].second
        <5>1. k - 1 = 0  BY <3>5
        <5>2. QED  BY <3>2, <3>5, <5>1, Zenon DEF Bracket
      <4>4. j + 1 \in ClosingC(d, j)  BY <2>2, <4>3 DEF ClosingC
      <4>5. ClosingC(d, j) \subseteq Nat /\ \A b \in ClosingC(d, j) : j + 1 <= b
        BY DEF ClosingC
      <4>6. Min(ClosingC(d, j)) = j + 1  BY <4>4, <4>5, MinOf
      <4>7. QED  BY <4>2, <4>4, <4>6 DEF After, Right
    <3>6. CASE Closes(j) /\ k # 1
      <4>1. ~Opens(j)  BY <3>6 DEF Opens, Closes
      <4>2. f[<<j, k>>] = f[<<j + 2, k - 1>>]  BY <2>4, <2>2, <3>6, <4>1
      <4>3. k - 1 \in Nat \ {0}  BY <3>6
      <4>4. Right(j + 2, k - 1) /\ ClosingC(d, j) = ClosingC(d, j + 2)
        BY <3>2, <3>3, <3>6, <4>3
      <4>5. QED  BY <4>2, <4>4 DEF Right
    <3>7. CASE ~Opens(j) /\ ~Closes(j)
      <4>1. f[<<j, k>>] = f[<<j + 1, k>>]  BY <2>4, <2>2, <3>7
      <4>2. Inside(d[j + 1], k)  BY <3>2, <3>7
      <4>3. j + 1 \in S  BY <1>4, <2>2
      <4>4. Right(j + 1, k)  BY <4>2, <4>3
      <4>5. ClosingC(d, j) = ClosingC(d, j + 1)  BY <4>2, ClosingLater
      <4>6. QED  BY <4>1, <4>4, <4>5 DEF Right
    <3>8. QED  BY <3>4, <3>5, <3>6, <3>7
  <2>5. QED  BY <2>1, <2>2
<1> HIDE DEF S
<1>5. 1 .. n + 1 \subseteq S
  <2>1. PICK m : m = n + 1  OBVIOUS
  <2>2. m \in Nat  BY <2>1
  <2>3. \A j \in 1 .. m : (\A k \in j + 1 .. m : k \in S) => j \in S  BY <1>4, <2>1
  <2>4. 1 .. m \subseteq S  BY <2>2, <2>3, Backwards
  <2>5. QED  BY <2>1, <2>4
<1>6. f[<<a, 0>>] = After(ClosingC(d, a))
  <2>1. a + 1 <= n /\ Opens(a)  BY DEF Is, Opens
  <2>2. Inside(d[a], 0)
    <3>1. d[a] = [deep |-> 0, second |-> FALSE]  BY <1>2 DEF DepthSteps
    <3>2. QED  BY <3>1 DEF Inside
  <2>3. a \in a .. n - 1 /\ 0 \in Int /\ 0 + 1 = 1  BY <2>1
  <2>4. Bracket(d[a + 1], 1) /\ (a + 2 <= n => Inside(d[a + 2], d[a + 1].deep))
    <3>1. Bracket(d[a + 1], 0 + 1) /\ (a + 2 <= n => Inside(d[a + 2], d[a + 1].deep))
      BY <1>2, <2>1, <2>2, <2>3, DepthStep
    <3>2. QED  BY <2>3, <3>1
  <2>5. f[<<a, 0>>] = f[<<a + 2, 1>>]
    <3>1. /\ a \in 1 .. n + 1 /\ 0 \in Int
          /\ f[<<a, 0>>] = IF a + 1 > n THEN 0
                           ELSE IF Opens(a) THEN f[<<a + 2, 0 + 1>>]
                           ELSE IF Closes(a) THEN IF 0 = 1 THEN a + 2 ELSE f[<<a + 2, 0 - 1>>]
                           ELSE f[<<a + 1, 0>>]
      <4>1. a \in 1 .. n + 1 /\ 0 \in Int  OBVIOUS
      <4>2. QED  BY <1>3, <4>1, Zenon
    <3>2. QED  BY <2>1, <2>3, <3>1
  <2>6. a + 2 > n \/ Inside(d[a + 2], 1)  BY <2>4 DEF Bracket
  <2>7. a + 2 \in S  BY <1>5, <2>1
  <2>8. Right(a + 2, 1)
    <3>1. Good(a + 2)  BY <2>7 DEF S
    <3>2. 1 \in Nat \ {0} /\ a + 2 >= a  OBVIOUS
    <3>3. QED  BY <2>6, <3>1, <3>2
  <2>9. ClosingC(d, a) = ClosingC(d, a + 1)
    <3>1. PICK k : k = 1  OBVIOUS
    <3>2. Bracket(d[a + 1], k) /\ k # 0 /\ a \in Int  BY <2>4, <3>1
    <3>3. QED  BY <3>2, ClosingLater
  <2>10. (a + 1) + 1 = a + 2 /\ a + 1 \in Int  OBVIOUS
  <2>11. ClosingC(d, a + 1) = ClosingC(d, (a + 1) + 1)  BY <2>6, <2>10, ClosingLater
  <2>12. QED  BY <2>5, <2>8, <2>9, <2>10, <2>11 DEF Right
<1>7. \A b \in ClosingC(d, a) : b \in a + 1 .. n  BY DEF ClosingC
<1>8. ClosingC(d, a) \subseteq Nat  BY <1>7
<1>9. CommentEnd(a) = Least(ClosingC(d, a)) + 1  BY <1>2 DEF ClosingC
<1>10. CommentEnd(a) = Ended(skipBlockComment(a))  BY <1>1, <1>6, <1>8, <1>9, LeastAfter
<1>11. /\ skipBlockComment(a) \in Nat
       /\ skipBlockComment(a) # 0 => skipBlockComment(a) - 1 \in ClosingC(d, a)
  BY <1>1, <1>6, <1>8, LeastAfter
<1>12. QED  BY <1>7, <1>10, <1>11

-----------------------------------------------------------------------------
(* Runs of characters *)

\* A run ends at the first position that is not one of its own.
LEMMA RunEndIs ==
  ASSUME n \in Nat, NEW s \in 1 .. n + 1, NEW run, n + 1 \notin run
  PROVE  /\ RunEnd(s, run) \in s .. n + 1
         /\ RunEnd(s, run) \notin run
         /\ \A j \in s .. RunEnd(s, run) - 1 : j \in run
<1> DEFINE S == {j \in s .. n + 1 : j \notin run}
<1>1. S \subseteq Nat /\ n + 1 \in S  OBVIOUS
<1>2. RunEnd(s, run) = Min(S)  BY DEF RunEnd
<1>3. Min(S) \in S /\ \A y \in S : Min(S) <= y
  <2> HIDE DEF S
  <2>1. QED  BY <1>1, MinIs
<1>4. PICK e : e = Min(S)  OBVIOUS
<1>5. ASSUME NEW j \in s .. e - 1  PROVE j \in run
  <2>1. j \notin S  BY <1>3, <1>4
  <2>2. QED  BY <1>3, <1>4, <2>1
<1>6. e \in s .. n + 1 /\ e \notin run  BY <1>3, <1>4
<1>7. QED  BY <1>2, <1>4, <1>5, <1>6

\* Only one position is the end of a run.
LEMMA RunEndOf ==
  ASSUME n \in Nat, NEW s \in 1 .. n + 1, NEW run, NEW e \in s .. n + 1, e \notin run,
         \A j \in s .. e - 1 : j \in run
  PROVE  RunEnd(s, run) = e
<1> DEFINE S == {j \in s .. n + 1 : j \notin run}
<1>1. S \subseteq Nat /\ e \in S /\ \A y \in S : e <= y  OBVIOUS
<1>2. RunEnd(s, run) = Min(S)  BY DEF RunEnd
<1> HIDE DEF S
<1>3. QED  BY <1>1, <1>2, MinOf

\* The end of a run as Lexeme says it: the least position that is not in it.
LEMMA RunEndLeast ==
  ASSUME n \in Nat, NEW s \in 1 .. n + 1, NEW run, run \subseteq s .. n, NEW X, X = (s .. n) \ run
  PROVE  /\ RunEnd(s, run) = IF Least(X) = 0 THEN n + 1 ELSE Least(X)
         /\ RunEnd(s, run) = IF X = {} THEN n + 1 ELSE Min(X)
<1>1. CASE X = {}
  <2>1. RunEnd(s, run) = n + 1
    <3>1. n + 1 \in s .. n + 1 /\ n + 1 \notin run /\ \A j \in s .. (n + 1) - 1 : j \in run
      BY <1>1
    <3>2. QED  BY <3>1, RunEndOf
  <2>2. QED  BY <1>1, <2>1 DEF Least
<1>2. CASE X # {}
  <2>1. X \subseteq Nat  OBVIOUS
  <2>2. PICK e : e = Min(X)  OBVIOUS
  <2>3. e \in X /\ \A y \in X : e <= y  BY <1>2, <2>1, <2>2, MinIs
  <2>4. e \in s .. n + 1 /\ e \notin run /\ e # 0  BY <2>3
  <2>5. \A j \in s .. e - 1 : j \in run  BY <2>3, <2>4
  <2>6. RunEnd(s, run) = e  BY <2>4, <2>5, RunEndOf
  <2>7. Least(X) = e  BY <1>2, <2>2 DEF Least
  <2>8. QED  BY <1>2, <2>2, <2>4, <2>6, <2>7
<1>3. QED  BY <1>1, <1>2

-----------------------------------------------------------------------------
(* The lexeme at a position, by its first characters *)

L(kind, end) == [kind |-> kind, end |-> end]

\* At a blank: the blank.
LEMMA SpaceLexeme ==
  ASSUME NEW a, isSpace(text[a])
  PROVE  Lexeme(a) = L("skip", a + 1)
BY DEF Lexeme, L

\* At two dashes: the rest of the line.
LEMMA LineLexeme ==
  ASSUME n \in Nat, NEW a \in 1 .. n, text[a] = "-", Is(a + 1, "-")
  PROVE  Lexeme(a) = L("skip", RunEnd(a, {j \in a .. n : text[j] # "\n"}))
<1> DEFINE X == {b \in a .. n : text[b] = "\n"}
           run == {j \in a .. n : text[j] # "\n"}
<1>1. ~isSpace(text[a])  BY DEF isSpace
<1>2. Lexeme(a) = L("skip", IF Least(X) = 0 THEN n + 1 ELSE Least(X))
  BY <1>1 DEF Lexeme, L
<1>3. X = (a .. n) \ run /\ run \subseteq a .. n  OBVIOUS
<1> HIDE DEF X, run
<1>4. RunEnd(a, run) = IF Least(X) = 0 THEN n + 1 ELSE Least(X)
  <2>1. a \in 1 .. n + 1  OBVIOUS
  <2>2. QED  BY <1>3, <2>1, RunEndLeast
<1>5. QED  BY <1>2, <1>4 DEF run

\* At the opening of a comment: the comment.
LEMMA CommentLexeme ==
  ASSUME NEW a, text[a] = "/", Is(a + 1, "*")
  PROVE  Lexeme(a) = L("skip", CommentEnd(a))
BY DEF Lexeme, L, isSpace

\* At a single quote: the literal.
LEMMA LiteralLexeme ==
  ASSUME NEW a, text[a] = "'"
  PROVE  Lexeme(a) = L("string", LiteralEnd(a, "'"))
BY DEF Lexeme, L, isSpace

\* At a double quote: the quoted identifier.
LEMMA QuotedLexeme ==
  ASSUME NEW a, text[a] = "\""
  PROVE  Lexeme(a) = L("quoted", LiteralEnd(a, "\""))
BY DEF Lexeme, L, isSpace

NumberEnd(a) ==
  RunEnd(a, {j \in a .. n : \/ isDigit(text[j]) \/ text[j] \in {".", "e", "E", "_"}
                            \/ text[j] \in {"+", "-"} /\ text[j - 1] \in {"e", "E"}})

\* At a digit, or a point before one: the number.
LEMMA NumberLexeme ==
  ASSUME n \in Nat, NEW a \in 1 .. n,
         isDigit(text[a]) \/ (text[a] = "." /\ a < n /\ isDigit(text[a + 1]))
  PROVE  Lexeme(a) = L("number", NumberEnd(a)) /\ NumberEnd(a) \in a + 1 .. n + 1
<1> DEFINE X == {b \in a .. n : /\ ~isDigit(text[b]) /\ text[b] \notin {".", "e", "E", "_"}
                                /\ ~(text[b] \in {"+", "-"} /\ b > a /\ text[b - 1] \in {"e", "E"})}
           run == {j \in a .. n : \/ isDigit(text[j]) \/ text[j] \in {".", "e", "E", "_"}
                                  \/ text[j] \in {"+", "-"} /\ text[j - 1] \in {"e", "E"}}
<1>1. Lexeme(a) = L("number", IF X = {} THEN n + 1 ELSE Min(X))
  <2>1. text[a] \in {"0", "1", "."}  BY DEF isDigit
  <2>2. /\ ~isSpace(text[a]) /\ text[a] # "-" /\ text[a] # "/" /\ text[a] # "'"
        /\ text[a] # "\"" /\ text[a] # "$"
    BY <2>1 DEF isSpace
  <2>3. QED  BY <2>2 DEF Lexeme, L
<1>2. X = (a .. n) \ run /\ run \subseteq a .. n
  <2>1. text[a] \notin {"+", "-"}  BY DEF isDigit
  <2>2. \A b \in a .. n : b > a \/ b = a  OBVIOUS
  <2>3. QED  BY <2>1, <2>2
<1> HIDE DEF X, run
<1>3. RunEnd(a, run) = IF X = {} THEN n + 1 ELSE Min(X)
  <2>1. a \in 1 .. n + 1  OBVIOUS
  <2>2. QED  BY <1>2, <2>1, RunEndLeast
<1>4. NumberEnd(a) = RunEnd(a, run)  BY DEF run, NumberEnd
<1>5. a \in run /\ n + 1 \notin run /\ a \in 1 .. n + 1
  <2>1. n + 1 \notin a .. n /\ a \in a .. n /\ a \in 1 .. n + 1  OBVIOUS
  <2>2. a \in run  BY <2>1, Zenon DEF run
  <2>3. QED  BY <1>2, <2>1, <2>2
<1>6. PICK e : e = RunEnd(a, run)  OBVIOUS
<1>7. e \in a .. n + 1 /\ e \notin run  BY <1>5, <1>6, RunEndIs
<1>8. e \in a + 1 .. n + 1  BY <1>5, <1>7
<1>9. QED  BY <1>1, <1>3, <1>4, <1>6, <1>8

\* At a dollar sign before a digit: the parameter.
LEMMA ParamLexeme ==
  ASSUME n \in Nat, NEW a \in 1 .. n, text[a] = "$", a < n, isDigit(text[a + 1])
  PROVE  /\ Lexeme(a) = L("param", Digits(a + 1))
         /\ Digits(a + 1) \in a + 2 .. n + 1
<1> DEFINE P(b) == /\ \A j \in a + 1 .. b - 1 : isDigit(text[j])
                   /\ b > n \/ ~isDigit(text[b])
           run == {j \in a + 1 .. n : isDigit(text[j])}
<1>1. Lexeme(a) = L("param", CHOOSE b \in a + 2 .. n + 1 : P(b))
  BY DEF Lexeme, L, isSpace
<1>2. PICK e : e = RunEnd(a + 1, run)  OBVIOUS
<1>3. e \in a + 1 .. n + 1 /\ e \notin run /\ \A j \in a + 1 .. e - 1 : j \in run
  <2>1. a + 1 \in 1 .. n + 1 /\ n + 1 \notin run  OBVIOUS
  <2> HIDE DEF run
  <2>2. QED  BY <1>2, <2>1, RunEndIs
<1>4. e \in a + 2 .. n + 1 /\ P(e)  BY <1>3
<1>5. ASSUME NEW b \in a + 2 .. n + 1, P(b)  PROVE b = e
  <2>1. CASE b < e
    <3>1. b \in a + 1 .. e - 1  BY <1>3, <2>1
    <3>2. b \in run  BY <1>3, <3>1
    <3>3. QED  BY <1>5, <3>2
  <2>2. CASE b > e
    <3>1. e \in a + 1 .. b - 1  BY <1>3, <2>2
    <3>2. QED  BY <1>3, <1>5, <2>2, <3>1
  <2>3. QED  BY <1>3, <2>1, <2>2
<1> HIDE DEF P
<1>6. (CHOOSE b \in a + 2 .. n + 1 : P(b)) = e
  BY <1>4, <1>5
<1>7. Digits(a + 1) = e  BY <1>2 DEF Digits
<1>8. QED  BY <1>1, <1>4, <1>6, <1>7

\* Index finds the delimiter that DollarEnd says closes the quote.
LEMMA IndexFinds ==
  ASSUME text \in Seq(STRING), NEW a \in 1 .. n, NEW c \in a + 1 .. n, NEW tag, tag = SubSeq(text, a, c)
  PROVE  LET next == Index(c + 1, tag)
             end == IF next = 0 THEN 0 ELSE next + Len(tag)
         IN DollarEnd(a, tag) = Ended(end) /\ (end = 0 \/ end \in c + 1 .. n + 1)
<1> DEFINE w == c - a + 1
<1>1. Len(tag) = w /\ n \in Nat /\ w \in Nat /\ w >= 2
  BY DEF n
<1> DEFINE F == {j \in c + 1 .. n + 1 - w : SubSeq(text, j, j + w - 1) = tag}
           B == {b \in a + 2 * w - 1 .. n : SubSeq(text, b - w + 1, b) = tag}
<1>2. /\ Index(c + 1, tag) = IF F = {} THEN 0 ELSE Min(F)
      /\ DollarEnd(a, tag) = Least(B) + 1
  BY <1>1 DEF Index, DollarEnd
<1>3. ASSUME NEW j \in F  PROVE j + w - 1 \in B
  <2>1. (j + w - 1) - w + 1 = j  BY <1>1
  <2>2. j + w - 1 \in a + 2 * w - 1 .. n  BY <1>1
  <2>3. QED  BY <2>1, <2>2
<1>4. ASSUME NEW b \in B  PROVE b - w + 1 \in F
  <2>1. (b - w + 1) + w - 1 = b  BY <1>1
  <2>2. b - w + 1 \in c + 1 .. n + 1 - w  BY <1>1
  <2>3. QED  BY <2>1, <2>2
<1>5. F \subseteq Nat /\ B \subseteq Nat /\ (\A j \in F : j \in c + 1 .. n + 1 - w)
  BY <1>1
<1> HIDE DEF F, B
<1>6. CASE F = {}
  <2>1. B = {}  BY <1>4, <1>6
  <2>2. QED  BY <1>2, <1>6, <2>1 DEF Least, Ended
<1>7. CASE F # {}
  <2>1. PICK m : m = Min(F)  OBVIOUS
  <2>2. m \in F /\ \A y \in F : m <= y  BY <1>5, <1>7, <2>1, MinIs
  <2>3. m + w - 1 \in B /\ m \in c + 1 .. n + 1 - w  BY <1>3, <1>5, <2>2
  <2>4. \A b \in B : m + w - 1 <= b
    <3>1. SUFFICES ASSUME NEW b \in B  PROVE m + w - 1 <= b  OBVIOUS
    <3>2. b \in Nat /\ m <= b - w + 1  BY <1>4, <1>5, <2>2
    <3>3. QED  BY <1>1, <2>3, <3>2
  <2>5. Min(B) = m + w - 1  BY <1>5, <2>3, <2>4, MinOf
  <2>6. DollarEnd(a, tag) = (m + w - 1) + 1  BY <1>2, <2>3, <2>5 DEF Least
  <2>7. m # 0 /\ (m + w - 1) + 1 = m + w /\ m + w \in c + 1 .. n + 1  BY <1>1, <2>3
  <2>8. QED  BY <1>1, <1>2, <1>7, <2>1, <2>6, <2>7 DEF Ended
<1>8. QED  BY <1>6, <1>7

\* At any other dollar sign: what scanDollar finds, a dollar quote or the sign.
LEMMA DollarLexeme ==
  ASSUME text \in Seq(STRING), NEW a \in 1 .. n, text[a] = "$", ~(a < n /\ isDigit(text[a + 1]))
  PROVE  /\ scanDollar(a).kind \in {"string", "punct"}
         /\ Lexeme(a) = L(scanDollar(a).kind, Ended(scanDollar(a).end))
         /\ scanDollar(a).end = 0 \/ scanDollar(a).end \in a + 1 .. n + 1
<1> DEFINE run == {j \in a + 1 .. n : \/ isIdentStart(text[j])
                                      \/ j > a + 1 /\ isDigit(text[j])}
           X == {b \in a + 1 .. n : text[b] = "$"}
           T(c) == SubSeq(text, a, c)
           next(c) == Index(c + 1, T(c))
           end(c) == IF next(c) = 0 THEN 0 ELSE next(c) + Len(T(c))
<1>1. n \in Nat  BY DEF n
<1>2. PICK e : e = RunEnd(a + 1, run)  OBVIOUS
<1>3. e \in a + 1 .. n + 1 /\ e \notin run /\ \A j \in a + 1 .. e - 1 : j \in run
  <2>1. a + 1 \in 1 .. n + 1 /\ n + 1 \notin run  BY <1>1
  <2> HIDE DEF run
  <2>2. QED  BY <1>1, <1>2, <2>1, RunEndIs
<1>4. PICK c : c = Least(X)  OBVIOUS
<1>5. Lexeme(a) = IF c # 0 /\ \A j \in a + 1 .. c - 1 : isIdentPart(text[j])
                  THEN L("string", DollarEnd(a, T(c))) ELSE L("punct", a + 1)
  BY <1>4 DEF Lexeme, L, isSpace
<1>6. scanDollar(a) = IF ~Is(e, "$") THEN [kind |-> "punct", end |-> a + 1]
                      ELSE [kind |-> "string", end |-> end(e)]
  BY <1>2 DEF scanDollar
<1>7. X \subseteq Nat /\ 0 \notin X  BY <1>1
<1>8. CASE Is(e, "$")
  <2>1. e \in X /\ e \in a + 1 .. n  BY <1>1, <1>3, <1>8 DEF Is
  <2>2. \A y \in X : e <= y
    <3>1. SUFFICES ASSUME NEW y \in X, y < e  PROVE FALSE  BY <1>3
    <3>2. y \in run  BY <1>3, <3>1
    <3>3. QED  BY <3>2 DEF isIdentStart, isDigit
  <2>3. Min(X) = e
    <3> HIDE DEF X
    <3>1. QED  BY <1>7, <2>1, <2>2, MinOf
  <2>4. c = e  BY <1>4, <2>1, <2>3 DEF Least
  <2>5. \A j \in a + 1 .. c - 1 : isIdentPart(text[j])  BY <1>3, <2>4 DEF isIdentPart
  <2>6. Lexeme(a) = L("string", DollarEnd(a, T(e)))  BY <1>5, <2>1, <2>4, <2>5
  <2>7. PICK t : t = T(e)  OBVIOUS
  <2>8. DollarEnd(a, T(e)) = Ended(end(e)) /\ (end(e) = 0 \/ end(e) \in e + 1 .. n + 1)
    BY <2>1, <2>7, IndexFinds
  <2> HIDE DEF end, T
  <2>9. scanDollar(a).kind = "string" /\ scanDollar(a).end = end(e)  BY <1>6, <1>8
  <2>10. QED  BY <1>1, <2>1, <2>6, <2>8, <2>9
<1>9. CASE ~Is(e, "$")
  <2>1. ASSUME c # 0, \A j \in a + 1 .. c - 1 : isIdentPart(text[j])  PROVE FALSE
    <3>1. c \in X /\ \A y \in X : c <= y
      <4>1. X # {} /\ c = Min(X)  BY <1>4, <2>1 DEF Least
      <4> HIDE DEF X
      <4>2. QED  BY <1>7, <4>1, MinIs
    <3>2. c \in a + 1 .. n + 1 /\ c \notin run /\ text[c] = "$" /\ c <= n
      <4>1. c \in a + 1 .. n /\ text[c] = "$"  BY <3>1
      <4>2. ~isIdentStart(text[c]) /\ ~isDigit(text[c])  BY <4>1 DEF isIdentStart, isDigit
      <4>3. QED  BY <1>1, <4>1, <4>2
    <3>3. ASSUME NEW j \in a + 1 .. c - 1  PROVE j \in run
      <4>1. j \notin X /\ j \in a + 1 .. n
        <5>1. c \in Int /\ n \in Int /\ j < c /\ c <= n /\ ~(c <= j)  BY <1>1, <3>2
        <5>2. j \notin X  BY <3>1, <5>1
        <5>3. QED  BY <1>1, <5>1, <5>2
      <4>2. text[j] # "$"  BY <4>1
      <4>3. isIdentStart(text[j]) \/ isDigit(text[j])  BY <2>1, <4>2 DEF isIdentPart
      <4>4. CASE j = a + 1
        <5>1. a < n /\ j = a + 1  BY <1>1, <4>1, <4>4
        <5>2. ~isDigit(text[j])  BY <5>1
        <5>3. QED  BY <4>1, <4>3, <5>2
      <4>5. CASE j > a + 1  BY <4>1, <4>3, <4>5
      <4>6. QED  BY <4>1, <4>4, <4>5
    <3>4. e = c
      <4>1. a + 1 \in 1 .. n + 1  BY <1>1
      <4> HIDE DEF run
      <4>2. QED  BY <1>1, <1>2, <3>2, <3>3, <4>1, RunEndOf
    <3>5. QED  BY <1>9, <3>2, <3>4 DEF Is
  <2>2. Lexeme(a) = L("punct", a + 1)  BY <1>5, <2>1
  <2>3. scanDollar(a).kind = "punct" /\ scanDollar(a).end = a + 1  BY <1>6, <1>9
  <2>4. Ended(a + 1) = a + 1  BY DEF Ended
  <2>5. QED  BY <1>1, <2>2, <2>3, <2>4
<1>10. QED  BY <1>8, <1>9

WordEnd(a) == RunEnd(a, {j \in a .. n : isIdentPart(text[j])})

\* At a letter: the word, or the literal it introduces.
LEMMA WordLexeme ==
  ASSUME n \in Nat, NEW a \in 1 .. n, isIdentStart(text[a]), NEW e, e = WordEnd(a)
  PROVE  /\ e \in a + 1 .. n + 1
         /\ Lexeme(a) =
              IF e = a + 1 /\ Is(e, "'") /\ text[a] \in {"e", "E"} THEN L("string", EscapedEnd(e))
              ELSE IF e = a + 1 /\ Is(e, "'") /\ text[a] \in {"b", "u", "U"}
                   THEN L("string", LiteralEnd(e, "'"))
              ELSE IF e = a + 1 /\ Is(e, "&") /\ text[a] \in {"u", "U"} /\ Is(e + 1, "'")
                   THEN L("string", LiteralEnd(e + 1, "'"))
              ELSE IF e = a + 1 /\ Is(e, "&") /\ text[a] \in {"u", "U"} /\ Is(e + 1, "\"")
                   THEN L("refused", 1)
              ELSE L("word", e)
<1> DEFINE run == {j \in a .. n : isIdentPart(text[j])}
           X == {b \in a .. n : ~isIdentPart(text[b])}
<1>1. e \in a .. n + 1 /\ e \notin run
  <2>1. a \in 1 .. n + 1 /\ n + 1 \notin run /\ e = RunEnd(a, run)  BY DEF WordEnd
  <2> HIDE DEF run
  <2>2. QED  BY <2>1, RunEndIs
<1>2. a \in run  BY DEF isIdentPart
<1>3. e \in a + 1 .. n + 1  BY <1>1, <1>2
<1>4. e = IF Least(X) = 0 THEN n + 1 ELSE Least(X)
  <2>1. a \in 1 .. n + 1 /\ run \subseteq a .. n /\ X = (a .. n) \ run /\ e = RunEnd(a, run)
    BY DEF WordEnd
  <2> HIDE DEF run, X
  <2>2. QED  BY <2>1, RunEndLeast
<1>5. text[a] \in {"_", "a", "b", "e", "E", "u", "U", "nbsp", "select", "for", "update"}
  BY DEF isIdentStart
<1>6. /\ ~isSpace(text[a]) /\ ~isDigit(text[a])
      /\ text[a] \notin {"-", "/", "'", "\"", "$", "."}
  BY <1>5 DEF isSpace, isDigit
<1>7. QED  BY <1>3, <1>4, <1>6 DEF Lexeme, L

\* Anywhere else: one character.
LEMMA PunctLexeme ==
  ASSUME NEW a, a \in Int, ~isSpace(text[a]), ~(text[a] = "-" /\ Is(a + 1, "-")),
         ~(text[a] = "/" /\ Is(a + 1, "*")), text[a] \notin {"'", "\"", "$"},
         ~(isDigit(text[a]) \/ (text[a] = "." /\ a < n /\ isDigit(text[a + 1]))),
         ~isIdentStart(text[a])
  PROVE  Lexeme(a) = L("punct", a + 1)
BY DEF Lexeme, L

-----------------------------------------------------------------------------
(* The ends of literals *)

\* LiteralEnd is where skipQuoted ends, within the text.
LEMMA LiteralEnds ==
  ASSUME n \in Nat, NEW a \in 1 .. n, NEW q
  PROVE  /\ LiteralEnd(a, q) = Ended(skipQuoted(a + 1, q))
         /\ skipQuoted(a + 1, q) = 0 \/ skipQuoted(a + 1, q) \in a + 2 .. n + 1
<1>1. skipQuoted(a + 1, q) = After(Closing(a + 1, q))  BY SkipQuotedFinds
<1>2. LiteralEnd(a, q) = Least(Closing(a + 1, q)) + 1  BY DEF LiteralEnd, Closing
<1>3. \A b \in Closing(a + 1, q) : b \in a + 1 .. n  BY DEF Closing
<1>4. Closing(a + 1, q) \subseteq Nat  BY <1>3
<1>5. PICK z : z = After(Closing(a + 1, q))  OBVIOUS
<1>6. z \in Nat /\ (z # 0 => z - 1 \in Closing(a + 1, q))  BY <1>4, <1>5, LeastAfter
<1>7. z = 0 \/ z \in a + 2 .. n + 1  BY <1>3, <1>6
<1>8. QED  BY <1>1, <1>2, <1>4, <1>5, <1>7, LeastAfter

\* EscapedEnd is where skipEscapedString ends, within the text.
LEMMA EscapedEnds ==
  ASSUME n \in Nat, NEW a \in 1 .. n
  PROVE  /\ EscapedEnd(a) = Ended(skipEscapedString(a + 1))
         /\ skipEscapedString(a + 1) = 0 \/ skipEscapedString(a + 1) \in a + 2 .. n + 1
<1>0. (a + 1) - 1 = a  OBVIOUS
<1>1. skipEscapedString(a + 1) = After(ClosingE(a + 1))  BY SkipEscapedFinds
<1>2. EscapedEnd(a) = Least(ClosingE(a + 1)) + 1  BY <1>0 DEF EscapedEnd, ClosingE, Quotes
<1>3. \A b \in ClosingE(a + 1) : b \in a + 1 .. n  BY DEF ClosingE
<1>4. ClosingE(a + 1) \subseteq Nat  BY <1>3
<1>5. PICK z : z = After(ClosingE(a + 1))  OBVIOUS
<1>6. z \in Nat /\ (z # 0 => z - 1 \in ClosingE(a + 1))  BY <1>4, <1>5, LeastAfter
<1>7. z = 0 \/ z \in a + 2 .. n + 1  BY <1>3, <1>6
<1>8. QED  BY <1>1, <1>2, <1>4, <1>5, <1>7, LeastAfter

-----------------------------------------------------------------------------
(* One turn of the loop *)

\* A sequence of tokens that start within the text.
IsTokens(s) == \E X : s \in Seq(X) /\ \A x \in X : x.pos \in 1 .. n

Shape == text \in Seq(STRING) /\ i \in 1 .. n + 1 /\ IsTokens(toks)

\* The text of the token that a lexeme from a to e is.
Spelled(kind, a, e) ==
  CASE kind = "quoted" -> Undouble(SubSeq(text, a + 1, e - 2))
    [] kind = "number" -> SubSeq(text, a, e - 1)
    [] kind = "word" -> [j \in 1 .. e - a |-> ToLower(text[a + j - 1])]
    [] kind = "punct" /\ text[a] # "$" -> <<text[a]>>
    [] OTHER -> <<>>

TokenOf(a, x) == [kind |-> x.kind, text |-> Spelled(x.kind, a, x.end), pos |-> a]

\* The turn that passes lexeme x.
Passes(x) ==
  /\ x.end \in i + 1 .. n + 1 /\ i' = x.end /\ at' = at
  /\ toks' = IF x.kind = "skip" THEN toks ELSE Append(toks, TokenOf(i, x))

Refuses(x) == x.end = 1 /\ at' = "rejected" /\ i' = i /\ toks' = toks

Turn ==
  /\ text' = text /\ first' = first /\ clean' = clean
  /\ Passes(Lexeme(i)) \/ Refuses(Lexeme(i))

\* A token that is the lexeme at the position passes it.
LEMMA TokenTurn ==
  ASSUME Shape, NEW kind, NEW word, NEW end, Token(kind, word, end),
         end = 0 => Lexeme(i).end = 1,
         end # 0 => /\ end \in i + 1 .. n + 1 /\ Lexeme(i) = L(kind, end) /\ kind # "skip"
                    /\ word = Spelled(kind, i, end)
  PROVE  Turn
<1>1. text' = text /\ first' = first /\ clean' = clean  BY DEF Token
<1>2. CASE end = 0
  <2>1. Refuses(Lexeme(i))  BY <1>2 DEF Token, Refuses
  <2>2. QED  BY <1>1, <2>1 DEF Turn
<1>3. CASE end # 0
  <2>1. toks' = Append(toks, [kind |-> kind, text |-> word, pos |-> i]) /\ i' = end /\ at' = at
    BY <1>3 DEF Token
  <2>2. Lexeme(i).end = end /\ Lexeme(i).kind = kind  BY <1>3 DEF L
  <2>3. TokenOf(i, Lexeme(i)) = [kind |-> kind, text |-> word, pos |-> i]
    BY <1>3, <2>2, Zenon DEF TokenOf
  <2>4. Passes(Lexeme(i))  BY <1>3, <2>1, <2>2, <2>3, Zenon DEF Passes
  <2>5. QED  BY <1>1, <2>4 DEF Turn
<1>4. QED  BY <1>2, <1>3

\* Skipping the lexeme at the position passes it.
LEMMA SkipTurn ==
  ASSUME Shape, NEW end, Skip(end), end = 0 \/ end \in i + 1 .. n + 1,
         Lexeme(i) = L("skip", Ended(end))
  PROVE  Turn
<1>1. text' = text /\ first' = first /\ clean' = clean /\ toks' = toks  BY DEF Skip
<1>2. Lexeme(i).end = Ended(end) /\ Lexeme(i).kind = "skip"  BY DEF L
<1>3. CASE end = 0
  <2>1. Refuses(Lexeme(i))  BY <1>1, <1>2, <1>3 DEF Skip, Refuses, Ended
  <2>2. QED  BY <1>1, <2>1 DEF Turn
<1>4. CASE end # 0
  <2>1. Passes(Lexeme(i))  BY <1>1, <1>2, <1>4 DEF Skip, Passes, Ended
  <2>2. QED  BY <1>1, <2>1 DEF Turn
<1>5. QED  BY <1>3, <1>4

\* The texts of tokens, kind by kind.
LEMMA SpelledIs ==
  ASSUME NEW a, NEW e
  PROVE  /\ Spelled("string", a, e) = <<>> /\ Spelled("param", a, e) = <<>>
         /\ text[a] = "$" => Spelled("punct", a, e) = <<>>
         /\ text[a] # "$" => Spelled("punct", a, e) = <<text[a]>>
         /\ Spelled("quoted", a, e) = Undouble(SubSeq(text, a + 1, e - 2))
         /\ Spelled("number", a, e) = SubSeq(text, a, e - 1)
         /\ Spelled("word", a, e) = [j \in 1 .. e - a |-> ToLower(text[a + j - 1])]
BY DEF Spelled

\* While tokenize scans, its position is in the text.
LEMMA Scans ==
  ASSUME Shape, Scanning
  PROVE  n \in Nat /\ i \in 1 .. n /\ i \in i .. n /\ i \in 1 .. n + 1 /\ text \in Seq(STRING)
BY DEF Shape, Scanning, n

\* A blank is one turn.
LEMMA SpaceTurn == ASSUME Shape, Space PROVE Turn
<1>1. n \in Nat /\ i \in 1 .. n /\ isSpace(text[i]) /\ Skip(i + 1)  BY DEF Shape, Space, Scanning, n
<1>2. Lexeme(i) = L("skip", Ended(i + 1))  BY <1>1, SpaceLexeme DEF Ended
<1>3. i + 1 \in i + 1 .. n + 1  BY <1>1
<1>4. QED  BY <1>1, <1>2, <1>3, SkipTurn

\* A line comment is one turn.
LEMMA LineCommentTurn == ASSUME Shape, LineComment PROVE Turn
<1> DEFINE run == {j \in i .. n : text[j] # "\n"}
<1>1. /\ n \in Nat /\ i \in 1 .. n /\ text[i] = "-" /\ Is(i + 1, "-")
      /\ Skip(RunEnd(i, run))
  BY DEF Shape, LineComment, Scanning, AtLineComment, Is, n
<1>2. PICK e : e = RunEnd(i, run)  OBVIOUS
<1>3. e \in i .. n + 1 /\ e \notin run
  <2>1. i \in 1 .. n + 1 /\ n + 1 \notin run  BY <1>1
  <2> HIDE DEF run
  <2>2. QED  BY <1>1, <1>2, <2>1, RunEndIs
<1>4. i \in run  BY <1>1
<1>5. e \in i + 1 .. n + 1  BY <1>1, <1>3, <1>4
<1>6. Lexeme(i) = L("skip", Ended(e))  BY <1>1, <1>2, <1>5, LineLexeme DEF Ended
<1>7. QED  BY <1>1, <1>2, <1>5, <1>6, SkipTurn

\* A block comment is one turn.
LEMMA BlockCommentTurn == ASSUME Shape, BlockComment PROVE Turn
<1>1. n \in Nat /\ i \in 1 .. n /\ Is(i, "/") /\ Is(i + 1, "*") /\ Skip(skipBlockComment(i))
  BY DEF Shape, BlockComment, Scanning, AtBlockComment, n
<1>2. PICK e : e = skipBlockComment(i)  OBVIOUS
<1>3. CommentEnd(i) = Ended(e) /\ (e = 0 \/ e \in i + 2 .. n + 1)
  BY <1>1, <1>2, SkipBlockCommentFinds
<1>4. e = 0 \/ e \in i + 1 .. n + 1  BY <1>1, <1>3
<1>5. text[i] = "/"  BY <1>1 DEF Is
<1>6. Lexeme(i) = L("skip", Ended(e))  BY <1>1, <1>3, <1>5, CommentLexeme
<1>7. QED  BY <1>1, <1>2, <1>4, <1>6, SkipTurn

\* A literal or quoted identifier, opened at a behind what introduces it.
LEMMA LiteralTurn ==
  ASSUME Shape, NEW a \in i .. n, NEW q, NEW kind, NEW word, kind # "skip",
         Lexeme(i) = L(kind, LiteralEnd(a, q)),
         Token(kind, word, skipQuoted(a + 1, q)),
         word = Spelled(kind, i, skipQuoted(a + 1, q))
  PROVE  Turn
<1>1. n \in Nat /\ a \in 1 .. n /\ i \in 1 .. n  BY DEF Shape, n
<1>2. PICK e : e = skipQuoted(a + 1, q)  OBVIOUS
<1>3. LiteralEnd(a, q) = Ended(e) /\ (e = 0 \/ e \in a + 2 .. n + 1)
  BY <1>1, <1>2, LiteralEnds
<1>4. e = 0 => Lexeme(i).end = 1  BY <1>3 DEF L, Ended
<1>5. e # 0 => e \in i + 1 .. n + 1 /\ Lexeme(i) = L(kind, e)  BY <1>1, <1>3 DEF Ended
<1>6. QED  BY <1>2, <1>4, <1>5, TokenTurn

\* A literal is one turn.
LEMMA StringTurn == ASSUME Shape, String PROVE Turn
<1>1. /\ n \in Nat /\ i \in i .. n /\ text[i] = "'"
      /\ Token("string", <<>>, skipQuoted(i + 1, "'"))
  BY DEF Shape, String, Scanning, n
<1>2. Lexeme(i) = L("string", LiteralEnd(i, "'"))  BY <1>1, LiteralLexeme
<1>3. <<>> = Spelled("string", i, skipQuoted(i + 1, "'"))  BY SpelledIs
<1>4. QED  BY <1>1, <1>2, <1>3, LiteralTurn

\* A quoted identifier is one turn.
LEMMA QuotedIdentTurn == ASSUME Shape, QuotedIdent PROVE Turn
<1>1. n \in Nat /\ i \in i .. n /\ text[i] = "\""  BY Scans, Zenon DEF QuotedIdent
<1>2. PICK w : /\ Token("quoted", w, skipQuoted(i + 1, "\""))
               /\ w = Spelled("quoted", i, skipQuoted(i + 1, "\""))
  BY SpelledIs, Zenon DEF QuotedIdent
<1>3. Lexeme(i) = L("quoted", LiteralEnd(i, "\""))  BY <1>1, QuotedLexeme
<1>4. QED  BY <1>1, <1>2, <1>3, LiteralTurn

\* A parameter, a dollar quote or a dollar sign is one turn.
LEMMA DollarTurn == ASSUME Shape, Dollar PROVE Turn
<1>1. n \in Nat /\ i \in 1 .. n /\ text[i] = "$" /\ text \in Seq(STRING)
  BY DEF Shape, Dollar, Scanning, n
<1>2. PICK d : d = scanDollar(i)  OBVIOUS
<1>3. Token(d.kind, <<>>, d.end)  BY <1>2 DEF Dollar
<1>4. CASE i < n /\ isDigit(text[i + 1])
  <2>1. d = [kind |-> "param", end |-> Digits(i + 1)]  BY <1>2, <1>4, Zenon DEF scanDollar
  <2>2. PICK z : z = Digits(i + 1)  OBVIOUS
  <2>3. Lexeme(i) = L("param", z) /\ z \in i + 2 .. n + 1  BY <1>1, <1>4, <2>2, ParamLexeme
  <2>4. z \in i + 1 .. n + 1 /\ z # 0  BY <1>1, <2>3
  <2>5. Token("param", <<>>, z)  BY <1>3, <2>1, <2>2
  <2>6. <<>> = Spelled("param", i, z)  BY SpelledIs
  <2>7. QED  BY <2>3, <2>4, <2>5, <2>6, TokenTurn
<1>5. CASE ~(i < n /\ isDigit(text[i + 1]))
  <2>1. /\ d.kind \in {"string", "punct"} /\ Lexeme(i) = L(d.kind, Ended(d.end))
        /\ d.end = 0 \/ d.end \in i + 1 .. n + 1
    BY <1>1, <1>2, <1>5, DollarLexeme
  <2>2. PICK kind, end : kind = d.kind /\ end = d.end  BY Zenon
  <2>3. end = 0 => Lexeme(i).end = 1  BY <2>1, <2>2 DEF L, Ended
  <2>4. end # 0 => Lexeme(i) = L(kind, end)  BY <2>1, <2>2 DEF Ended
  <2>5. kind # "skip"  BY <2>1, <2>2
  <2>6. end # 0 => end \in i + 1 .. n + 1  BY <2>1, <2>2
  <2>7. Token(kind, <<>>, end)  BY <1>3, <2>2
  <2>8. <<>> = Spelled(kind, i, end)
    <3>1. kind = "string" \/ kind = "punct"  BY <2>1, <2>2
    <3>2. Spelled("string", i, end) = <<>> /\ Spelled("punct", i, end) = <<>>
      BY <1>1, SpelledIs
    <3>3. QED  BY <3>1, <3>2, Zenon
  <2>9. QED  BY <2>3, <2>4, <2>5, <2>6, <2>7, <2>8, TokenTurn
<1>6. QED  BY <1>4, <1>5

\* A number is one turn.
LEMMA NumberTurn == ASSUME Shape, Number PROVE Turn
<1>1. /\ n \in Nat /\ i \in 1 .. n
      /\ isDigit(text[i]) \/ (text[i] = "." /\ i < n /\ isDigit(text[i + 1]))
  BY Scans, Zenon DEF Number, AtNumber
<1>2. PICK w : Token("number", w, NumberEnd(i)) /\ w = Spelled("number", i, NumberEnd(i))
  BY SpelledIs, Zenon DEF Number, NumberEnd
<1>3. PICK e : e = NumberEnd(i)  OBVIOUS
<1>4. Lexeme(i) = L("number", e) /\ e \in i + 1 .. n + 1  BY <1>1, <1>3, NumberLexeme
<1>5. e # 0  BY <1>1, <1>4
<1>6. QED  BY <1>2, <1>3, <1>4, <1>5, TokenTurn

\* A word, or the literal it introduces, is one turn.
LEMMA WordTurn == ASSUME Shape, Word PROVE Turn
<1>1. n \in Nat /\ i \in 1 .. n /\ isIdentStart(text[i])  BY Scans, Zenon DEF Word
<1>2. PICK e : e = WordEnd(i)  OBVIOUS
<1>3. PICK w : w = [j \in 1 .. e - i |-> ToLower(text[i + j - 1])]  OBVIOUS
<1>4. IF e = i + 1 /\ Is(e, "'") /\ text[i] \in {"e", "E"}
        THEN Token("string", <<>>, skipEscapedString(e + 1))
        ELSE IF e = i + 1 /\ Is(e, "'") /\ text[i] \in {"b", "u", "U"}
        THEN Token("string", <<>>, skipQuoted(e + 1, "'"))
        ELSE IF e = i + 1 /\ text[i] \in {"u", "U"} /\ Is(e, "&") /\ Is(e + 1, "\"")
        THEN Token("quoted", <<>>, 0)
        ELSE IF e = i + 1 /\ text[i] \in {"u", "U"} /\ Is(e, "&") /\ Is(e + 1, "'")
        THEN Token("string", <<>>, skipQuoted(e + 2, "'"))
        ELSE Token("word", w, e)
  BY <1>2, <1>3 DEF Word, WordEnd
<1>5. e \in i + 1 .. n + 1  BY <1>1, <1>2, WordLexeme
<1>11. w = Spelled("word", i, e)  BY <1>3, SpelledIs, Zenon
<1>6. CASE e = i + 1 /\ Is(e, "'") /\ text[i] \in {"e", "E"}
  <2>1. Lexeme(i) = L("string", EscapedEnd(e))  BY <1>1, <1>2, <1>6, WordLexeme
  <2>2. PICK z : z = skipEscapedString(e + 1)  OBVIOUS
  <2>3. e \in 1 .. n  BY <1>1, <1>5, <1>6 DEF Is
  <2>4. EscapedEnd(e) = Ended(z) /\ (z = 0 \/ z \in e + 2 .. n + 1)
    BY <1>1, <2>2, <2>3, EscapedEnds
  <2>5. z = 0 => Lexeme(i).end = 1  BY <2>1, <2>4 DEF L, Ended
  <2>6. z # 0 => z \in i + 1 .. n + 1 /\ Lexeme(i) = L("string", z)
    BY <1>1, <1>5, <2>1, <2>4 DEF Ended
  <2>7. Token("string", <<>>, z)  BY <1>4, <1>6, <2>2
  <2>8. <<>> = Spelled("string", i, z)  BY SpelledIs
  <2>9. QED  BY <2>5, <2>6, <2>7, <2>8, TokenTurn
<1>7. CASE e = i + 1 /\ Is(e, "'") /\ text[i] \in {"b", "u", "U"}
  <2>1. text[i] \notin {"e", "E"}  BY <1>7
  <2>2. Lexeme(i) = L("string", LiteralEnd(e, "'"))  BY <1>1, <1>2, <1>7, <2>1, WordLexeme
  <2>3. e \in i .. n  BY <1>1, <1>5, <1>7 DEF Is
  <2>4. Token("string", <<>>, skipQuoted(e + 1, "'"))  BY <1>4, <1>7, <2>1
  <2>5. <<>> = Spelled("string", i, skipQuoted(e + 1, "'"))  BY SpelledIs
  <2>6. QED  BY <2>2, <2>3, <2>4, <2>5, LiteralTurn
<1>8. CASE e = i + 1 /\ text[i] \in {"u", "U"} /\ Is(e, "&")
  <2>1. text[i] \notin {"e", "E"} /\ ~Is(e, "'")  BY <1>8 DEF Is
  <2>2. CASE Is(e + 1, "\"")
    <3>1. ~Is(e + 1, "'")  BY <2>2 DEF Is
    <3>2. Lexeme(i) = L("refused", 1)  BY <1>1, <1>2, <1>8, <2>1, <2>2, <3>1, WordLexeme
    <3>3. Token("quoted", <<>>, 0)  BY <1>4, <1>8, <2>1, <2>2
    <3>4. Lexeme(i).end = 1  BY <3>2 DEF L
    <3>5. PICK z : z = 0  OBVIOUS
    <3>6. QED  BY <3>3, <3>4, <3>5, TokenTurn
  <2>3. CASE Is(e + 1, "'")
    <3>1. ~Is(e + 1, "\"")  BY <2>3 DEF Is
    <3>2. Lexeme(i) = L("string", LiteralEnd(e + 1, "'"))
      BY <1>1, <1>2, <1>8, <2>1, <2>3, <3>1, WordLexeme
    <3>3. e + 1 \in i .. n /\ (e + 1) + 1 = e + 2  BY <1>1, <1>5, <2>3 DEF Is
    <3>4. Token("string", <<>>, skipQuoted((e + 1) + 1, "'"))
      BY <1>4, <1>8, <2>1, <2>3, <3>1, <3>3
    <3>5. <<>> = Spelled("string", i, skipQuoted((e + 1) + 1, "'"))  BY SpelledIs
    <3>6. QED  BY <3>2, <3>3, <3>4, <3>5, LiteralTurn
  <2>4. CASE ~Is(e + 1, "'") /\ ~Is(e + 1, "\"")
    <3>1. Lexeme(i) = L("word", e)  BY <1>1, <1>2, <1>8, <2>1, <2>4, WordLexeme
    <3>2. Token("word", w, e)  BY <1>4, <1>8, <2>1, <2>4
    <3>3. e # 0  BY <1>1, <1>5
    <3>4. QED  BY <1>5, <1>11, <3>1, <3>2, <3>3, TokenTurn
  <2>5. QED  BY <2>2, <2>3, <2>4
<1>9. CASE ~(e = i + 1 /\ text[i] \in {"u", "U"} /\ Is(e, "&"))
           /\ ~(e = i + 1 /\ Is(e, "'") /\ text[i] \in {"b", "u", "U", "e", "E"})
  <2>1. Lexeme(i) = L("word", e)  BY <1>1, <1>2, <1>9, WordLexeme
  <2>2. Token("word", w, e)  BY <1>4, <1>9
  <2>3. e # 0  BY <1>1, <1>5
  <2>4. QED  BY <1>5, <1>11, <2>1, <2>2, <2>3, TokenTurn
<1>10. QED  BY <1>6, <1>7, <1>8, <1>9

\* Any other character is one turn.
LEMMA PunctTurn == ASSUME Shape, Punct PROVE Turn
<1>1. n \in Nat /\ i \in 1 .. n  BY Scans, Zenon DEF Punct
<1>2. /\ ~isSpace(text[i]) /\ ~(text[i] = "-" /\ Is(i + 1, "-"))
      /\ ~(text[i] = "/" /\ Is(i + 1, "*")) /\ text[i] \notin {"'", "\"", "$"}
      /\ ~(isDigit(text[i]) \/ (text[i] = "." /\ i < n /\ isDigit(text[i + 1])))
      /\ ~isIdentStart(text[i])
  <2>1. Is(i, "-") <=> text[i] = "-"  BY <1>1 DEF Is
  <2>2. Is(i, "/") <=> text[i] = "/"  BY <1>1 DEF Is
  <2>3. QED  BY <2>1, <2>2 DEF Punct, AtLineComment, AtBlockComment, AtNumber
<1>3. Lexeme(i) = L("punct", i + 1)
  <2>1. i \in Int  BY <1>1
  <2>2. QED  BY <1>2, <2>1, PunctLexeme, Zenon
<1>4. Token("punct", <<text[i]>>, i + 1)  BY DEF Punct
<1>5. i + 1 \in i + 1 .. n + 1 /\ i + 1 # 0  BY <1>1
<1>6. <<text[i]>> = Spelled("punct", i, i + 1)  BY <1>2, SpelledIs, Zenon
<1>7. QED  BY <1>3, <1>4, <1>5, <1>6, TokenTurn

\* Every turn of tokenize's loop passes one lexeme, or refuses one that has no end.
LEMMA OneTurn ==
  ASSUME Shape, Next, at = "scan", i <= n
  PROVE  Turn
<1>1. n \in Nat  BY DEF Shape, n
<1>2. ~Finish /\ ~Return  BY <1>1 DEF Finish, Return, Shape
<1>3. QED
  BY <1>2, SpaceTurn, LineCommentTurn, BlockCommentTurn, StringTurn, QuotedIdentTurn, DollarTurn,
     NumberTurn, WordTurn, PunctTurn DEF Next

-----------------------------------------------------------------------------
(* The shape of the state *)

\* Max is the greatest member of a nonempty set of places.
LEMMA MaxIs ==
  ASSUME NEW m \in Nat, NEW S, S \subseteq 1 .. m, S # {}
  PROVE  Max(S) \in S /\ \A y \in S : y <= Max(S)
<1> DEFINE U == {u \in Nat : \A x \in S : x <= u}
<1>1. m \in U  OBVIOUS
<1>2. PICK u \in U : \A y \in U : u <= y
  <2>1. U \subseteq Nat /\ U # {}  BY <1>1
  <2> HIDE DEF U
  <2>2. QED  BY <2>1, LeastNat
<1>3. u \in S
  <2>1. SUFFICES ASSUME u \notin S  PROVE FALSE  OBVIOUS
  <2>2. u \in Nat /\ \A x \in S : x <= u /\ x # u /\ x \in Nat /\ x >= 1  BY <2>1
  <2>3. u >= 1
    <3>1. PICK x : x \in S  OBVIOUS
    <3>2. QED  BY <2>2, <3>1
  <2>4. \A x \in S : x <= u - 1  BY <2>2
  <2>5. u - 1 \in U  BY <2>2, <2>3, <2>4
  <2>6. QED  BY <1>2, <2>2, <2>5
<1>4. \E x \in S : \A y \in S : x >= y  BY <1>3
<1>5. \A y \in S : Max(S) >= y  BY <1>4 DEF Max
<1>6. Max(S) \in S  BY <1>4 DEF Max
<1>7. QED  BY <1>5, <1>6

\* A part of a text is a text.
LEMMA Parts ==
  ASSUME NEW s \in Seq(STRING), NEW a \in Nat, NEW b \in 0 .. Len(s), a >= 1
  PROVE  SubSeq(s, a, b) \in Seq(STRING)
<1>1. \A j \in a .. b : s[j] \in STRING  OBVIOUS
<1>2. QED  BY <1>1, SubSeqProperties

\* A trimmed text is a text.
LEMMA TrimmedType ==
  ASSUME NEW s \in Seq(STRING)
  PROVE  Trimmed(s) \in Seq(STRING)
<1>1. PICK kept : kept = Kept(s)  OBVIOUS
<1>2. Trimmed(s) = IF kept = {} THEN <<>> ELSE SubSeq(s, Min(kept), Max(kept))
  BY <1>1, Zenon DEF Trimmed
<1>3. kept \subseteq 1 .. Len(s) /\ Len(s) \in Nat  BY <1>1 DEF Kept
<1>4. CASE kept = {}  BY <1>2, <1>4
<1>5. CASE kept # {}
  <2>1. Max(kept) \in kept  BY <1>3, <1>5, MaxIs
  <2>2. kept \subseteq Nat  BY <1>3
  <2>3. Min(kept) \in kept  BY <1>5, <2>2, MinIs
  <2>4. PICK a \in 1 .. Len(s), b \in 1 .. Len(s) : a = Min(kept) /\ b = Max(kept)
    BY <1>3, <2>1, <2>3
  <2>5. a \in Nat /\ a >= 1 /\ b \in 0 .. Len(s)  BY <1>3
  <2>6. SubSeq(s, a, b) \in Seq(STRING)  BY <2>5, Parts
  <2>7. QED  BY <1>2, <1>5, <2>4, <2>6
<1>6. QED  BY <1>4, <1>5

\* What one more token does to the tokens.
LEMMA TokensGrow ==
  ASSUME n \in Nat, NEW s, IsTokens(s), NEW t, t.pos \in 1 .. n
  PROVE  /\ IsTokens(Append(s, t)) /\ Len(Append(s, t)) = Len(s) + 1
         /\ Append(s, t)[Len(Append(s, t))] = t
<1>1. PICK X : s \in Seq(X) /\ \A x \in X : x.pos \in 1 .. n  BY DEF IsTokens
<1>2. s \in Seq(X \cup {t}) /\ t \in X \cup {t}  BY <1>1, SeqMonotonic
<1>3. /\ Append(s, t) \in Seq(X \cup {t}) /\ Len(Append(s, t)) = Len(s) + 1
      /\ Append(s, t)[Len(s) + 1] = t
  BY <1>2, AppendProperties
<1>4. \A x \in X \cup {t} : x.pos \in 1 .. n  BY <1>1
<1>5. QED  BY <1>3, <1>4 DEF IsTokens

\* Classify cuts within the text.
LEMMA CutInside ==
  ASSUME Shape, toks # <<>>
  PROVE  Cut.end - 1 \in 0 .. n
<1>1. PICK X : toks \in Seq(X) /\ \A x \in X : x.pos \in 1 .. n  BY DEF Shape, IsTokens
<1>2. toks[Len(toks)] \in X  BY <1>1
<1>3. toks[Len(toks)].pos \in 1 .. n /\ n \in Nat  BY <1>1, <1>2 DEF Shape, n
<1>4. Cut.end = toks[Len(toks)].pos \/ Cut.end = n + 1  BY DEF Cut
<1>5. QED  BY <1>3, <1>4

\* A turn keeps the shape of the state.
LEMMA TurnShape == ASSUME Shape, Turn PROVE Shape'
<1>1. n' = n /\ n \in Nat /\ text' \in Seq(STRING)  BY DEF Turn, Shape, n
<1>2. CASE Refuses(Lexeme(i))
  <2>1. i' = i /\ toks' = toks  BY <1>2 DEF Refuses
  <2>2. QED  BY <1>1, <2>1 DEF Shape, IsTokens
<1>3. CASE Passes(Lexeme(i))
  <2>1. i' \in i + 1 .. n + 1 /\ i \in 1 .. n + 1  BY <1>3 DEF Passes, Shape
  <2>2. i \in 1 .. n /\ i' \in 1 .. n + 1  BY <1>1, <2>1
  <2>3. IsTokens(toks')
    <3>1. CASE toks' = toks  BY <3>1 DEF Shape
    <3>2. CASE toks' # toks
      <4>1. PICK t : t = TokenOf(i, Lexeme(i))  OBVIOUS
      <4>2. toks' = Append(toks, t)  BY <1>3, <3>2, <4>1, Zenon DEF Passes
      <4>3. t.pos \in 1 .. n  BY <2>2, <4>1 DEF TokenOf
      <4>4. QED  BY <1>1, <4>2, <4>3, TokensGrow DEF Shape
    <3>3. QED  BY <3>1, <3>2
  <2>4. IsTokens(toks)'  BY <1>1, <2>3 DEF IsTokens
  <2>5. QED  BY <1>1, <2>2, <2>4 DEF Shape
<1>4. QED  BY <1>2, <1>3 DEF Turn

\* A text to be read has that shape.
LEMMA ShapeStarts == Init => Shape
<1>1. SUFFICES ASSUME Init  PROVE Shape  OBVIOUS
<1>2. text \in Seq(STRING) /\ i = 1 /\ toks = <<>>  BY <1>1, TextsAssumption DEF Init
<1>3. 1 \in 1 .. n + 1  BY <1>2 DEF n
<1>4. PICK X : X = {}  OBVIOUS
<1>5. toks \in Seq(X) /\ \A x \in X : x.pos \in 1 .. n  BY <1>2, <1>4, EmptySeq
<1>6. IsTokens(toks)  BY <1>5, Zenon DEF IsTokens
<1>7. QED  BY <1>2, <1>3, <1>6 DEF Shape

\* The state keeps its shape: the position stays within the text and every
\* token starts within it, so that no read of tokenize or Classify is outside.
LEMMA ShapeHolds == Spec => []Shape
<1>2. Shape /\ [Next]_vars => Shape'
  <2>1. SUFFICES ASSUME Shape, [Next]_vars  PROVE Shape'  OBVIOUS
  <2>2. CASE at = "scan" /\ i <= n /\ Next  BY <2>1, <2>2, OneTurn, TurnShape
  <2>3. CASE Finish \/ vars' = vars
    <3>1. text' = text /\ i' = i /\ toks' = toks  BY <2>3 DEF Finish, vars
    <3>2. n' = n  BY <3>1 DEF n
    <3>3. IsTokens(toks)' <=> IsTokens(toks)  BY <3>1, <3>2 DEF IsTokens
    <3>4. QED  BY <2>1, <3>1, <3>2, <3>3 DEF Shape
  <2>4. CASE Return
    <3>1. toks # <<>> /\ text' = Trimmed(SubSeq(text, 1, Cut.end - 1)) /\ i' = 1 /\ toks' = <<>>
      BY <2>4 DEF Return
    <3>2. PICK m : m = Cut.end - 1  OBVIOUS
    <3>3. m \in 0 .. Len(text) /\ text \in Seq(STRING)  BY <2>1, <3>1, <3>2, CutInside DEF Shape, n
    <3>4. PICK s : s = SubSeq(text, 1, m)  OBVIOUS
    <3>5. s \in Seq(STRING)  BY <3>3, <3>4, Parts
    <3>6. text' \in Seq(STRING)  BY <3>1, <3>2, <3>4, <3>5, TrimmedType
    <3>7. 1 \in 1 .. n' + 1  BY <3>6 DEF n
    <3>8. <<>> \in Seq({})  OBVIOUS
    <3>9. IsTokens(toks)'  BY <3>1, <3>8 DEF IsTokens
    <3>10. QED  BY <3>1, <3>6, <3>7, <3>9 DEF Shape
  <2>5. Next => (at = "scan" /\ i <= n /\ Next) \/ Finish \/ Return
    BY DEF Next, Scanning, Space, LineComment, BlockComment, String, QuotedIdent, Dollar, Number,
       Word, Punct
  <2>6. QED  BY <2>1, <2>2, <2>3, <2>4, <2>5
<1>3. QED  BY <1>2, ShapeStarts, PTL DEF Spec

\* Whatever the text, every turn of tokenize's loop passes exactly one lexeme,
\* and a text is refused exactly when the lexeme it has come to has no end.
THEOREM OneLexemeHolds == Spec => OneLexeme
<1> DEFINE Step == at = "scan" /\ i <= n =>
       LET x == Lexeme(i) IN
       IF x.end = 1 THEN at' = "rejected"
       ELSE /\ i' = x.end
            /\ IF x.kind = "skip" THEN toks' = toks
               ELSE /\ Len(toks') = Len(toks) + 1
                    /\ toks'[Len(toks')].kind = x.kind /\ toks'[Len(toks')].pos = i
<1>1. Shape /\ [Next]_vars => [Step]_vars
  <2>1. SUFFICES ASSUME Shape, Next, at = "scan", i <= n  PROVE Step  OBVIOUS
  <2>2. PICK x : x = Lexeme(i)  OBVIOUS
  <2>3. Passes(x) \/ Refuses(x)  BY <2>1, <2>2, OneTurn DEF Turn
  <2>4. CASE Refuses(x)  BY <2>2, <2>4 DEF Refuses
  <2>5. CASE Passes(x)
    <3>1. x.end \in i + 1 .. n + 1 /\ i \in 1 .. n + 1 /\ n \in Nat /\ i' = x.end
      BY <2>1, <2>5 DEF Passes, Shape, n
    <3>2. x.end # 1 /\ i \in 1 .. n  BY <3>1
    <3>3. CASE x.kind = "skip"
      <4>1. toks' = toks  BY <2>5, <3>3 DEF Passes
      <4>2. QED  BY <2>2, <3>1, <3>2, <3>3, <4>1
    <3>4. CASE x.kind # "skip"
      <4>1. PICK t : t = TokenOf(i, x)  OBVIOUS
      <4>2. toks' = Append(toks, t)  BY <2>5, <3>4, <4>1, Zenon DEF Passes
      <4>3. t.pos = i /\ t.kind = x.kind  BY <4>1 DEF TokenOf
      <4>4. Len(toks') = Len(toks) + 1 /\ toks'[Len(toks')] = t
        BY <2>1, <3>1, <3>2, <4>2, <4>3, TokensGrow DEF Shape
      <4>5. QED  BY <2>2, <3>1, <3>2, <3>4, <4>3, <4>4
    <3>5. QED  BY <3>3, <3>4
  <2>6. QED  BY <2>3, <2>4, <2>5
<1>2. QED  BY <1>1, ShapeHolds, PTL DEF Spec, OneLexeme

-----------------------------------------------------------------------------
(* A text that is cut *)

\* Classify keeps the text from lo to hi: what follows hi is blank up to e, the
\* end of the text or a semicolon.
Cuts(lo, hi, e) ==
  /\ text \in Seq(STRING)
  /\ lo \in 1 .. n /\ hi \in lo .. n /\ e \in hi + 1 .. n + 1
  /\ ~isSpace(text[hi]) /\ \A j \in hi + 1 .. e - 1 : isSpace(text[j])
  /\ e <= n => text[e] = ";"
  /\ text' = SubSeq(text, lo, hi)

\* What is kept is the text from lo to hi, moved to the front.
LEMMA CutKeeps ==
  ASSUME NEW lo, NEW hi, NEW e, Cuts(lo, hi, e)
  PROVE  /\ n \in Nat /\ lo \in Nat /\ lo >= 1 /\ hi \in Nat /\ lo <= hi /\ hi <= n
         /\ e \in Nat /\ hi < e /\ e <= n + 1
         /\ n' = hi - (lo - 1) /\ n' \in Nat /\ text' \in Seq(STRING)
         /\ \A j \in lo .. hi : text'[j - (lo - 1)] = text[j]
         /\ \A j \in 1 .. n' : text'[j] = text[j + (lo - 1)]
<1>0. /\ text \in Seq(STRING) /\ lo \in 1 .. n /\ hi \in lo .. n /\ e \in hi + 1 .. n + 1
      /\ text' = SubSeq(text, lo, hi)
  BY Zenon DEF Cuts
<1>1. /\ n \in Nat /\ lo \in Nat /\ lo >= 1 /\ hi \in Nat /\ lo <= hi /\ hi <= n
      /\ e \in Nat /\ hi < e /\ e <= n + 1
  <2>1. n \in Nat  BY <1>0 DEF n
  <2>2. QED  BY <1>0, <2>1
<1>2. n' = Len(SubSeq(text, lo, hi))  BY DEF Cuts, n
<1>3. \A j \in lo .. hi : text[j] \in STRING  BY <1>0, <1>1 DEF n
<1>4. /\ SubSeq(text, lo, hi) \in Seq(STRING)
      /\ Len(SubSeq(text, lo, hi)) = hi - lo + 1
      /\ \A j \in 1 .. hi - lo + 1 : SubSeq(text, lo, hi)[j] = text[lo + j - 1]
  BY <1>1, <1>3, SubSeqProperties
<1>5. n' = hi - (lo - 1) /\ n' \in Nat /\ text' \in Seq(STRING)  BY <1>0, <1>1, <1>2, <1>4
<1>6. \A j \in 1 .. hi - lo + 1 : text'[j] = text[lo + j - 1]  BY <1>4 DEF Cuts
<1>7. ASSUME NEW j \in lo .. hi  PROVE text'[j - (lo - 1)] = text[j]
  <2>1. j - (lo - 1) \in 1 .. hi - lo + 1 /\ lo + (j - (lo - 1)) - 1 = j  BY <1>1
  <2>2. QED  BY <1>6, <2>1
<1>8. ASSUME NEW j \in 1 .. n'  PROVE text'[j] = text[j + (lo - 1)]
  <2>1. j \in 1 .. hi - lo + 1 /\ lo + j - 1 = j + (lo - 1)  BY <1>1, <1>5
  <2>2. QED  BY <1>6, <2>1
<1>9. QED  BY <1>1, <1>5, <1>7, <1>8

\* What is behind the cut opens, closes and continues nothing.
Stops(c) == isSpace(c) \/ c = ";"

\* A character that could open or continue something is seen in the text that
\* is left exactly where it was seen in the text.
LEMMA CutSees ==
  ASSUME NEW lo, NEW hi, NEW e, Cuts(lo, hi, e), NEW j \in lo .. hi + 1, NEW c, ~Stops(c)
  PROVE  Is(j - (lo - 1), c)' <=> Is(j, c)
<1>1. CASE j <= hi
  <2>1. j - (lo - 1) <= n' /\ j <= n /\ j \in lo .. hi  BY <1>1, CutKeeps
  <2>2. text'[j - (lo - 1)] = text[j]  BY <2>1, CutKeeps
  <2>3. QED  BY <2>1, <2>2 DEF Is
<1>2. CASE j > hi
  <2>1. j = hi + 1 /\ ~(j - (lo - 1) <= n')
    <3>1. lo \in Nat /\ hi \in Nat /\ n' = hi - (lo - 1)  BY CutKeeps
    <3>2. QED  BY <1>2, <3>1
  <2>2. ~Is(j - (lo - 1), c)'  BY <2>1 DEF Is
  <2>3. ASSUME j <= n  PROVE Stops(text[j])
    <3>1. CASE j = e  BY <2>3, <3>1 DEF Cuts, Stops
    <3>2. CASE j # e
      <4>1. j \in hi + 1 .. e - 1  BY <2>1, <3>2, CutKeeps
      <4>2. QED  BY <4>1 DEF Cuts, Stops
    <3>3. QED  BY <3>1, <3>2
  <2>4. ~Is(j, c)  BY <2>3 DEF Is
  <2>5. QED  BY <2>2, <2>4
<1>3. QED
  <2>1. j \in Int /\ hi \in Int  BY CutKeeps
  <2>2. QED  BY <1>1, <1>2, <2>1

\* A character before the cut that is no blank is kept.
LEMMA NotBlank ==
  ASSUME NEW lo, NEW hi, NEW e, Cuts(lo, hi, e), NEW j \in Int, lo <= j, j < e, ~isSpace(text[j])
  PROVE  j \in lo .. hi
<1>1. j \notin hi + 1 .. e - 1  BY DEF Cuts
<1>2. QED  BY <1>1, CutKeeps

\* The first of a set of places, in the text that is left.
LEMMA LeastCut ==
  ASSUME NEW X, X \subseteq Nat, 0 \notin X, NEW Y, Y \subseteq Nat, NEW d \in Nat, NEW hi \in Nat,
         \A y \in Y : y + d \in X, \A x \in X : x <= hi => x - d \in Y,
         Least(X) # 0, Least(X) <= hi
  PROVE  Least(Y) = Least(X) - d /\ Least(X) \in X
<1>1. X # {} /\ Least(X) = Min(X)  BY DEF Least
<1>2. PICK m : m = Least(X)  OBVIOUS
<1>3. m \in X /\ \A y \in X : m <= y  BY <1>1, <1>2, MinIs
<1>4. m - d \in Y  BY <1>2, <1>3
<1>5. ASSUME NEW y \in Y  PROVE m - d <= y
  <2>1. y + d \in X /\ m <= y + d  BY <1>3, <1>5
  <2>2. m \in Nat /\ y \in Nat  BY <1>3
  <2>3. QED  BY <2>1, <2>2
<1>6. Min(Y) = m - d  BY <1>4, <1>5, MinOf
<1>7. QED  BY <1>2, <1>3, <1>4, <1>6 DEF Least

\* A set of places that is moved has as many members as before.
LEMMA Shifted ==
  ASSUME NEW S, S \subseteq Int, IsFiniteSet(S), NEW d \in Int, NEW R, R \subseteq Int,
         \A r \in R : r + d \in S, \A s \in S : s - d \in R
  PROVE  Cardinality(R) = Cardinality(S)
<1> DEFINE f == [s \in S |-> s - d]
<1>1. f \in Bijection(S, R)
  <2>1. f \in [S -> R]  OBVIOUS
  <2>2. \A s, t \in S : f[s] = f[t] => s = t  OBVIOUS
  <2>3. \A r \in R : \E s \in S : f[s] = r
    <3>1. SUFFICES ASSUME NEW r \in R  PROVE \E s \in S : f[s] = r  OBVIOUS
    <3>2. r + d \in S /\ f[r + d] = r  OBVIOUS
    <3>3. QED  BY <3>2
  <2> HIDE DEF f
  <2>4. QED  BY <2>1, <2>2, <2>3 DEF Bijection, Injection, Surjection, IsInjective
<1> HIDE DEF f
<1>2. QED  BY <1>1, FS_Bijection DEF ExistsBijection

-----------------------------------------------------------------------------
(* Lexemes of a text that is cut *)

\* As many quotes as before lie between two places that are kept.
LEMMA CountCut ==
  ASSUME NEW lo, NEW hi, NEW e, Cuts(lo, hi, e), NEW d, d = lo - 1,
         NEW a \in Int, a >= lo, NEW b \in Int, b <= hi, NEW q
  PROVE  Count(a - d, b - d, q)' = Count(a, b, q)
<1>1. lo \in Nat /\ hi \in Nat /\ d \in Int /\ n' = hi - d  BY CutKeeps
<1> DEFINE S == {j \in a .. b : text[j] = q}
           R == {j \in a - d .. b - d : text'[j] = q}
<1>2. Count(a, b, q) = Cardinality(S) /\ Count(a - d, b - d, q)' = Cardinality(R)  BY DEF Count
<1>3. IsFiniteSet(S)
  <2>1. IsFiniteSet(a .. b)  BY FS_Interval
  <2>2. S \in SUBSET (a .. b)  OBVIOUS
  <2> HIDE DEF S
  <2>3. QED  BY <2>1, <2>2, FS_Subset
<1>4. S \subseteq Int /\ R \subseteq Int  BY <1>1
<1>5. ASSUME NEW r \in R  PROVE r + d \in S
  <2>1. r \in Int /\ r + d \in a .. b /\ r \in 1 .. n' /\ text'[r] = q  BY <1>1
  <2>2. text'[r] = text[r + d]  BY <2>1, CutKeeps
  <2>3. QED  BY <2>1, <2>2
<1>6. ASSUME NEW s \in S  PROVE s - d \in R
  <2>1. s \in Int /\ s - d \in a - d .. b - d /\ s \in lo .. hi /\ text[s] = q  BY <1>1
  <2>2. text'[s - d] = text[s]  BY <2>1, CutKeeps
  <2>3. QED  BY <2>1, <2>2
<1> HIDE DEF S, R
<1>7. QED  BY <1>1, <1>2, <1>3, <1>4, <1>5, <1>6, Shifted

\* A literal before the cut ends where it did.
LEMMA LiteralCut ==
  ASSUME NEW lo, NEW hi, NEW e, Cuts(lo, hi, e), NEW d, d = lo - 1,
         NEW a \in lo .. hi, NEW q, ~Stops(q), LiteralEnd(a, q) # 1, LiteralEnd(a, q) <= e
  PROVE  LiteralEnd(a - d, q)' = LiteralEnd(a, q) - d /\ LiteralEnd(a, q) \in a + 2 .. hi + 1
<1>1. /\ lo \in Nat /\ lo >= 1 /\ hi \in Nat /\ hi <= n /\ n \in Nat /\ e \in Nat /\ d \in Nat
      /\ n' = hi - d /\ n' \in Nat
  BY CutKeeps
<1>2. PICK X : X = Closing(a + 1, q)  OBVIOUS
<1>3. PICK Y : Y = Closing((a + 1) - d, q)'  OBVIOUS
<1>4. LiteralEnd(a, q) = Least(X) + 1  BY <1>2 DEF LiteralEnd, Closing
<1>5. LiteralEnd(a - d, q)' = Least(Y) + 1
  <2>1. (a - d) + 1 = (a + 1) - d  BY <1>1
  <2>2. Y = {b \in (a - d) + 1 .. n' : /\ text'[b] = q /\ ~Is(b + 1, q)'
                                       /\ Count((a - d) + 1, b, q)' % 2 = 1}
    BY <1>3, <2>1 DEF Closing
  <2>3. QED  BY <2>2 DEF LiteralEnd, Least
<1>6. /\ \A x \in X : x \in a + 1 .. n /\ text[x] = q /\ ~Is(x + 1, q) /\ Count(a + 1, x, q) % 2 = 1
      /\ \A x \in a + 1 .. n : text[x] = q /\ ~Is(x + 1, q) /\ Count(a + 1, x, q) % 2 = 1 => x \in X
  BY <1>2 DEF Closing
<1>7. /\ \A y \in Y : /\ y \in (a + 1) - d .. n' /\ text'[y] = q /\ ~Is(y + 1, q)'
                      /\ Count((a + 1) - d, y, q)' % 2 = 1
      /\ \A y \in (a + 1) - d .. n' :
            text'[y] = q /\ ~Is(y + 1, q)' /\ Count((a + 1) - d, y, q)' % 2 = 1 => y \in Y
  BY <1>3 DEF Closing
<1>8. ASSUME NEW x \in a + 1 .. hi
      PROVE  /\ text'[x - d] = text[x] /\ Count((a + 1) - d, x - d, q)' = Count(a + 1, x, q)
             /\ Is((x - d) + 1, q)' <=> Is(x + 1, q)
             /\ x - d \in (a + 1) - d .. n'
  <2>1. x \in lo .. hi /\ x + 1 \in lo .. hi + 1 /\ (x + 1) - d = (x - d) + 1  BY <1>1
  <2>2. text'[x - d] = text[x]  BY <2>1, CutKeeps
  <2>3. Count((a + 1) - d, x - d, q)' = Count(a + 1, x, q)
    <3>1. a + 1 \in Int /\ a + 1 >= lo /\ x \in Int /\ x <= hi  BY <1>1
    <3>2. QED  BY <3>1, CountCut
  <2>4. Is((x + 1) - d, q)' <=> Is(x + 1, q)  BY <2>1, CutSees
  <2>5. QED  BY <1>1, <2>1, <2>2, <2>3, <2>4
<1>9. \A x \in X : x <= hi => x - d \in Y
  <2>1. SUFFICES ASSUME NEW x \in X, x <= hi  PROVE x - d \in Y  OBVIOUS
  <2>2. x \in a + 1 .. hi  BY <1>1, <1>6, <2>1
  <2>3. QED  BY <1>6, <1>7, <1>8, <2>2
<1>10. \A y \in Y : y + d \in X
  <2>1. SUFFICES ASSUME NEW y \in Y  PROVE y + d \in X  OBVIOUS
  <2>2. y \in (a + 1) - d .. n'  BY <1>7
  <2>3. y + d \in a + 1 .. hi /\ (y + d) - d = y /\ y + d \in a + 1 .. n  BY <1>1, <2>2
  <2>4. PICK x : x = y + d  OBVIOUS
  <2>5. x \in a + 1 .. hi /\ x - d = y /\ x \in a + 1 .. n  BY <2>3, <2>4
  <2>6. x \in X  BY <1>6, <1>7, <1>8, <2>5
  <2>7. QED  BY <2>4, <2>6
<1>11. X \subseteq Nat /\ 0 \notin X /\ Y \subseteq Nat  BY <1>1, <1>6, <1>7
<1>12. Least(X) \in X
  <2>1. Least(X) # 0 /\ X # {}  BY <1>4 DEF Least
  <2>2. QED  BY <1>11, <2>1, MinIs DEF Least
<1>13. PICK m : m = Least(X)  OBVIOUS
<1>14. m \in lo .. hi
  <2>1. m \in Int /\ lo <= m /\ m < e  BY <1>1, <1>4, <1>6, <1>12, <1>13
  <2>2. ~isSpace(text[m])  BY <1>6, <1>12, <1>13 DEF Stops
  <2>3. QED  BY <2>1, <2>2, NotBlank
<1>15. m # 0 /\ m <= hi  BY <1>1, <1>14
<1>16. Least(Y) = m - d  BY <1>1, <1>9, <1>10, <1>11, <1>13, <1>15, LeastCut
<1>17. m \in a + 1 .. n  BY <1>6, <1>12, <1>13
<1>18. QED  BY <1>1, <1>4, <1>5, <1>13, <1>14, <1>16, <1>17

\* A part that is kept is the same part as before.
LEMMA SubSeqCut ==
  ASSUME NEW lo, NEW hi, NEW e, Cuts(lo, hi, e), NEW d, d = lo - 1,
         NEW x \in Int, x >= lo, NEW y \in Int, y <= hi
  PROVE  SubSeq(text', x - d, y - d) = SubSeq(text, x, y)
<1>1. lo \in Nat /\ lo >= 1 /\ hi \in Nat /\ hi <= n /\ d \in Nat /\ n' = hi - d /\ n \in Nat
  BY CutKeeps
<1>2. x - d \in Int /\ y - d \in Int  BY <1>1
<1>3. text \in Seq(STRING) /\ text' \in Seq(STRING)  BY CutKeeps DEF Cuts
<1>4. \A j \in x .. y : text[j] \in STRING  BY <1>1, <1>3 DEF n
<1>5. \A j \in x - d .. y - d : text'[j] \in STRING
  <2>1. \A j \in x - d .. y - d : j \in 1 .. n'  BY <1>1
  <2>2. QED  BY <1>3, <2>1 DEF n
<1>6. PICK s : s = SubSeq(text, x, y)  OBVIOUS
<1>7. PICK t : t = SubSeq(text', x - d, y - d)  OBVIOUS
<1>8. /\ s \in Seq(STRING) /\ Len(s) = IF x <= y THEN y - x + 1 ELSE 0
      /\ \A j \in 1 .. y - x + 1 : s[j] = text[x + j - 1]
  BY <1>4, <1>6, SubSeqProperties
<1>9. /\ t \in Seq(STRING) /\ Len(t) = IF x - d <= y - d THEN (y - d) - (x - d) + 1 ELSE 0
      /\ \A j \in 1 .. (y - d) - (x - d) + 1 : t[j] = text'[(x - d) + j - 1]
  <2>1. PICK u : u = text'  OBVIOUS
  <2>2. \A j \in x - d .. y - d : u[j] \in STRING  BY <1>5, <2>1
  <2>3. t = SubSeq(u, x - d, y - d)  BY <1>7, <2>1
  <2>4. /\ t \in Seq(STRING) /\ Len(t) = IF x - d <= y - d THEN (y - d) - (x - d) + 1 ELSE 0
        /\ \A j \in 1 .. (y - d) - (x - d) + 1 : t[j] = u[(x - d) + j - 1]
    BY <1>2, <2>2, <2>3, SubSeqProperties
  <2>5. QED  BY <2>1, <2>4
<1>10. Len(s) = Len(t)
  <2>1. (x - d <= y - d <=> x <= y) /\ (y - d) - (x - d) + 1 = y - x + 1  BY <1>1
  <2>2. QED  BY <1>8, <1>9, <2>1
<1>11. ASSUME NEW j \in 1 .. Len(s)  PROVE s[j] = t[j]
  <2>1. j \in 1 .. y - x + 1 /\ j \in 1 .. (y - d) - (x - d) + 1  BY <1>1, <1>8
  <2>2. s[j] = text[x + j - 1] /\ t[j] = text'[(x - d) + j - 1]  BY <1>8, <1>9, <2>1
  <2>3. x + j - 1 \in lo .. hi /\ (x - d) + j - 1 = (x + j - 1) - d  BY <1>1, <2>1
  <2>4. text'[(x + j - 1) - d] = text[x + j - 1]  BY <2>3, CutKeeps
  <2>5. QED  BY <2>2, <2>3, <2>4
<1>12. s = t  BY <1>8, <1>9, <1>10, <1>11, SeqEqual
<1>13. QED  BY <1>6, <1>7, <1>12

\* A quote that is kept is escaped if it was.
LEMMA EscapedSame ==
  ASSUME NEW lo, NEW hi, NEW e, Cuts(lo, hi, e), NEW d, d = lo - 1,
         NEW a \in Int, a >= lo, NEW b \in Int, b <= hi + 1
  PROVE  Escaped(a - d, b - d)' <=> Escaped(a, b)
<1>1. lo \in Nat /\ hi \in Nat /\ d \in Nat  BY CutKeeps
<1> DEFINE S == {k \in 1 .. b - a - 1 : \A j \in b - k .. b - 1 : text[j] = "\\"}
           R == {k \in 1 .. (b - d) - (a - d) - 1 :
                   \A j \in (b - d) - k .. (b - d) - 1 : text'[j] = "\\"}
<1>2. (b - d) - (a - d) - 1 = b - a - 1  BY <1>1
<1>3. ASSUME NEW k \in 1 .. b - a - 1, k \in S  PROVE k \in R
  <2>1. SUFFICES ASSUME NEW j \in (b - d) - k .. (b - d) - 1  PROVE text'[j] = "\\"  BY <1>2
  <2>2. j + d \in b - k .. b - 1 /\ j + d \in lo .. hi /\ (j + d) - d = j  BY <1>1
  <2>3. text'[(j + d) - d] = text[j + d]  BY <2>2, CutKeeps
  <2>4. QED  BY <1>3, <2>2, <2>3
<1>4. ASSUME NEW k \in 1 .. b - a - 1, k \in R  PROVE k \in S
  <2>1. SUFFICES ASSUME NEW j \in b - k .. b - 1  PROVE text[j] = "\\"  OBVIOUS
  <2>2. j - d \in (b - d) - k .. (b - d) - 1 /\ j \in lo .. hi  BY <1>1
  <2>3. text'[j - d] = text[j]  BY <2>2, CutKeeps
  <2>4. QED  BY <1>4, <2>2, <2>3
<1>5. S = R
  <2>1. S \subseteq 1 .. b - a - 1 /\ R \subseteq 1 .. b - a - 1  BY <1>2
  <2> HIDE DEF S, R
  <2>2. QED  BY <1>3, <1>4, <2>1
<1>6. (Escaped(a, b) <=> Cardinality(S) % 2 = 1) /\ (Escaped(a - d, b - d)' <=> Cardinality(R) % 2 = 1)
  BY DEF Escaped
<1> HIDE DEF S, R
<1>7. QED  BY <1>5, <1>6

\* As many quotes count as before between two places that are kept.
LEMMA QuotesCut ==
  ASSUME NEW lo, NEW hi, NEW e, Cuts(lo, hi, e), NEW d, d = lo - 1,
         NEW a \in Int, a >= lo, NEW b \in Int, b <= hi
  PROVE  Cardinality(Quotes((a + 1) - d, b - d)') = Cardinality(Quotes(a + 1, b))
<1>0. lo \in Nat /\ lo >= 1 /\ hi \in Nat /\ n' = hi - (lo - 1)  BY CutKeeps, Zenon
<1>1. /\ lo \in Nat /\ hi \in Nat /\ d \in Nat /\ n' = hi - d
      /\ ((a + 1) - d) - 1 = a - d /\ (a + 1) - 1 = a
  BY <1>0
<1>2. PICK S : S = Quotes(a + 1, b)  OBVIOUS
<1>3. PICK R : R = Quotes((a + 1) - d, b - d)'  OBVIOUS
<1>4. \A s : s \in S <=> s \in a + 1 .. b /\ text[s] = "'" /\ ~Escaped(a, s)
  BY <1>1, <1>2 DEF Quotes
<1>5. \A r : r \in R <=> r \in (a + 1) - d .. b - d /\ text'[r] = "'" /\ ~Escaped(a - d, r)'
  BY <1>1, <1>3 DEF Quotes
<1>6. IsFiniteSet(S)
  <2>1. a + 1 \in Int  OBVIOUS
  <2>2. QED  BY <1>2, <2>1, QuotesFinite
<1>7. ASSUME NEW j \in a + 1 .. b
      PROVE  /\ text'[j - d] = text[j] /\ (Escaped(a - d, j - d)' <=> Escaped(a, j))
             /\ j - d \in (a + 1) - d .. b - d
  <2>1. j \in lo .. hi /\ j \in Int /\ j <= hi + 1  BY <1>1
  <2>2. text'[j - d] = text[j]  BY <2>1, CutKeeps
  <2>3. Escaped(a - d, j - d)' <=> Escaped(a, j)  BY <2>1, EscapedSame
  <2>4. QED  BY <1>1, <2>2, <2>3
<1>8. \A s \in S : s - d \in R
  <2>1. SUFFICES ASSUME NEW s \in S  PROVE s - d \in R  OBVIOUS
  <2>2. QED  BY <1>4, <1>5, <1>7, Zenon
<1>9. \A r \in R : r + d \in S
  <2>1. SUFFICES ASSUME NEW r \in R  PROVE r + d \in S  OBVIOUS
  <2>2. r \in (a + 1) - d .. b - d  BY <1>5
  <2>3. PICK s : s = r + d  OBVIOUS
  <2>4. s \in a + 1 .. b /\ s - d = r  BY <1>1, <2>2, <2>3
  <2>5. s \in S  BY <1>4, <1>5, <1>7, <2>4, Zenon
  <2>6. QED  BY <2>3, <2>5
<1>10. S \subseteq Int /\ R \subseteq Int /\ d \in Int  BY <1>1, <1>4, <1>5
<1>11. Cardinality(R) = Cardinality(S)  BY <1>6, <1>8, <1>9, <1>10, Shifted
<1>12. QED  BY <1>2, <1>3, <1>11

\* An E literal before the cut ends where it did.
LEMMA EscapedCut ==
  ASSUME NEW lo, NEW hi, NEW e, Cuts(lo, hi, e), NEW d, d = lo - 1,
         NEW a \in lo .. hi, EscapedEnd(a) # 1, EscapedEnd(a) <= e
  PROVE  EscapedEnd(a - d)' = EscapedEnd(a) - d /\ EscapedEnd(a) \in a + 2 .. hi + 1
<1>1. /\ lo \in Nat /\ lo >= 1 /\ hi \in Nat /\ hi <= n /\ n \in Nat /\ e \in Nat /\ d \in Nat
      /\ n' = hi - d /\ n' \in Nat
  BY CutKeeps
<1>2. PICK X : X = ClosingE(a + 1)  OBVIOUS
<1>3. PICK Y : Y = ClosingE((a + 1) - d)'  OBVIOUS
<1>0. (a + 1) - 1 = a /\ ((a + 1) - d) - 1 = a - d /\ (a - d) + 1 = (a + 1) - d  BY <1>1
<1>4. EscapedEnd(a) = Least(X) + 1  BY <1>0, <1>2 DEF EscapedEnd, ClosingE, Quotes
<1>5. EscapedEnd(a - d)' = Least(Y) + 1
  <2>1. Y = {b \in (a - d) + 1 .. n' : /\ text'[b] = "'" /\ ~Escaped(a - d, b)' /\ ~Is(b + 1, "'")'
                 /\ Cardinality({j \in (a - d) + 1 .. b : text'[j] = "'" /\ ~Escaped(a - d, j)'}) % 2 = 1}
    BY <1>0, <1>3 DEF ClosingE, Quotes
  <2>2. QED  BY <2>1 DEF EscapedEnd, Least
<1>6. \A x : x \in X <=> /\ x \in a + 1 .. n /\ text[x] = "'" /\ ~Escaped(a, x) /\ ~Is(x + 1, "'")
                         /\ Cardinality(Quotes(a + 1, x)) % 2 = 1
  BY <1>0, <1>2 DEF ClosingE
<1>7. \A y : y \in Y <=> /\ y \in (a + 1) - d .. n' /\ text'[y] = "'" /\ ~Escaped(a - d, y)'
                         /\ ~Is(y + 1, "'")' /\ Cardinality(Quotes((a + 1) - d, y)') % 2 = 1
  BY <1>0, <1>3 DEF ClosingE
<1>8. ASSUME NEW x \in a + 1 .. hi
      PROVE  /\ text'[x - d] = text[x] /\ (Escaped(a - d, x - d)' <=> Escaped(a, x))
             /\ Cardinality(Quotes((a + 1) - d, x - d)') = Cardinality(Quotes(a + 1, x))
             /\ Is((x - d) + 1, "'")' <=> Is(x + 1, "'")
             /\ x - d \in (a + 1) - d .. n'
  <2>1. x \in lo .. hi /\ x + 1 \in lo .. hi + 1 /\ (x + 1) - d = (x - d) + 1  BY <1>1
  <2>2. text'[x - d] = text[x]  BY <2>1, CutKeeps
  <2>3. a \in Int /\ a >= lo /\ x \in Int /\ x <= hi /\ x <= hi + 1  BY <1>1
  <2>4. Cardinality(Quotes((a + 1) - d, x - d)') = Cardinality(Quotes(a + 1, x))  BY <2>3, QuotesCut
  <2>5. Escaped(a - d, x - d)' <=> Escaped(a, x)  BY <2>3, EscapedSame
  <2>6. ~Stops("'")  BY DEF Stops, isSpace
  <2>7. Is((x + 1) - d, "'")' <=> Is(x + 1, "'")  BY <2>1, <2>6, CutSees
  <2>8. QED  BY <1>1, <2>1, <2>2, <2>4, <2>5, <2>7
<1>9. \A x \in X : x <= hi => x - d \in Y
  <2>1. SUFFICES ASSUME NEW x \in X, x <= hi  PROVE x - d \in Y  OBVIOUS
  <2>2. x \in a + 1 .. hi  BY <1>1, <1>6, <2>1
  <2>3. QED  BY <1>6, <1>7, <1>8, <2>2
<1>10. \A y \in Y : y + d \in X
  <2>1. SUFFICES ASSUME NEW y \in Y  PROVE y + d \in X  OBVIOUS
  <2>2. y \in (a + 1) - d .. n'  BY <1>7
  <2>3. y + d \in a + 1 .. hi /\ (y + d) - d = y /\ y + d \in a + 1 .. n  BY <1>1, <2>2
  <2>4. PICK x : x = y + d  OBVIOUS
  <2>5. x \in a + 1 .. hi /\ x - d = y /\ x \in a + 1 .. n  BY <2>3, <2>4
  <2>6. x \in X  BY <1>6, <1>7, <1>8, <2>5
  <2>7. QED  BY <2>4, <2>6
<1>11. X \subseteq Nat /\ 0 \notin X /\ Y \subseteq Nat  BY <1>1, <1>6, <1>7
<1>12. Least(X) \in X
  <2>1. Least(X) # 0 /\ X # {}  BY <1>4 DEF Least
  <2>2. QED  BY <1>11, <2>1, MinIs DEF Least
<1>13. PICK m : m = Least(X)  OBVIOUS
<1>14. m \in lo .. hi
  <2>1. m \in Int /\ lo <= m /\ m < e  BY <1>1, <1>4, <1>6, <1>12, <1>13
  <2>2. ~isSpace(text[m])  BY <1>6, <1>12, <1>13 DEF isSpace
  <2>3. QED  BY <2>1, <2>2, NotBlank
<1>15. m # 0 /\ m <= hi  BY <1>1, <1>14
<1>16. Least(Y) = m - d  BY <1>1, <1>9, <1>10, <1>11, <1>13, <1>15, LeastCut
<1>17. m \in a + 1 .. n  BY <1>6, <1>12, <1>13
<1>18. QED  BY <1>1, <1>4, <1>5, <1>13, <1>14, <1>16, <1>17

CommentsEnd ==
  n \in Nat => \A a \in 1 .. n : \E f : DepthSteps(f, a) /\ CommentEnd(a) = Least(ClosingC(f, a)) + 1

\* Comments have a depth function, in every state.
LEMMA CommentsEndNow == CommentsEnd
<1>1. SUFFICES ASSUME n \in Nat, NEW a \in 1 .. n
      PROVE  \E f : DepthSteps(f, a) /\ CommentEnd(a) = Least(ClosingC(f, a)) + 1
  BY DEF CommentsEnd
<1>2. PICK f : /\ DepthSteps(f, a)
               /\ CommentEnd(a) = Least({j \in a + 1 .. n : f[j].deep = 0 /\ f[j].second}) + 1
  BY <1>1, CommentEndIs
<1>3. QED  BY <1>2 DEF ClosingC

\* The same in the next state.
LEMMA CommentsEndNext == CommentsEnd'
BY CommentsEndNow, PTL

\* A comment is as deep as before at every place that is kept.
LEMMA DepthCut ==
  ASSUME NEW lo, NEW hi, NEW e, Cuts(lo, hi, e), NEW d, d = lo - 1, NEW a \in lo .. hi,
         NEW f, DepthSteps(f, a), NEW g, DepthSteps(g, a - d)'
  PROVE  \A j \in a .. hi : g[j - d] = f[j]
<1>1. lo \in Nat /\ hi \in Nat /\ d \in Nat /\ hi <= n /\ n \in Nat /\ n' = hi - d /\ n' \in Nat
  BY CutKeeps
<1> DEFINE S == {j \in Int : j <= hi => g[j - d] = f[j]}
<1>2. /\ f[a] = [deep |-> 0, second |-> FALSE]
      /\ \A j \in a .. n : j # a => f[j] = Deeper(j, f[j - 1])
  <2>1. a \in a .. n  BY <1>1
  <2>2. \A j \in a .. n : f[j] = IF j = a THEN [deep |-> 0, second |-> FALSE] ELSE Deeper(j, f[j - 1])
    BY Zenon DEF DepthSteps
  <2>3. QED  BY <2>1, <2>2, Zenon
<1>3. /\ g[a - d] = [deep |-> 0, second |-> FALSE]
      /\ \A j \in a - d .. n' : j # a - d => g[j] = Deeper(j, g[j - 1])'
  <2>1. a - d \in a - d .. n'  BY <1>1
  <2>2. \A j \in a - d .. n' :
          g[j] = IF j = a - d THEN [deep |-> 0, second |-> FALSE] ELSE Deeper(j, g[j - 1])'
    BY Zenon DEF DepthSteps
  <2>3. QED  BY <2>1, <2>2, Zenon
<1>4. a \in S  BY <1>2, <1>3
<1>5. ASSUME NEW j \in Int, j >= a, j \in S  PROVE j + 1 \in S
  <2>1. SUFFICES ASSUME j + 1 <= hi  PROVE g[(j + 1) - d] = f[j + 1]  BY <1>1
  <2>2. /\ j + 1 \in a .. n /\ j + 1 # a /\ (j + 1) - d \in a - d .. n' /\ (j + 1) - d # a - d
        /\ (j + 1) - 1 = j /\ ((j + 1) - d) - 1 = j - d /\ j \in lo .. hi /\ j + 1 \in lo .. hi
    BY <1>1, <1>5, <2>1
  <2>3. f[j + 1] = Deeper(j + 1, f[j])  BY <1>2, <2>2
  <2>4. g[(j + 1) - d] = Deeper((j + 1) - d, g[j - d])'  BY <1>3, <2>2
  <2>5. g[j - d] = f[j]  BY <1>5, <2>2
  <2>6. text'[j - d] = text[j] /\ text'[(j + 1) - d] = text[j + 1]  BY <2>2, CutKeeps
  <2>7. Two((j + 1) - d)' = Two(j + 1)  BY <2>2, <2>6 DEF Two
  <2>8. PICK p : p = f[j]  OBVIOUS
  <2>9. Deeper((j + 1) - d, p)' = Deeper(j + 1, p)  BY <2>7 DEF Deeper
  <2>10. QED  BY <2>3, <2>4, <2>5, <2>8, <2>9
<1> HIDE DEF S
<1>6. \A j \in Int : j >= a => j \in S
  <2>1. a \in Int  BY <1>1
  <2>2. QED  BY <1>4, <1>5, <2>1, Forwards
<1>7. ASSUME NEW j \in a .. hi  PROVE g[j - d] = f[j]
  <2>1. j \in Int /\ j >= a /\ j <= hi  BY <1>1
  <2>2. QED  BY <1>6, <2>1 DEF S
<1>8. QED  BY <1>7

\* A comment before the cut ends where it did.
LEMMA CommentCut ==
  ASSUME NEW lo, NEW hi, NEW e, Cuts(lo, hi, e), NEW d, d = lo - 1,
         NEW a \in lo .. hi, CommentEnd(a) # 1, CommentEnd(a) <= e
  PROVE  CommentEnd(a - d)' = CommentEnd(a) - d /\ CommentEnd(a) \in a + 2 .. hi + 1
<1>1. /\ lo \in Nat /\ lo >= 1 /\ hi \in Nat /\ hi <= n /\ n \in Nat /\ e \in Nat /\ d \in Nat
      /\ n' = hi - d /\ n' \in Nat
  BY CutKeeps
<1>2. PICK f : DepthSteps(f, a) /\ CommentEnd(a) = Least(ClosingC(f, a)) + 1
  <2>1. a \in 1 .. n  BY <1>1
  <2>2. QED  BY <1>1, <2>1, CommentsEndNow DEF CommentsEnd
<1>3. PICK g : DepthSteps(g, a - d)' /\ CommentEnd(a - d)' = Least(ClosingC(g, a - d)') + 1
  <2>1. a - d \in 1 .. n'  BY <1>1
  <2>2. QED  BY <1>1, <2>1, CommentsEndNext DEF CommentsEnd, Least
<1>4. \A j \in a .. hi : g[j - d] = f[j]  BY <1>2, <1>3, DepthCut
<1>5. PICK X : X = ClosingC(f, a)  OBVIOUS
<1>6. PICK Y : Y = ClosingC(g, a - d)'  OBVIOUS
<1>7. /\ \A x \in X : x \in a + 1 .. n /\ f[x].deep = 0 /\ f[x].second
      /\ \A x \in a + 1 .. n : f[x].deep = 0 /\ f[x].second => x \in X
  BY <1>5 DEF ClosingC
<1>8. /\ \A y \in Y : y \in (a - d) + 1 .. n' /\ g[y].deep = 0 /\ g[y].second
      /\ \A y \in (a - d) + 1 .. n' : g[y].deep = 0 /\ g[y].second => y \in Y
  BY <1>6 DEF ClosingC
<1>9. \A x \in X : x <= hi => x - d \in Y
  <2>1. SUFFICES ASSUME NEW x \in X, x <= hi  PROVE x - d \in Y  OBVIOUS
  <2>2. x \in a + 1 .. n /\ f[x].deep = 0 /\ f[x].second  BY <1>7
  <2>3. x \in a .. hi /\ x - d \in (a - d) + 1 .. n'  BY <1>1, <2>1, <2>2
  <2>4. g[x - d] = f[x]  BY <1>4, <2>3
  <2>5. QED  BY <1>8, <2>2, <2>3, <2>4
<1>10. \A y \in Y : y + d \in X
  <2>1. SUFFICES ASSUME NEW y \in Y  PROVE y + d \in X  OBVIOUS
  <2>2. y \in (a - d) + 1 .. n' /\ g[y].deep = 0 /\ g[y].second  BY <1>8
  <2>3. PICK x : x = y + d  OBVIOUS
  <2>4. x \in a .. hi /\ x \in a + 1 .. n /\ x - d = y  BY <1>1, <2>2, <2>3
  <2>5. g[y] = f[x]  BY <1>4, <2>4
  <2>6. QED  BY <1>7, <2>2, <2>3, <2>4, <2>5
<1>11. X \subseteq Nat /\ 0 \notin X /\ Y \subseteq Nat  BY <1>1, <1>7, <1>8
<1>12. Least(X) \in X
  <2>1. Least(X) # 0 /\ X # {}  BY <1>2, <1>5 DEF Least
  <2>2. QED  BY <1>11, <2>1, MinIs DEF Least
<1>13. PICK m : m = Least(X)  OBVIOUS
<1>14. m \in lo .. hi
  <2>1. m \in Int /\ lo <= m /\ m < e  BY <1>1, <1>2, <1>5, <1>7, <1>12, <1>13
  <2>2. ~isSpace(text[m])
    <3>1. m \in a + 1 .. n /\ f[m].second  BY <1>7, <1>12, <1>13
    <3>2. \A j \in a .. n : j # a => f[j] = Deeper(j, f[j - 1])  BY <1>2, Zenon DEF DepthSteps
    <3>6. f[m] = Deeper(m, f[m - 1])
      <4>1. m \in a .. n /\ m # a  BY <1>1, <3>1
      <4>2. QED  BY <3>2, <4>1, Zenon
    <3>3. Two(m) \in {<<"/", "*">>, <<"*", "/">>}
      <4>1. PICK p : p = f[m - 1]  OBVIOUS
      <4>2. Deeper(m, p).second <=> ~p.second /\ Two(m) \in {<<"/", "*">>, <<"*", "/">>}
        BY Zenon DEF Deeper
      <4>3. QED  BY <3>1, <3>6, <4>1, <4>2, Zenon
    <3>4. text[m] = "*" \/ text[m] = "/"  BY <3>3 DEF Two
    <3>5. QED  BY <3>4 DEF isSpace
  <2>3. QED  BY <2>1, <2>2, NotBlank
<1>15. m # 0 /\ m <= hi  BY <1>1, <1>14
<1>16. Least(Y) = m - d  BY <1>1, <1>9, <1>10, <1>11, <1>13, <1>15, LeastCut
<1>17. m \in a + 1 .. n  BY <1>7, <1>12, <1>13
<1>18. QED  BY <1>1, <1>2, <1>3, <1>5, <1>6, <1>13, <1>14, <1>16, <1>17

\* The end of a run in the text that is left.
LEMMA RunEndCut ==
  ASSUME NEW lo, NEW hi, NEW e, Cuts(lo, hi, e), NEW d, d = lo - 1, NEW a \in lo .. hi + 1,
         NEW run, n + 1 \notin run, NEW kept, n' + 1 \notin kept,
         \A j \in a .. hi : j \in run <=> j - d \in kept,
         NEW b, b = RunEnd(a, run)
  PROVE  RunEnd(a - d, kept)' = (IF b <= hi + 1 THEN b - d ELSE n' + 1) /\ b \in a .. n + 1
<1>1. /\ lo \in Nat /\ lo >= 1 /\ hi \in Nat /\ hi <= n /\ n \in Nat /\ d \in Nat
      /\ n' = hi - d /\ n' \in Nat
  BY CutKeeps
<1>2. b \in a .. n + 1 /\ b \notin run /\ \A j \in a .. b - 1 : j \in run
  <2>1. a \in 1 .. n + 1  BY <1>1
  <2>2. QED  BY <1>1, <2>1, RunEndIs
<1>3. PICK z : z = IF b <= hi + 1 THEN b - d ELSE n' + 1  OBVIOUS
<1>4. z \in a - d .. n' + 1  BY <1>1, <1>2, <1>3
<1>5. z \notin kept
  <2>1. CASE b <= hi
    <3>1. b \in a .. hi /\ z = b - d  BY <1>1, <1>2, <1>3, <2>1
    <3>2. QED  BY <1>2, <3>1
  <2>2. CASE ~(b <= hi)
    <3>1. z = n' + 1  BY <1>1, <1>2, <1>3, <2>2
    <3>2. QED  BY <3>1
  <2>3. QED  BY <2>1, <2>2
<1>6. ASSUME NEW j \in a - d .. z - 1  PROVE j \in kept
  <2>1. j + d \in a .. b - 1 /\ j + d \in a .. hi /\ (j + d) - d = j  BY <1>1, <1>2, <1>3
  <2>2. j + d \in run  BY <1>2, <2>1
  <2>3. QED  BY <2>1, <2>2
<1>7. RunEnd(a - d, kept)' = Min({j \in a - d .. n' + 1 : j \notin kept})  BY DEF RunEnd
<1> DEFINE T == {j \in a - d .. n' + 1 : j \notin kept}
<1>8. T \subseteq Nat /\ z \in T /\ \A y \in T : z <= y
  <2>1. T \subseteq Nat /\ z \in T  BY <1>1, <1>4, <1>5
  <2>2. ASSUME NEW y \in T, ~(z <= y)  PROVE FALSE
    <3>1. y \in a - d .. z - 1  BY <1>1, <1>4, <2>2
    <3>2. QED  BY <1>6, <3>1
  <2>3. QED  BY <2>1, <2>2
<1> HIDE DEF T
<1>9. Min(T) = z  BY <1>8, MinOf
<1>10. QED  BY <1>2, <1>3, <1>7, <1>9 DEF T

-----------------------------------------------------------------------------
(* Dollar quotes *)

Part(x, y) == SubSeq(text, x, y)

\* The same of Part.
LEMMA PartCut ==
  ASSUME NEW lo, NEW hi, NEW e, Cuts(lo, hi, e), NEW d, d = lo - 1,
         NEW x \in Int, x >= lo, NEW y \in Int, y <= hi
  PROVE  Part(x - d, y - d)' = Part(x, y)
BY SubSeqCut DEF Part

Close(a) == Least({b \in a + 1 .. n : text[b] = "$"})
Tagged(a) == Close(a) # 0 /\ \A j \in a + 1 .. Close(a) - 1 : isIdentPart(text[j])

\* The lexeme at a dollar sign that begins no parameter.
LEMMA DollarForm ==
  ASSUME NEW a, text[a] = "$", ~(a < n /\ isDigit(text[a + 1]))
  PROVE  Lexeme(a) = IF Tagged(a) THEN L("string", DollarEnd(a, SubSeq(text, a, Close(a))))
                     ELSE L("punct", a + 1)
BY DEF Lexeme, L, isSpace, Close, Tagged

\* The dollar sign that closes the tag is kept, or there is none that is left.
LEMMA CloseCut ==
  ASSUME NEW lo, NEW hi, NEW e, Cuts(lo, hi, e), NEW d, d = lo - 1, NEW a \in lo .. hi
  PROVE  /\ Close(a) # 0 => Close(a) \in a + 1 .. n /\ text[Close(a)] = "$"
         /\ Close(a) # 0 /\ Close(a) <= hi => Close(a - d)' = Close(a) - d
         /\ Close(a - d)' # 0 => Close(a - d)' = Close(a) - d /\ Close(a) # 0 /\ Close(a) <= hi
<1>1. /\ lo \in Nat /\ lo >= 1 /\ hi \in Nat /\ hi <= n /\ n \in Nat /\ d \in Nat
      /\ n' = hi - d /\ n' \in Nat
  BY CutKeeps
<1>2. PICK X : X = {b \in a + 1 .. n : text[b] = "$"}  OBVIOUS
<1>3. PICK Y : Y = {b \in (a - d) + 1 .. n' : text'[b] = "$"}  OBVIOUS
<1>4. Close(a) = Least(X) /\ Close(a - d)' = Least(Y)  BY <1>2, <1>3 DEF Close, Least
<1>5. \A x \in X : x <= hi => x - d \in Y
  <2>1. SUFFICES ASSUME NEW x \in X, x <= hi  PROVE x - d \in Y  OBVIOUS
  <2>2. x \in lo .. hi /\ x - d \in (a - d) + 1 .. n' /\ text[x] = "$"  BY <1>1, <1>2, <2>1
  <2>3. text'[x - d] = text[x]  BY <2>2, CutKeeps
  <2>4. QED  BY <1>3, <2>2, <2>3
<1>6. \A y \in Y : y + d \in X /\ y + d <= hi
  <2>1. SUFFICES ASSUME NEW y \in Y  PROVE y + d \in X /\ y + d <= hi  OBVIOUS
  <2>2. y \in 1 .. n' /\ y + d \in a + 1 .. n /\ y + d <= hi /\ text'[y] = "$"  BY <1>1, <1>3
  <2>3. text'[y] = text[y + d]  BY <2>2, CutKeeps
  <2>4. QED  BY <1>2, <2>2, <2>3
<1>7. X \subseteq Nat /\ 0 \notin X /\ Y \subseteq Nat  BY <1>1, <1>2, <1>3
<1>8. Least(X) # 0 => Least(X) \in X
  <2>1. SUFFICES ASSUME Least(X) # 0  PROVE Least(X) \in X  OBVIOUS
  <2>2. X # {}  BY <2>1 DEF Least
  <2>3. QED  BY <1>7, <2>2, MinIs DEF Least
<1>9. Least(X) # 0 /\ Least(X) <= hi => Least(Y) = Least(X) - d
  BY <1>1, <1>5, <1>6, <1>7, LeastCut
<1>10. Least(Y) # 0 => Least(X) # 0 /\ Least(X) <= hi
  <2>1. SUFFICES ASSUME Least(Y) # 0  PROVE Least(X) # 0 /\ Least(X) <= hi  OBVIOUS
  <2>2. PICK y : y \in Y  BY <2>1 DEF Least
  <2>3. y + d \in X /\ y + d <= hi  BY <1>6, <2>2
  <2>4. X # {} /\ Least(X) = Min(X)  BY <2>3 DEF Least
  <2>5. PICK m : m = Min(X)  OBVIOUS
  <2>6. m \in X /\ m <= y + d  BY <1>7, <2>3, <2>4, <2>5, MinIs
  <2>7. y \in Nat /\ m \in Nat /\ m # 0  BY <1>7, <2>2, <2>6
  <2>8. m <= hi  BY <1>1, <2>3, <2>6, <2>7
  <2>9. QED  BY <2>4, <2>5, <2>7, <2>8
<1>11. Close(a) # 0 => Close(a) \in a + 1 .. n /\ text[Close(a)] = "$"  BY <1>2, <1>4, <1>8
<1>12. QED  BY <1>4, <1>9, <1>10, <1>11

\* A dollar quote before the cut ends where it did.
LEMMA DollarCut ==
  ASSUME NEW lo, NEW hi, NEW e, Cuts(lo, hi, e), NEW d, d = lo - 1, NEW a \in lo .. hi,
         NEW c, c = Close(a), c # 0, NEW tag, tag = Part(a, c),
         DollarEnd(a, tag) # 1, DollarEnd(a, tag) <= e
  PROVE  /\ c <= hi /\ DollarEnd(a, tag) \in a + 2 .. hi + 1
         /\ DollarEnd(a - d, tag)' = DollarEnd(a, tag) - d
<1>1. /\ lo \in Nat /\ lo >= 1 /\ hi \in Nat /\ hi <= n /\ n \in Nat /\ d \in Nat /\ e \in Nat
      /\ n' = hi - d /\ n' \in Nat /\ e <= n + 1
  BY CutKeeps
<1>0. text \in Seq(STRING) /\ tag = SubSeq(text, a, c)  BY Zenon DEF Cuts, Part
<1>2. c \in a + 1 .. n /\ text[c] = "$"  BY CloseCut
<1>3. PICK w : w = c - a + 1  OBVIOUS
<1>4. w \in Nat /\ w >= 2 /\ c = a + w - 1  BY <1>1, <1>2, <1>3
<1>5. Len(tag) = w /\ tag[w] = "$"
  <2>1. \A j \in a .. c : text[j] \in STRING
    <3>1. \A j \in a .. c : j \in 1 .. Len(text)  BY <1>1, <1>2 DEF n
    <3>2. QED  BY <1>0, <3>1
  <2>2. /\ Len(tag) = IF a <= c THEN c - a + 1 ELSE 0
        /\ \A j \in 1 .. c - a + 1 : tag[j] = text[a + j - 1]
    <3>1. a \in Int /\ c \in Int  BY <1>1, <1>2
    <3>2. QED  BY <1>0, <2>1, <3>1, SubSeqProperties
  <2>3. w \in 1 .. c - a + 1 /\ a + w - 1 = c /\ a <= c  BY <1>1, <1>2, <1>3
  <2>4. QED  BY <1>2, <1>3, <2>2, <2>3
<1>6. PICK X : X = {b \in a + 2 * w - 1 .. n : SubSeq(text, b - w + 1, b) = tag}  OBVIOUS
<1>7. PICK Y : Y = {b \in (a - d) + 2 * w - 1 .. n' : SubSeq(text', b - w + 1, b) = tag}  OBVIOUS
<1>8. DollarEnd(a, tag) = Least(X) + 1 /\ DollarEnd(a - d, tag)' = Least(Y) + 1
  BY <1>5, <1>6, <1>7 DEF DollarEnd, Least
<1>9. ASSUME NEW x \in Int, x >= a + 2 * w - 1, x <= hi
      PROVE  SubSeq(text', (x - d) - w + 1, x - d) = SubSeq(text, x - w + 1, x)
  <2>1. x - w + 1 \in Int /\ x - w + 1 >= lo /\ (x - w + 1) - d = (x - d) - w + 1  BY <1>1, <1>4, <1>9
  <2>2. PICK z \in Int : z = x - w + 1  BY <2>1
  <2>3. z >= lo  BY <2>1, <2>2
  <2>4. SubSeq(text', z - d, x - d) = SubSeq(text, z, x)
    <3>1. x <= hi  BY <1>9
    <3>2. Part(z - d, x - d)' = Part(z, x)  BY <2>3, <3>1, PartCut
    <3>3. QED  BY <3>2 DEF Part
  <2>5. QED  BY <2>1, <2>2, <2>4
<1>10. \A x \in X : x <= hi => x - d \in Y
  <2>1. SUFFICES ASSUME NEW x \in X, x <= hi  PROVE x - d \in Y  OBVIOUS
  <2>2. x \in Int /\ x >= a + 2 * w - 1 /\ x - d \in (a - d) + 2 * w - 1 .. n'
    BY <1>1, <1>4, <1>6, <2>1
  <2>3. SubSeq(text, x - w + 1, x) = tag  BY <1>6
  <2>4. SubSeq(text', (x - d) - w + 1, x - d) = tag  BY <1>9, <2>1, <2>2, <2>3
  <2>5. QED  BY <1>7, <2>2, <2>4
<1>11. \A y \in Y : y + d \in X
  <2>1. SUFFICES ASSUME NEW y \in Y  PROVE y + d \in X  OBVIOUS
  <2>2. PICK x : x = y + d  OBVIOUS
  <2>3. y \in (a - d) + 2 * w - 1 .. n' /\ SubSeq(text', y - w + 1, y) = tag  BY <1>7
  <2>4. x \in Int /\ x >= a + 2 * w - 1 /\ x <= hi /\ x - d = y /\ x \in a + 2 * w - 1 .. n
    BY <1>1, <1>4, <2>2, <2>3
  <2>5. SubSeq(text, x - w + 1, x) = tag  BY <1>9, <2>3, <2>4
  <2>6. QED  BY <1>6, <2>2, <2>4, <2>5
<1>12. X \subseteq Nat /\ 0 \notin X /\ Y \subseteq Nat  BY <1>1, <1>4, <1>6, <1>7
<1>13. PICK m : m = Least(X)  OBVIOUS
<1>14. m \in X
  <2>1. Least(X) # 0 /\ X # {}  BY <1>8 DEF Least
  <2>2. QED  BY <1>12, <1>13, <2>1, MinIs DEF Least
<1>15. m \in a + 2 * w - 1 .. n /\ SubSeq(text, m - w + 1, m) = tag  BY <1>6, <1>14
<1>16. text[m] = "$"
  <2>1. \A j \in m - w + 1 .. m : text[j] \in STRING
    <3>1. \A j \in m - w + 1 .. m : j \in 1 .. Len(text)  BY <1>1, <1>4, <1>15 DEF n
    <3>2. QED  BY <1>0, <3>1
  <2>2. \A j \in 1 .. m - (m - w + 1) + 1 : tag[j] = text[(m - w + 1) + j - 1]
    <3>1. m - w + 1 \in Int /\ m \in Int  BY <1>1, <1>4, <1>15
    <3>2. PICK z \in Int : z = m - w + 1  BY <3>1
    <3>3. \A j \in z .. m : text[j] \in STRING  BY <2>1, <3>2
    <3>4. \A j \in 1 .. m - z + 1 : SubSeq(text, z, m)[j] = text[z + j - 1]
      BY <3>1, <3>3, SubSeqProperties
    <3>5. QED  BY <1>15, <3>2, <3>4
  <2>3. w \in 1 .. m - (m - w + 1) + 1 /\ (m - w + 1) + w - 1 = m  BY <1>1, <1>4, <1>15
  <2>4. QED  BY <1>5, <2>2, <2>3
<1>17. m \in lo .. hi
  <2>1. m \in Int /\ lo <= m /\ m < e
    <3>1. m \in Int /\ lo <= m  BY <1>1, <1>4, <1>15
    <3>2. m + 1 <= e  BY <1>8, <1>13
    <3>3. QED  BY <1>1, <3>1, <3>2
  <2>2. ~isSpace(text[m])  BY <1>16 DEF isSpace
  <2>3. QED  BY <2>1, <2>2, NotBlank
<1>18. m # 0 /\ m <= hi /\ c <= hi /\ m + 1 \in a + 2 .. hi + 1  BY <1>1, <1>4, <1>15, <1>17
<1>19. Least(Y) = m - d  BY <1>1, <1>10, <1>11, <1>12, <1>13, <1>18, LeastCut
<1>20. QED  BY <1>1, <1>8, <1>13, <1>15, <1>18, <1>19

-----------------------------------------------------------------------------
(* The lexeme at a place, by the characters there *)

DigitNext(a) == a < n /\ isDigit(text[a + 1])
Line(a) == text[a] = "-" /\ Is(a + 1, "-")
Comment(a) == text[a] = "/" /\ Is(a + 1, "*")
Numeral(a) == isDigit(text[a]) \/ (text[a] = "." /\ DigitNext(a))
LineEnd(a) == RunEnd(a, {j \in a .. n : text[j] # "\n"})

Prefix(a, c) == WordEnd(a) = a + 1 /\ Is(WordEnd(a), c)

WordRule(a) ==
  LET e == WordEnd(a) IN
  /\ Prefix(a, "'") /\ text[a] \in {"e", "E"} => Lexeme(a) = L("string", EscapedEnd(e))
  /\ Prefix(a, "'") /\ text[a] \in {"b", "u", "U"} => Lexeme(a) = L("string", LiteralEnd(e, "'"))
  /\ Prefix(a, "&") /\ text[a] \in {"u", "U"} /\ Is(e + 1, "'")
       => Lexeme(a) = L("string", LiteralEnd(e + 1, "'"))
  /\ Prefix(a, "&") /\ text[a] \in {"u", "U"} /\ Is(e + 1, "\"") => Lexeme(a) = L("refused", 1)
  /\ ~(Prefix(a, "'") /\ text[a] \in {"e", "E", "b", "u", "U"})
     /\ ~(Prefix(a, "&") /\ text[a] \in {"u", "U"} /\ (Is(e + 1, "'") \/ Is(e + 1, "\"")))
       => Lexeme(a) = L("word", e)

Other(a) ==
  /\ ~isSpace(text[a]) /\ ~Line(a) /\ ~Comment(a) /\ text[a] \notin {"'", "\"", "$"}
  /\ ~Numeral(a) /\ ~isIdentStart(text[a])

Rule(a) ==
  /\ isSpace(text[a]) => Lexeme(a) = L("skip", a + 1)
  /\ Line(a) => Lexeme(a) = L("skip", LineEnd(a))
  /\ Comment(a) => Lexeme(a) = L("skip", CommentEnd(a))
  /\ text[a] = "'" => Lexeme(a) = L("string", LiteralEnd(a, "'"))
  /\ text[a] = "\"" => Lexeme(a) = L("quoted", LiteralEnd(a, "\""))
  /\ text[a] = "$" /\ DigitNext(a) => Lexeme(a) = L("param", Digits(a + 1))
  /\ text[a] = "$" /\ ~DigitNext(a)
       => Lexeme(a) = IF Tagged(a) THEN L("string", DollarEnd(a, Part(a, Close(a))))
                      ELSE L("punct", a + 1)
  /\ Numeral(a) => Lexeme(a) = L("number", NumberEnd(a))
  /\ isIdentStart(text[a]) => WordRule(a)
  /\ Other(a) => Lexeme(a) = L("punct", a + 1)

Rules == n \in Nat => \A a \in 1 .. n : Rule(a)

\* Each lexeme follows the rule for the characters at its place.
LEMMA RulesHold == Rules
<1>1. SUFFICES ASSUME n \in Nat, NEW a \in 1 .. n  PROVE Rule(a)  BY DEF Rules
<1>2. isSpace(text[a]) => Lexeme(a) = L("skip", a + 1)  BY SpaceLexeme
<1>3. Line(a) => Lexeme(a) = L("skip", LineEnd(a))  BY <1>1, LineLexeme DEF Line, LineEnd
<1>4. Comment(a) => Lexeme(a) = L("skip", CommentEnd(a))  BY CommentLexeme DEF Comment
<1>5. text[a] = "'" => Lexeme(a) = L("string", LiteralEnd(a, "'"))  BY LiteralLexeme
<1>6. text[a] = "\"" => Lexeme(a) = L("quoted", LiteralEnd(a, "\""))  BY QuotedLexeme
<1>7. text[a] = "$" /\ DigitNext(a) => Lexeme(a) = L("param", Digits(a + 1))
  BY <1>1, ParamLexeme DEF DigitNext
<1>8. text[a] = "$" /\ ~DigitNext(a)
       => Lexeme(a) = IF Tagged(a) THEN L("string", DollarEnd(a, Part(a, Close(a))))
                      ELSE L("punct", a + 1)
  BY DollarForm DEF DigitNext, Part
<1>9. Numeral(a) => Lexeme(a) = L("number", NumberEnd(a))
  BY <1>1, NumberLexeme DEF Numeral, DigitNext
<1>10. isIdentStart(text[a]) => WordRule(a)
  <2>1. SUFFICES ASSUME isIdentStart(text[a])  PROVE WordRule(a)  OBVIOUS
  <2>2. PICK e : e = WordEnd(a)  OBVIOUS
  <2>3. Lexeme(a) =
              IF e = a + 1 /\ Is(e, "'") /\ text[a] \in {"e", "E"} THEN L("string", EscapedEnd(e))
              ELSE IF e = a + 1 /\ Is(e, "'") /\ text[a] \in {"b", "u", "U"}
                   THEN L("string", LiteralEnd(e, "'"))
              ELSE IF e = a + 1 /\ Is(e, "&") /\ text[a] \in {"u", "U"} /\ Is(e + 1, "'")
                   THEN L("string", LiteralEnd(e + 1, "'"))
              ELSE IF e = a + 1 /\ Is(e, "&") /\ text[a] \in {"u", "U"} /\ Is(e + 1, "\"")
                   THEN L("refused", 1)
              ELSE L("word", e)
    BY <1>1, <2>1, <2>2, WordLexeme
  <2>4. Is(e, "&") => ~Is(e, "'")  BY DEF Is
  <2>5. Is(e + 1, "\"") => ~Is(e + 1, "'")  BY DEF Is
  <2>6. QED  BY <2>2, <2>3, <2>4, <2>5 DEF WordRule, Prefix
<1>11. Other(a) => Lexeme(a) = L("punct", a + 1)
  <2>1. a \in Int  OBVIOUS
  <2>2. QED  BY <2>1, PunctLexeme, Zenon DEF Other, Line, Comment, Numeral, DigitNext
<1>12. QED
  BY <1>2, <1>3, <1>4, <1>5, <1>6, <1>7, <1>8, <1>9, <1>10, <1>11, Zenon DEF Rule

\* The same in the next state.
LEMMA RulesNext == Rules'
BY RulesHold, PTL

\* At a place that is kept the rules ask the same of both texts.
LEMMA RulesCut ==
  ASSUME NEW lo, NEW hi, NEW e, Cuts(lo, hi, e), NEW d, d = lo - 1, NEW a \in lo .. hi
  PROVE  /\ Rule(a) /\ Rule(a - d)' /\ text'[a - d] = text[a]
         /\ DigitNext(a - d)' <=> DigitNext(a)
         /\ Line(a - d)' <=> Line(a)
         /\ Comment(a - d)' <=> Comment(a)
         /\ Numeral(a - d)' <=> Numeral(a)
<1>1. /\ lo \in Nat /\ lo >= 1 /\ hi \in Nat /\ hi <= n /\ n \in Nat /\ d \in Nat
      /\ n' = hi - d /\ n' \in Nat
  BY CutKeeps
<1>2. a \in 1 .. n /\ a - d \in 1 .. n'  BY <1>1
<1>3. Rule(a)  BY <1>1, <1>2, RulesHold DEF Rules
<1>4. Rule(a - d)'
  <2>1. PICK b : b = a - d  OBVIOUS
  <2>2. b \in 1 .. n'  BY <1>2, <2>1
  <2>3. Rule(b)'  BY <1>1, <2>2, RulesNext DEF Rules
  <2>4. QED  BY <2>1, <2>3
<1>5. text'[a - d] = text[a]  BY CutKeeps
<1>6. a + 1 \in lo .. hi + 1 /\ (a + 1) - d = (a - d) + 1  BY <1>1
<1>7. ~Stops("-") /\ ~Stops("*") /\ ~Stops("0") /\ ~Stops("1")  BY DEF Stops, isSpace
<1>8. /\ Is((a + 1) - d, "-")' <=> Is(a + 1, "-")
      /\ Is((a + 1) - d, "*")' <=> Is(a + 1, "*")
      /\ Is((a + 1) - d, "0")' <=> Is(a + 1, "0")
      /\ Is((a + 1) - d, "1")' <=> Is(a + 1, "1")
  BY <1>6, <1>7, CutSees
<1>9. /\ DigitNext(a) <=> Is(a + 1, "0") \/ Is(a + 1, "1")
      /\ DigitNext(a - d)' <=> Is((a + 1) - d, "0")' \/ Is((a + 1) - d, "1")'
  <2>1. a < n <=> a + 1 <= n  BY <1>1
  <2>2. a - d < n' <=> (a - d) + 1 <= n'  BY <1>1
  <2>3. QED  BY <1>6, <2>1, <2>2 DEF DigitNext, Is, isDigit
<1>10. DigitNext(a - d)' <=> DigitNext(a)  BY <1>8, <1>9
<1>11. (Line(a - d)' <=> Line(a)) /\ (Comment(a - d)' <=> Comment(a))
  BY <1>5, <1>6, <1>8 DEF Line, Comment
<1>12. Numeral(a - d)' <=> Numeral(a)
  BY <1>5, <1>10 DEF Numeral, isDigit
<1>13. QED  BY <1>3, <1>4, <1>5, <1>10, <1>11, <1>12

\* Behind the cut a text goes on with what stops a run, if it goes on.
LEMMA CutStops ==
  ASSUME NEW lo, NEW hi, NEW e, Cuts(lo, hi, e), hi + 1 <= n
  PROVE  Stops(text[hi + 1])
<1>1. CASE hi + 1 = e  BY <1>1 DEF Cuts, Stops
<1>2. CASE hi + 1 # e
  <2>1. hi \in Nat /\ e \in Nat /\ hi < e  BY CutKeeps
  <2>2. hi + 1 \in hi + 1 .. e - 1  BY <1>2, <2>1
  <2>3. QED  BY <2>2 DEF Cuts, Stops
<1>3. QED  BY <1>1, <1>2

\* A run of characters that do not stop it ends where it did.
SameRun(hi, d, a, run, kept) ==
  /\ run \subseteq a .. n /\ n' + 1 \notin kept
  /\ \A j \in a .. hi : j \in run <=> j - d \in kept
  /\ \A j \in run : ~Stops(text[j])

LEMMA RunCut ==
  ASSUME NEW lo, NEW hi, NEW e, Cuts(lo, hi, e), NEW d, d = lo - 1, NEW a \in lo .. hi + 1,
         NEW run, NEW kept, SameRun(hi, d, a, run, kept)
  PROVE  RunEnd(a - d, kept)' = RunEnd(a, run) - d /\ RunEnd(a, run) \in a .. hi + 1
<1>0. /\ run \subseteq a .. n /\ n' + 1 \notin kept
      /\ \A j \in a .. hi : j \in run <=> j - d \in kept
      /\ \A j \in run : ~Stops(text[j])
  BY DEF SameRun
<1>1. PICK b : b = RunEnd(a, run)  OBVIOUS
<1>2. /\ lo \in Nat /\ lo >= 1 /\ hi \in Nat /\ hi <= n /\ n \in Nat  BY CutKeeps
<1>3. n + 1 \notin run  BY <1>0, <1>2
<1>4. RunEnd(a - d, kept)' = (IF b <= hi + 1 THEN b - d ELSE n' + 1) /\ b \in a .. n + 1
  BY <1>0, <1>1, <1>3, RunEndCut
<1>5. a \in 1 .. n + 1  BY <1>2
<1>6. \A j \in a .. b - 1 : j \in run  BY <1>1, <1>2, <1>3, <1>5, RunEndIs
<1>7. hi + 1 \notin run
  <2>1. SUFFICES ASSUME hi + 1 \in run  PROVE FALSE  OBVIOUS
  <2>2. hi + 1 <= n  BY <1>0, <1>2, <2>1
  <2>3. QED  BY <1>0, <2>1, <2>2, CutStops
<1>8. b <= hi + 1
  <2>1. SUFFICES ASSUME b > hi + 1  PROVE FALSE  BY <1>2, <1>4
  <2>2. hi + 1 \in a .. b - 1  BY <1>2, <1>4, <2>1
  <2>3. QED  BY <1>6, <1>7, <2>2
<1>9. QED  BY <1>1, <1>2, <1>4, <1>8

-----------------------------------------------------------------------------
(* The lexemes of the text that is left are those of the text *)

SameLexeme(hi, d, a) ==
  LET x == Lexeme(a) IN
  /\ x.kind # "skip" => x.end <= hi + 1
  /\ Lexeme(a - d)' = L(x.kind, IF x.end <= hi + 1 THEN x.end - d ELSE n' + 1)

\* How two lexemes are shown to be the same.
LEMMA Moved ==
  ASSUME NEW hi, NEW d, NEW a, NEW k, NEW b, NEW c, Lexeme(a) = L(k, b), Lexeme(a - d)' = L(k, c),
         b <= hi + 1 => c = b - d, ~(b <= hi + 1) => k = "skip" /\ c = n' + 1
  PROVE  SameLexeme(hi, d, a)
<1>1. Lexeme(a).kind = k /\ Lexeme(a).end = b  BY DEF L
<1>2. c = IF b <= hi + 1 THEN b - d ELSE n' + 1  OBVIOUS
<1>3. QED  BY <1>1, <1>2 DEF SameLexeme

\* Blanks and comments; a line comment may lose the blanks at its end.
LEMMA SkipCut ==
  ASSUME NEW lo, NEW hi, NEW e, Cuts(lo, hi, e), NEW d, d = lo - 1, NEW a \in lo .. hi,
         isSpace(text[a]) \/ Line(a) \/ Comment(a), Lexeme(a).end # 1, Lexeme(a).end <= e
  PROVE  SameLexeme(hi, d, a)
<1>1. /\ lo \in Nat /\ lo >= 1 /\ hi \in Nat /\ hi <= n /\ n \in Nat /\ d \in Nat
      /\ n' = hi - d /\ n' \in Nat
  BY CutKeeps
<1>2. /\ Rule(a) /\ Rule(a - d)' /\ text'[a - d] = text[a]
      /\ Line(a - d)' <=> Line(a)
      /\ Comment(a - d)' <=> Comment(a)
  BY RulesCut
<1>3. CASE isSpace(text[a])
  <2>1. Lexeme(a) = L("skip", a + 1)  BY <1>2, <1>3 DEF Rule
  <2>2. Lexeme(a - d)' = L("skip", (a - d) + 1)  BY <1>2, <1>3 DEF Rule, isSpace
  <2>3. a + 1 <= hi + 1 /\ (a - d) + 1 = (a + 1) - d  BY <1>1
  <2>4. QED  BY <2>1, <2>2, <2>3, Moved
<1>4. CASE Line(a)
  <2>1. PICK run : run = {j \in a .. n : text[j] # "\n"}  OBVIOUS
  <2>2. PICK kept : kept = {j \in a - d .. n' : text'[j] # "\n"}  OBVIOUS
  <2>3. PICK b : b = RunEnd(a, run)  OBVIOUS
  <2>4. PICK c : c = RunEnd(a - d, kept)'  OBVIOUS
  <2>5. Lexeme(a) = L("skip", b)
    <3>1. LineEnd(a) = b  BY <2>1, <2>3 DEF LineEnd
    <3>2. QED  BY <1>2, <1>4, <3>1 DEF Rule
  <2>6. Lexeme(a - d)' = L("skip", c)
    <3>1. LineEnd(a - d)' = c  BY <2>2, <2>4 DEF LineEnd
    <3>2. QED  BY <1>2, <1>4, <3>1 DEF Rule
  <2>7. \A j \in a .. hi : j \in run <=> j - d \in kept
    <3>1. SUFFICES ASSUME NEW j \in a .. hi  PROVE j \in run <=> j - d \in kept  OBVIOUS
    <3>2. j \in lo .. hi /\ j \in a .. n /\ j - d \in a - d .. n'  BY <1>1
    <3>3. text'[j - d] = text[j]  BY <3>2, CutKeeps
    <3>4. QED  BY <2>1, <2>2, <3>2, <3>3
  <2>8. n + 1 \notin run /\ n' + 1 \notin kept /\ a \in lo .. hi + 1  BY <1>1, <2>1, <2>2
  <2>9. c = (IF b <= hi + 1 THEN b - d ELSE n' + 1)  BY <2>3, <2>4, <2>7, <2>8, RunEndCut
  <2>10. QED  BY <2>5, <2>6, <2>9, Moved
<1>5. CASE Comment(a)
  <2>1. PICK b : b = CommentEnd(a)  OBVIOUS
  <2>2. Lexeme(a) = L("skip", b)  BY <1>2, <1>5, <2>1 DEF Rule
  <2>3. Lexeme(a).end = b  BY <2>2 DEF L
  <2>4. CommentEnd(a - d)' = b - d /\ b \in a + 2 .. hi + 1  BY <2>1, <2>3, CommentCut
  <2>5. PICK c : c = CommentEnd(a - d)'  OBVIOUS
  <2>6. Lexeme(a - d)' = L("skip", c)  BY <1>2, <1>5, <2>5 DEF Rule
  <2>7. QED  BY <1>1, <2>2, <2>4, <2>5, <2>6, Moved
<1>6. QED  BY <1>3, <1>4, <1>5

Quotation(a) == text[a] \in {"'", "\""}

\* Literals and quoted identifiers.
LEMMA QuoteCut ==
  ASSUME NEW lo, NEW hi, NEW e, Cuts(lo, hi, e), NEW d, d = lo - 1, NEW a \in lo .. hi,
         Quotation(a), Lexeme(a).end # 1, Lexeme(a).end <= e
  PROVE  SameLexeme(hi, d, a)
<1>1. PICK q : q = text[a]  OBVIOUS
<1>2. PICK k : k = IF q = "'" THEN "string" ELSE "quoted"  OBVIOUS
<1>3. PICK b : b = LiteralEnd(a, q)  OBVIOUS
<1>4. PICK c : c = LiteralEnd(a - d, q)'  OBVIOUS
<1>5. Rule(a) /\ Rule(a - d)' /\ text'[a - d] = text[a]  BY RulesCut
<1>6. Lexeme(a) = L(k, b)
  <2>1. CASE q = "'"  BY <1>1, <1>2, <1>3, <1>5, <2>1 DEF Rule
  <2>2. CASE q = "\""  BY <1>1, <1>2, <1>3, <1>5, <2>2 DEF Rule
  <2>3. QED  BY <1>1, <2>1, <2>2 DEF Quotation
<1>7. Lexeme(a - d)' = L(k, c)
  <2>1. CASE q = "'"  BY <1>1, <1>2, <1>4, <1>5, <2>1 DEF Rule
  <2>2. CASE q = "\""  BY <1>1, <1>2, <1>4, <1>5, <2>2 DEF Rule
  <2>3. QED  BY <1>1, <2>1, <2>2 DEF Quotation
<1>8. Lexeme(a).end = b  BY <1>6 DEF L
<1>9. ~Stops(q)  BY <1>1 DEF Quotation, Stops, isSpace
<1>10. LiteralEnd(a, q) # 1 /\ LiteralEnd(a, q) <= e  BY <1>3, <1>8
<1>11. c = b - d /\ b \in a + 2 .. hi + 1  BY <1>3, <1>4, <1>9, <1>10, LiteralCut
<1>12. b <= hi + 1
  <2>1. hi \in Nat /\ lo \in Nat  BY CutKeeps
  <2>2. QED  BY <1>11, <2>1
<1>13. QED  BY <1>6, <1>7, <1>11, <1>12, Moved

\* Parameters.
LEMMA ParamCut ==
  ASSUME NEW lo, NEW hi, NEW e, Cuts(lo, hi, e), NEW d, d = lo - 1, NEW a \in lo .. hi,
         text[a] = "$", DigitNext(a)
  PROVE  SameLexeme(hi, d, a)
<1>1. /\ lo \in Nat /\ lo >= 1 /\ hi \in Nat /\ hi <= n /\ n \in Nat /\ d \in Nat
      /\ n' = hi - d /\ n' \in Nat
  BY CutKeeps
<1>2. /\ Rule(a) /\ Rule(a - d)' /\ text'[a - d] = text[a]
      /\ DigitNext(a - d)'
  BY RulesCut
<1>3. PICK run : run = {j \in a + 1 .. n : isDigit(text[j])}  OBVIOUS
<1>4. PICK kept : kept = {j \in (a - d) + 1 .. n' : isDigit(text'[j])}  OBVIOUS
<1>5. PICK b : b = RunEnd(a + 1, run)  OBVIOUS
<1>6. PICK c : c = RunEnd((a - d) + 1, kept)'  OBVIOUS
<1>7. Lexeme(a) = L("param", b)
  <2>1. Digits(a + 1) = b  BY <1>3, <1>5 DEF Digits
  <2>2. QED  BY <1>2, <2>1 DEF Rule
<1>8. Lexeme(a - d)' = L("param", c)
  <2>1. Digits((a - d) + 1)' = c  BY <1>4, <1>6 DEF Digits, isDigit
  <2>2. QED  BY <1>2, <2>1 DEF Rule
<1>9. \A j \in a + 1 .. hi : j \in run <=> j - d \in kept
  <2>1. SUFFICES ASSUME NEW j \in a + 1 .. hi  PROVE j \in run <=> j - d \in kept  OBVIOUS
  <2>2. j \in lo .. hi /\ j \in a + 1 .. n /\ j - d \in (a - d) + 1 .. n'  BY <1>1
  <2>3. text'[j - d] = text[j]  BY <2>2, CutKeeps
  <2>4. QED  BY <1>3, <1>4, <2>2, <2>3
<1>10. run \subseteq a + 1 .. n /\ \A j \in run : ~Stops(text[j])
  BY <1>3 DEF isDigit, Stops, isSpace
<1>11. n' + 1 \notin kept /\ a + 1 \in lo .. hi + 1 /\ (a - d) + 1 = (a + 1) - d
  BY <1>1, <1>4
<1>13. SameRun(hi, d, a + 1, run, kept)  BY <1>9, <1>10, <1>11 DEF SameRun
<1>12. /\ RunEnd((a + 1) - d, kept)' = RunEnd(a + 1, run) - d
       /\ RunEnd(a + 1, run) \in a + 1 .. hi + 1
  BY <1>11, <1>13, RunCut
<1>14. c = b - d  BY <1>5, <1>6, <1>11, <1>12
<1>15. b <= hi + 1  BY <1>1, <1>5, <1>12
<1>16. QED  BY <1>7, <1>8, <1>14, <1>15, Moved

NumberChar(j) ==
  \/ isDigit(text[j]) \/ text[j] \in {".", "e", "E", "_"}
  \/ text[j] \in {"+", "-"} /\ text[j - 1] \in {"e", "E"}

\* Numbers.
LEMMA NumberCut ==
  ASSUME NEW lo, NEW hi, NEW e, Cuts(lo, hi, e), NEW d, d = lo - 1, NEW a \in lo .. hi,
         Numeral(a)
  PROVE  SameLexeme(hi, d, a)
<1>1. /\ lo \in Nat /\ lo >= 1 /\ hi \in Nat /\ hi <= n /\ n \in Nat /\ d \in Nat
      /\ n' = hi - d /\ n' \in Nat
  BY CutKeeps
<1>2. /\ Rule(a) /\ Rule(a - d)' /\ text'[a - d] = text[a]
      /\ Numeral(a - d)'
  BY RulesCut
<1>3. PICK run : run = {j \in a .. n : NumberChar(j)}  OBVIOUS
<1>4. PICK kept : kept = {j \in a - d .. n' : NumberChar(j)'}  OBVIOUS
<1>5. PICK b : b = RunEnd(a, run)  OBVIOUS
<1>6. PICK c : c = RunEnd(a - d, kept)'  OBVIOUS
<1>7. Lexeme(a) = L("number", b)
  <2>1. NumberEnd(a) = b  BY <1>3, <1>5 DEF NumberEnd, NumberChar
  <2>2. QED  BY <1>2, <2>1 DEF Rule
<1>8. Lexeme(a - d)' = L("number", c)
  <2>1. NumberEnd(a - d)' = c  BY <1>4, <1>6 DEF NumberEnd, NumberChar, isDigit
  <2>2. QED  BY <1>2, <2>1 DEF Rule
<1>9. \A j \in a .. hi : j \in run <=> j - d \in kept
  <2>1. SUFFICES ASSUME NEW j \in a .. hi  PROVE j \in run <=> j - d \in kept  OBVIOUS
  <2>2. j \in lo .. hi /\ j \in a .. n /\ j - d \in a - d .. n'  BY <1>1
  <2>3. text'[j - d] = text[j]  BY <2>2, CutKeeps
  <2>4. NumberChar(j - d)' <=> NumberChar(j)
    <3>1. CASE j = a
      <4>1. text[j] \notin {"+", "-"}  BY <3>1 DEF Numeral, isDigit
      <4>2. QED  BY <2>3, <4>1 DEF NumberChar, isDigit
    <3>2. CASE j # a
      <4>1. j - 1 \in lo .. hi /\ (j - 1) - d = (j - d) - 1  BY <1>1, <3>2
      <4>2. text'[(j - d) - 1] = text[j - 1]  BY <4>1, CutKeeps
      <4>3. QED  BY <2>3, <4>2 DEF NumberChar, isDigit
    <3>3. QED  BY <3>1, <3>2
  <2>5. QED  BY <1>3, <1>4, <2>2, <2>4
<1>10. run \subseteq a .. n /\ \A j \in run : ~Stops(text[j])
  BY <1>3 DEF NumberChar, isDigit, Stops, isSpace
<1>11. n' + 1 \notin kept /\ a \in lo .. hi + 1  BY <1>1, <1>4
<1>15. SameRun(hi, d, a, run, kept)  BY <1>9, <1>10, <1>11 DEF SameRun
<1>12. RunEnd(a - d, kept)' = RunEnd(a, run) - d /\ RunEnd(a, run) \in a .. hi + 1
  BY <1>11, <1>15, RunCut
<1>13. c = b - d /\ b <= hi + 1  BY <1>1, <1>5, <1>6, <1>12
<1>14. QED  BY <1>7, <1>8, <1>13, Moved

\* Words end where they did.
LEMMA WordEndCut ==
  ASSUME NEW lo, NEW hi, NEW e, Cuts(lo, hi, e), NEW d, d = lo - 1, NEW a \in lo .. hi
  PROVE  WordEnd(a - d)' = WordEnd(a) - d /\ WordEnd(a) \in a .. hi + 1
<1>1. /\ lo \in Nat /\ lo >= 1 /\ hi \in Nat /\ hi <= n /\ n \in Nat /\ d \in Nat
      /\ n' = hi - d /\ n' \in Nat
  BY CutKeeps
<1>2. PICK run : run = {j \in a .. n : isIdentPart(text[j])}  OBVIOUS
<1>3. PICK kept : kept = {j \in a - d .. n' : isIdentPart(text'[j])}  OBVIOUS
<1>4. WordEnd(a) = RunEnd(a, run)  BY <1>2 DEF WordEnd
<1>5. WordEnd(a - d)' = RunEnd(a - d, kept)'
  BY <1>3 DEF WordEnd, isIdentPart, isIdentStart, isDigit
<1>6. \A j \in a .. hi : j \in run <=> j - d \in kept
  <2>1. SUFFICES ASSUME NEW j \in a .. hi  PROVE j \in run <=> j - d \in kept  OBVIOUS
  <2>2. j \in lo .. hi /\ j \in a .. n /\ j - d \in a - d .. n'  BY <1>1
  <2>3. text'[j - d] = text[j]  BY <2>2, CutKeeps
  <2>4. QED  BY <1>2, <1>3, <2>2, <2>3
<1>7. run \subseteq a .. n /\ \A j \in run : ~Stops(text[j])
  BY <1>2 DEF isIdentPart, isIdentStart, isDigit, Stops, isSpace
<1>8. n' + 1 \notin kept /\ a \in lo .. hi + 1  BY <1>1, <1>3
<1>11. SameRun(hi, d, a, run, kept)  BY <1>6, <1>7, <1>8 DEF SameRun
<1>9. RunEnd(a - d, kept)' = RunEnd(a, run) - d /\ RunEnd(a, run) \in a .. hi + 1
  BY <1>8, <1>11, RunCut
<1>10. QED  BY <1>4, <1>5, <1>9

\* Dollar quotes and lone dollar signs.
LEMMA DollarQuoteCut ==
  ASSUME NEW lo, NEW hi, NEW e, Cuts(lo, hi, e), NEW d, d = lo - 1, NEW a \in lo .. hi,
         text[a] = "$", ~DigitNext(a), Lexeme(a).end # 1, Lexeme(a).end <= e
  PROVE  SameLexeme(hi, d, a)
<1>1. /\ lo \in Nat /\ lo >= 1 /\ hi \in Nat /\ hi <= n /\ n \in Nat /\ d \in Nat
      /\ n' = hi - d /\ n' \in Nat
  BY CutKeeps
<1>2. /\ Rule(a) /\ Rule(a - d)' /\ text'[a - d] = text[a]
      /\ ~DigitNext(a - d)'
  BY RulesCut
<1>3. /\ Lexeme(a) = IF Tagged(a) THEN L("string", DollarEnd(a, Part(a, Close(a))))
                     ELSE L("punct", a + 1)
      /\ Lexeme(a - d)' = IF Tagged(a - d)'
                          THEN L("string", DollarEnd(a - d, Part(a - d, Close(a - d)))')
                          ELSE L("punct", (a - d) + 1)
  BY <1>2 DEF Rule
<1>4. PICK c : c = Close(a)  OBVIOUS
<1>5. /\ c # 0 => c \in a + 1 .. n /\ text[c] = "$"
      /\ c # 0 /\ c <= hi => Close(a - d)' = c - d
      /\ Close(a - d)' # 0 => Close(a - d)' = c - d /\ c # 0 /\ c <= hi
  BY <1>4, CloseCut
<1>6. ASSUME c # 0, c <= hi  PROVE Tagged(a - d)' <=> Tagged(a)
  <2>1. PICK k : k = Close(a - d)'  OBVIOUS
  <2>2. k = c - d /\ c \in a + 1 .. n /\ k # 0  BY <1>1, <1>5, <1>6, <2>1
  <2>3. Tagged(a) <=> \A j \in a + 1 .. c - 1 : isIdentPart(text[j])  BY <1>4, <1>6 DEF Tagged
  <2>4. Tagged(a - d)' <=> \A j \in (a - d) + 1 .. k - 1 : isIdentPart(text'[j])
    BY <2>1, <2>2 DEF Tagged, isIdentPart, isIdentStart, isDigit
  <2>5. ASSUME NEW j \in a + 1 .. c - 1
        PROVE  text'[j - d] = text[j] /\ j - d \in (a - d) + 1 .. k - 1
    <3>1. j \in lo .. hi /\ j - d \in (a - d) + 1 .. k - 1  BY <1>1, <1>6, <2>2, <2>5
    <3>2. QED  BY <3>1, CutKeeps
  <2>6. ASSUME NEW j \in (a - d) + 1 .. k - 1
        PROVE  j + d \in a + 1 .. c - 1 /\ (j + d) - d = j
    BY <1>1, <2>2, <2>6
  <2>7. QED
    <3>1. ASSUME Tagged(a), NEW j \in (a - d) + 1 .. k - 1  PROVE isIdentPart(text'[j])
      <4>1. PICK m : m = j + d  OBVIOUS
      <4>2. m \in a + 1 .. c - 1 /\ m - d = j  BY <2>6, <3>1, <4>1
      <4>3. QED  BY <2>3, <2>5, <3>1, <4>2
    <3>2. ASSUME Tagged(a - d)', NEW j \in a + 1 .. c - 1  PROVE isIdentPart(text[j])
      BY <2>4, <2>5, <3>2
    <3>3. QED  BY <2>3, <2>4, <3>1, <3>2
<1>7. CASE Tagged(a)
  <2>1. PICK tag : tag = Part(a, c)  OBVIOUS
  <2>2. PICK b : b = DollarEnd(a, tag)  OBVIOUS
  <2>3. PICK f : f = DollarEnd(a - d, tag)'  OBVIOUS
  <2>4. Lexeme(a) = L("string", b)  BY <1>3, <1>4, <1>7, <2>1, <2>2
  <2>5. Lexeme(a).end = b  BY <2>4 DEF L
  <2>6. c # 0  BY <1>4, <1>7 DEF Tagged
  <2>7. tag = SubSeq(text, a, c)  BY <2>1 DEF Part
  <2>8. c <= hi /\ b \in a + 2 .. hi + 1 /\ f = b - d
    <3>1. DollarEnd(a, tag) # 1 /\ DollarEnd(a, tag) <= e  BY <2>2, <2>5
    <3>2. /\ c <= hi /\ DollarEnd(a, tag) \in a + 2 .. hi + 1
          /\ DollarEnd(a - d, tag)' = DollarEnd(a, tag) - d
      BY <1>4, <2>1, <2>6, <3>1, DollarCut
    <3>3. QED  BY <2>2, <2>3, <3>2
  <2>9. c \in Int /\ a \in Int /\ a >= lo  BY <1>1, <1>5, <2>6
  <2>10. Part(a - d, c - d)' = tag  BY <2>1, <2>8, <2>9, PartCut
  <2>11. Tagged(a - d)' /\ Close(a - d)' = c - d  BY <1>5, <1>6, <1>7, <2>6, <2>8
  <2>12. DollarEnd(a - d, Part(a - d, Close(a - d)))' = f
    <3>1. Part(a - d, Close(a - d))' = tag  BY <2>10, <2>11
    <3>2. QED  BY <2>3, <3>1 DEF DollarEnd
  <2>13. Lexeme(a - d)' = L("string", f)  BY <1>3, <2>11, <2>12
  <2>14. b <= hi + 1  BY <1>1, <2>8
  <2>15. QED  BY <2>4, <2>8, <2>13, <2>14, Moved
<1>8. CASE ~Tagged(a)
  <2>1. ~Tagged(a - d)'
    <3>1. SUFFICES ASSUME Tagged(a - d)'  PROVE FALSE  OBVIOUS
    <3>2. Close(a - d)' # 0  BY <3>1 DEF Tagged
    <3>3. c # 0 /\ c <= hi  BY <1>5, <3>2
    <3>4. QED  BY <1>6, <1>8, <3>1, <3>3
  <2>2. Lexeme(a) = L("punct", a + 1) /\ Lexeme(a - d)' = L("punct", (a - d) + 1)
    BY <1>3, <1>8, <2>1
  <2>3. a + 1 <= hi + 1 /\ (a - d) + 1 = (a + 1) - d  BY <1>1
  <2>4. QED  BY <2>2, <2>3, Moved
<1>9. QED  BY <1>7, <1>8

\* A letter that may introduce a literal is seen to be one in both texts.
LEMMA PrefixCut ==
  ASSUME NEW lo, NEW hi, NEW e, Cuts(lo, hi, e), NEW d, d = lo - 1, NEW a \in lo .. hi,
         NEW c, ~Stops(c)
  PROVE  /\ Prefix(a - d, c)' <=> Prefix(a, c)
         /\ Prefix(a, c) => WordEnd(a) = a + 1 /\ a + 1 \in lo .. hi
<1>1. /\ lo \in Nat /\ lo >= 1 /\ hi \in Nat /\ hi <= n /\ n \in Nat /\ d \in Nat
      /\ n' = hi - d /\ n' \in Nat
  BY CutKeeps
<1>2. PICK w : w = WordEnd(a)  OBVIOUS
<1>3. WordEnd(a - d)' = w - d /\ w \in a .. hi + 1  BY <1>2, WordEndCut
<1>4. w \in lo .. hi + 1  BY <1>1, <1>3
<1>5. Is(w - d, c)' <=> Is(w, c)  BY <1>4, CutSees
<1>6. Prefix(a - d, c)' <=> w - d = (a - d) + 1 /\ Is(w - d, c)'  BY <1>3 DEF Prefix, Is
<1>7. Prefix(a, c) <=> w = a + 1 /\ Is(w, c)  BY <1>2 DEF Prefix
<1>8. w - d = (a - d) + 1 <=> w = a + 1  BY <1>1, <1>3
<1>9. ASSUME Is(w - d, c)'  PROVE w \in lo .. hi
  <2>1. w - d <= n'  BY <1>9 DEF Is
  <2>2. QED  BY <1>1, <1>3, <2>1
<1>10. QED  BY <1>2, <1>5, <1>6, <1>7, <1>8, <1>9

\* Words and the literals they introduce.
LEMMA WordCut ==
  ASSUME NEW lo, NEW hi, NEW e, Cuts(lo, hi, e), NEW d, d = lo - 1, NEW a \in lo .. hi,
         isIdentStart(text[a]), Lexeme(a).end # 1, Lexeme(a).end <= e
  PROVE  SameLexeme(hi, d, a)
<1>1. /\ lo \in Nat /\ lo >= 1 /\ hi \in Nat /\ hi <= n /\ n \in Nat /\ d \in Nat
      /\ n' = hi - d /\ n' \in Nat
  BY CutKeeps
<1>2. WordRule(a) /\ WordRule(a - d)' /\ text'[a - d] = text[a]
  <2>1. Rule(a) /\ Rule(a - d)' /\ text'[a - d] = text[a]  BY RulesCut
  <2>2. WordRule(a)  BY <2>1 DEF Rule
  <2>3. isIdentStart(text'[a - d])  BY <2>1
  <2>4. WordRule(a - d)'  BY <2>1, <2>3 DEF Rule, isIdentStart
  <2>5. QED  BY <2>1, <2>2, <2>4
<1>3. PICK w : w = WordEnd(a)  OBVIOUS
<1>4. WordEnd(a - d)' = w - d /\ w \in a .. hi + 1  BY <1>3, WordEndCut
<1>5. ~Stops("'") /\ ~Stops("&")  BY DEF Stops, isSpace
<1>6. /\ Prefix(a - d, "'")' <=> Prefix(a, "'")
      /\ Prefix(a - d, "&")' <=> Prefix(a, "&")
      /\ Prefix(a, "'") \/ Prefix(a, "&") => w = a + 1 /\ a + 1 \in lo .. hi
  BY <1>3, <1>5, PrefixCut
<1>7. CASE Prefix(a, "'") /\ text[a] \in {"e", "E"}
  <2>1. PICK b : b = EscapedEnd(w)  OBVIOUS
  <2>2. PICK c : c = EscapedEnd(w - d)'  OBVIOUS
  <2>3. Lexeme(a) = L("string", b)  BY <1>2, <1>3, <1>7, <2>1 DEF WordRule
  <2>4. Lexeme(a - d)' = L("string", c)
    <3>1. EscapedEnd(WordEnd(a - d))' = c  BY <1>4, <2>2 DEF EscapedEnd
    <3>2. QED  BY <1>2, <1>6, <1>7, <3>1 DEF WordRule
  <2>5. Lexeme(a).end = b  BY <2>3 DEF L
  <2>6. w \in lo .. hi /\ EscapedEnd(w) # 1 /\ EscapedEnd(w) <= e  BY <1>6, <1>7, <2>1, <2>5
  <2>7. c = b - d /\ b \in w + 2 .. hi + 1  BY <2>1, <2>2, <2>6, EscapedCut
  <2>8. b <= hi + 1  BY <1>1, <2>6, <2>7
  <2>9. QED  BY <2>3, <2>4, <2>7, <2>8, Moved
<1>8. CASE Prefix(a, "'") /\ text[a] \in {"b", "u", "U"}
  <2>1. PICK b : b = LiteralEnd(w, "'")  OBVIOUS
  <2>2. PICK c : c = LiteralEnd(w - d, "'")'  OBVIOUS
  <2>3. Lexeme(a) = L("string", b)  BY <1>2, <1>3, <1>8, <2>1 DEF WordRule
  <2>4. Lexeme(a - d)' = L("string", c)
    <3>1. LiteralEnd(WordEnd(a - d), "'")' = c  BY <1>4, <2>2 DEF LiteralEnd
    <3>2. QED  BY <1>2, <1>6, <1>8, <3>1 DEF WordRule
  <2>5. Lexeme(a).end = b  BY <2>3 DEF L
  <2>6. w \in lo .. hi /\ LiteralEnd(w, "'") # 1 /\ LiteralEnd(w, "'") <= e
    BY <1>6, <1>8, <2>1, <2>5
  <2>7. c = b - d /\ b \in w + 2 .. hi + 1  BY <1>5, <2>1, <2>2, <2>6, LiteralCut
  <2>8. b <= hi + 1  BY <1>1, <2>6, <2>7
  <2>9. QED  BY <2>3, <2>4, <2>7, <2>8, Moved
<1>9. ASSUME Prefix(a, "&")
      PROVE  /\ Is((w - d) + 1, "'")' <=> Is(w + 1, "'")
             /\ Is((w - d) + 1, "\"")' <=> Is(w + 1, "\"")
             /\ Is(w + 1, "'") => w + 1 \in lo .. hi
  <2>1. w + 1 \in lo .. hi + 1 /\ (w + 1) - d = (w - d) + 1  BY <1>1, <1>6, <1>9
  <2>2. ~Stops("\"")  BY Zenon DEF Stops, isSpace
  <2>3. PICK p : p = w + 1  OBVIOUS
  <2>4. PICK q : q = "\""  OBVIOUS
  <2>5. (Is(p - d, "'")' <=> Is(p, "'")) /\ (Is(p - d, q)' <=> Is(p, q))
    <3>1. ~Stops(q)  BY <2>2, <2>4, Zenon
    <3>2. p \in lo .. hi + 1  BY <2>1, <2>3
    <3>3. QED  BY <1>5, <3>1, <3>2, CutSees
  <2>6. p - d = (w - d) + 1  BY <2>1, <2>3
  <2>7. Is(p - d, "'")' => p \in lo .. hi
    <3>1. SUFFICES ASSUME Is(p - d, "'")'  PROVE p \in lo .. hi  OBVIOUS
    <3>2. p - d <= n'  BY <3>1 DEF Is
    <3>3. QED  BY <1>1, <2>1, <2>3, <3>2
  <2>8. QED  BY <2>3, <2>4, <2>5, <2>6, <2>7, Zenon
<1>10. CASE Prefix(a, "&") /\ text[a] \in {"u", "U"} /\ Is(w + 1, "'")
  <2>1. PICK p : p = w + 1  OBVIOUS
  <2>2. PICK b : b = LiteralEnd(p, "'")  OBVIOUS
  <2>3. PICK c : c = LiteralEnd(p - d, "'")'  OBVIOUS
  <2>4. p - d = (w - d) + 1 /\ p \in lo .. hi /\ p \in Int
    <3>1. p \in lo .. hi  BY <1>9, <1>10, <2>1
    <3>2. QED  BY <1>1, <1>4, <2>1, <3>1
  <2>5. Lexeme(a) = L("string", b)  BY <1>2, <1>3, <1>10, <2>1, <2>2, Zenon DEF WordRule
  <2>6. Lexeme(a - d)' = L("string", c)
    <3>1. PICK z : z = WordEnd(a - d)'  OBVIOUS
    <3>2. z = w - d /\ z + 1 = p - d  BY <1>4, <2>4, <3>1
    <3>3. LiteralEnd(WordEnd(a - d) + 1, "'")' = c  BY <2>3, <3>1, <3>2 DEF LiteralEnd
    <3>4. Is(WordEnd(a - d) + 1, "'")'  BY <1>9, <1>10, <3>1, <3>2, Zenon DEF Is
    <3>5. QED  BY <1>2, <1>6, <1>10, <3>3, <3>4, Zenon DEF WordRule
  <2>7. Lexeme(a).end = b  BY <2>5 DEF L
  <2>8. LiteralEnd(p, "'") # 1 /\ LiteralEnd(p, "'") <= e  BY <2>2, <2>7
  <2>9. c = b - d /\ b \in p + 2 .. hi + 1  BY <1>5, <2>2, <2>3, <2>4, <2>8, LiteralCut
  <2>10. b <= hi + 1  BY <1>1, <2>4, <2>9
  <2>11. QED  BY <2>5, <2>6, <2>9, <2>10, Moved
<1>11. CASE Prefix(a, "&") /\ text[a] \in {"u", "U"} /\ Is(w + 1, "\"")
  <2>1. Lexeme(a) = L("refused", 1)  BY <1>2, <1>3, <1>11, Zenon DEF WordRule
  <2>2. Lexeme(a).end = 1  BY <2>1 DEF L
  <2>3. QED  BY <2>2, Zenon
<1>12. CASE /\ ~(Prefix(a, "'") /\ text[a] \in {"e", "E", "b", "u", "U"})
            /\ ~(Prefix(a, "&") /\ text[a] \in {"u", "U"}
                 /\ (Is(w + 1, "'") \/ Is(w + 1, "\"")))
  <2>1. Lexeme(a) = L("word", w)  BY <1>2, <1>3, <1>12, Zenon DEF WordRule
  <2>2. PICK z : z = WordEnd(a - d)'  OBVIOUS
  <2>3. z = w - d  BY <1>4, <2>2, Zenon
  <2>4. Lexeme(a - d)' = L("word", z)
    <3>1. /\ Is(WordEnd(a - d) + 1, "'")' <=> Is((w - d) + 1, "'")'
          /\ Is(WordEnd(a - d) + 1, "\"")' <=> Is((w - d) + 1, "\"")'
      BY <2>2, <2>3, Zenon DEF Is
    <3>2. ~(Prefix(a - d, "'")' /\ text'[a - d] \in {"e", "E", "b", "u", "U"})
      BY <1>2, <1>6, <1>12, Zenon
    <3>3. ~(Prefix(a - d, "&")' /\ text'[a - d] \in {"u", "U"}
            /\ (Is(WordEnd(a - d) + 1, "'")' \/ Is(WordEnd(a - d) + 1, "\"")'))
      BY <1>2, <1>6, <1>9, <1>12, <3>1, Zenon
    <3>4. QED  BY <1>2, <2>2, <3>2, <3>3, Zenon DEF WordRule
  <2>5. QED
    <3>1. w <= hi + 1
      <4>1. w \in a .. hi + 1 /\ hi \in Nat /\ a \in lo .. hi /\ lo \in Nat  BY <1>1, <1>4, Zenon
      <4>2. QED  BY ONLY <4>1
    <3>2. QED  BY <2>1, <2>3, <2>4, <3>1, Moved, Zenon
<1>13. QED  BY <1>7, <1>8, <1>10, <1>11, <1>12, Zenon

\* A lexeme before the cut is the same lexeme of the text that is left.
LEMMA LexemeCut ==
  ASSUME NEW lo, NEW hi, NEW e, Cuts(lo, hi, e), NEW d, d = lo - 1, NEW a \in lo .. hi,
         Lexeme(a).end # 1, Lexeme(a).end <= e
  PROVE  SameLexeme(hi, d, a)
<1>1. CASE isSpace(text[a]) \/ Line(a) \/ Comment(a)  BY <1>1, SkipCut
<1>2. CASE Quotation(a)  BY <1>2, QuoteCut
<1>3. CASE text[a] = "$"
  <2>1. CASE DigitNext(a)  BY <1>3, <2>1, ParamCut
  <2>2. CASE ~DigitNext(a)  BY <1>3, <2>2, DollarQuoteCut
  <2>3. QED  BY <2>1, <2>2
<1>4. CASE Numeral(a)  BY <1>4, NumberCut
<1>5. CASE isIdentStart(text[a])  BY <1>5, WordCut
<1>6. CASE Other(a)
  <2>1. /\ Rule(a) /\ Rule(a - d)' /\ text'[a - d] = text[a]
        /\ Line(a - d)' <=> Line(a)
        /\ Comment(a - d)' <=> Comment(a)
        /\ Numeral(a - d)' <=> Numeral(a)
    BY RulesCut
  <2>2. Other(a - d)'  BY <1>6, <2>1, Zenon DEF Other, isSpace, isIdentStart
  <2>3. Lexeme(a) = L("punct", a + 1)  BY <1>6, <2>1, Zenon DEF Rule
  <2>4. Lexeme(a - d)' = L("punct", (a - d) + 1)  BY <2>1, <2>2, Zenon DEF Rule
  <2>5. a + 1 <= hi + 1 /\ (a - d) + 1 = (a + 1) - d
    <3>1. lo \in Nat /\ hi \in Nat  BY CutKeeps
    <3>2. QED  BY <3>1
  <2>6. QED  BY <2>3, <2>4, <2>5, Moved
<1>7. QED  BY <1>1, <1>2, <1>3, <1>4, <1>5, <1>6, Zenon DEF Other, Quotation

\* A token that is kept is spelled as it was.
LEMMA SpelledCut ==
  ASSUME NEW lo, NEW hi, NEW e, Cuts(lo, hi, e), NEW d, d = lo - 1, NEW a \in lo .. hi,
         NEW b \in Int, b <= hi + 1, NEW kind
  PROVE  Spelled(kind, a - d, b - d)' = Spelled(kind, a, b)
<1>0. /\ lo \in Nat /\ lo >= 1 /\ hi \in Nat /\ hi <= n /\ n \in Nat
      /\ n' = hi - (lo - 1) /\ n' \in Nat
      /\ \A j \in lo .. hi : text'[j - (lo - 1)] = text[j]
  BY CutKeeps, Zenon
<1>1. /\ lo \in Nat /\ lo >= 1 /\ hi \in Nat /\ hi <= n /\ n \in Nat /\ d \in Nat
      /\ n' = hi - d /\ n' \in Nat
  BY <1>0
<1>2. text'[a - d] = text[a]  BY <1>0
<1>3. SubSeq(text', (a - d) + 1, (b - d) - 2) = SubSeq(text, a + 1, b - 2)
  <2>1. PICK x : x = a + 1  OBVIOUS
  <2>2. PICK y : y = b - 2  OBVIOUS
  <2>3. x \in Int /\ x >= lo /\ y \in Int /\ y <= hi /\ x - d = (a - d) + 1 /\ y - d = (b - d) - 2
    BY <1>1, <2>1, <2>2
  <2>4. Part(x - d, y - d)' = Part(x, y)  BY <2>3, PartCut
  <2>5. QED  BY <2>1, <2>2, <2>3, <2>4, Zenon DEF Part
<1>4. SubSeq(text', a - d, (b - d) - 1) = SubSeq(text, a, b - 1)
  <2>1. PICK y : y = b - 1  OBVIOUS
  <2>2. a \in Int /\ a >= lo /\ y \in Int /\ y <= hi /\ y - d = (b - d) - 1
    BY <1>1, <2>1
  <2>3. Part(a - d, y - d)' = Part(a, y)  BY <2>2, PartCut
  <2>4. QED  BY <2>1, <2>2, <2>3, Zenon DEF Part
<1>5. [j \in 1 .. (b - d) - (a - d) |-> ToLower(text'[(a - d) + j - 1])]
        = [j \in 1 .. b - a |-> ToLower(text[a + j - 1])]
  <2>1. (b - d) - (a - d) = b - a  BY <1>1
  <2>2. \A j \in 1 .. b - a : text'[(a - d) + j - 1] = text[a + j - 1]
    <3>1. SUFFICES ASSUME NEW j \in 1 .. b - a  PROVE text'[(a - d) + j - 1] = text[a + j - 1]
      OBVIOUS
    <3>2. PICK m : m = a + j - 1  OBVIOUS
    <3>3. m \in lo .. hi /\ m - d = (a - d) + j - 1  BY <1>1, <3>2
    <3>4. text'[m - d] = text[m]  BY <3>3, CutKeeps
    <3>5. QED  BY <3>2, <3>3, <3>4
  <2>3. QED  BY <2>1, <2>2, Zenon
<1>6. Undouble(SubSeq(text', (a - d) + 1, (b - d) - 2)) = Undouble(SubSeq(text, a + 1, b - 2))
  BY <1>3, Zenon
<1>7. CASE kind = "quoted"  BY <1>6, <1>7 DEF Spelled
<1>8. CASE kind = "number"  BY <1>4, <1>8 DEF Spelled
<1>9. CASE kind = "word"  BY <1>5, <1>9 DEF Spelled, ToLower
<1>10. CASE kind = "punct"
  <2>1. CASE text[a] = "$"  BY <1>2, <1>10, <2>1 DEF Spelled
  <2>2. CASE text[a] # "$"  BY <1>2, <1>10, <2>2 DEF Spelled
  <2>3. QED  BY <2>1, <2>2
<1>11. CASE kind \notin {"quoted", "number", "word", "punct"}
  BY <1>11, Zenon DEF Spelled
<1>12. QED  BY <1>7, <1>8, <1>9, <1>10, <1>11

-----------------------------------------------------------------------------
(* The lexemes passed so far *)

\* h marks places of the text with the number of tokens before them.
Marks(h) == h \in [DOMAIN h -> Nat] /\ DOMAIN h \subseteq 1 .. n + 1 /\ 1 \in DOMAIN h /\ h[1] = 0

\* The lexeme at p leads to the next mark, and is counted and one of s unless
\* it is skipped.
Leads(h, p, s) ==
  LET x == Lexeme(p) IN
  /\ x.end \in p + 1 .. n + 1 /\ x.end \in DOMAIN h
  /\ x.kind = "skip" => h[x.end] = h[p]
  /\ x.kind # "skip" => /\ h[x.end] = h[p] + 1
                        /\ s[h[p] + 1].kind = x.kind
                        /\ s[h[p] + 1].text = Spelled(x.kind, p, x.end)

\* From the beginning of the text its lexemes lead to m, and their tokens are s.
Road(h, m, s) ==
  /\ Marks(h) /\ m \in DOMAIN h /\ h[m] = Len(s)
  /\ \A p \in DOMAIN h : p <= m /\ (p < m => Leads(h, p, s))

InOrder(h) == \A p, q \in DOMAIN h : p < q => Lexeme(p).end <= q /\ h[p] <= h[q]

\* The last token has its lexeme on the road.
LastIs(h, p) ==
  p \in DOMAIN h /\ p < i /\ h[p] = Len(toks) - 1 /\ Lexeme(p).kind # "skip"

Examined ==
  \E h : Road(h, i, toks) /\ InOrder(h) /\ (toks # <<>> => LastIs(h, toks[Len(toks)].pos))

SameToken(t, u) == t.kind = u.kind /\ t.text = u.text

Again ==
  \E h : /\ Road(h, n + 1, first) /\ i \in DOMAIN h /\ Len(toks) = h[i]
         /\ \A t \in 1 .. Len(toks) : SameToken(toks[t], first[t])

\* A lexeme stays what it is while the text stays.
LEMMA SameLexemes ==
  ASSUME text' = text, NEW a
  PROVE  Lexeme(a)' = Lexeme(a)
BY SMT DEF Lexeme, LiteralEnd, EscapedEnd, Escaped, CommentEnd, DollarEnd, Count, n, Is

\* A road stays one while the text stays.
LEMMA RoadStays ==
  ASSUME text' = text, NEW h, NEW m, NEW s
  PROVE  /\ Marks(h)' <=> Marks(h)
         /\ \A p : Leads(h, p, s)' <=> Leads(h, p, s)
         /\ Road(h, m, s)' <=> Road(h, m, s)
         /\ InOrder(h)' <=> InOrder(h)
<1>1. n' = n  BY DEF n
<1>2. Marks(h)' <=> Marks(h)  BY <1>1 DEF Marks
<1>3. ASSUME NEW p  PROVE Leads(h, p, s)' <=> Leads(h, p, s)
  <2>1. PICK x : x = Lexeme(p)  OBVIOUS
  <2>2. Lexeme(p)' = x  BY <2>1, SameLexemes
  <2>3. Spelled(x.kind, p, x.end)' = Spelled(x.kind, p, x.end)  BY DEF Spelled
  <2>4. Spelled(Lexeme(p).kind, p, Lexeme(p).end)' = Spelled(x.kind, p, x.end)
    BY <2>2, <2>3, Zenon DEF Spelled
  <2>5. QED  BY <1>1, <2>1, <2>2, <2>4, Zenon DEF Leads
<1>4. Road(h, m, s)' <=> Road(h, m, s)  BY <1>2, <1>3, Zenon DEF Road
<1>5. InOrder(h)' <=> InOrder(h)  BY SameLexemes, Zenon DEF InOrder
<1>6. QED  BY <1>2, <1>3, <1>4, <1>5

\* A road passes blanks one by one and counts none of them.
LEMMA BlanksPassed ==
  ASSUME n \in Nat, NEW h, NEW m, NEW s, Road(h, m, s), NEW a \in DOMAIN h, NEW b \in Int,
         a <= b, b <= m, \A j \in a .. b - 1 : isSpace(text[j])
  PROVE  b \in DOMAIN h /\ h[b] = h[a]
<1>1. /\ h \in [DOMAIN h -> Nat] /\ DOMAIN h \subseteq 1 .. n + 1 /\ m \in DOMAIN h
      /\ \A p \in DOMAIN h : p < m => Leads(h, p, s)
  BY DEF Road, Marks
<1> DEFINE S == {j \in Int : j <= b => j \in DOMAIN h /\ h[j] = h[a]}
<1>2. a \in Int /\ m \in Int  BY <1>1
<1>3. a \in S  BY <1>2
<1>4. ASSUME NEW j \in Int, j >= a, j \in S  PROVE j + 1 \in S
  <2>1. SUFFICES ASSUME j + 1 <= b  PROVE j + 1 \in DOMAIN h /\ h[j + 1] = h[a]
    BY <1>4
  <2>2. j \in DOMAIN h /\ h[j] = h[a] /\ j < m /\ j \in a .. b - 1  BY <1>2, <1>4, <2>1
  <2>3. Lexeme(j) = L("skip", j + 1)  BY <2>2, SpaceLexeme
  <2>4. Lexeme(j).end = j + 1 /\ Lexeme(j).kind = "skip"  BY <2>3 DEF L
  <2>5. Leads(h, j, s)  BY <1>1, <2>2
  <2>6. QED  BY <2>2, <2>4, <2>5 DEF Leads
<1> HIDE DEF S
<1>5. \A j \in Int : j >= a => j \in S  BY <1>2, <1>3, <1>4, Forwards
<1>6. b \in S  BY <1>2, <1>5
<1>7. QED  BY <1>6 DEF S

\* The second reading: a turn passes the lexeme the first reading had there.
LEMMA AgainTurn ==
  ASSUME Shape, at = "scan", Again, Turn, i <= n
  PROVE  Again' /\ at' = "scan"
<1>1. n \in Nat /\ n' = n /\ text' = text /\ first' = first  BY DEF Shape, Turn, n
<1>2. PICK h : /\ Road(h, n + 1, first) /\ i \in DOMAIN h /\ Len(toks) = h[i]
               /\ \A t \in 1 .. Len(toks) : SameToken(toks[t], first[t])
  BY DEF Again
<1>3. PICK x : x = Lexeme(i)  OBVIOUS
<1>4. i \in Int /\ i < n + 1  BY <1>1 DEF Shape
<1>5. Leads(h, i, first)  BY <1>2, <1>4 DEF Road
<1>6. h[i] \in Nat  BY <1>2 DEF Road, Marks
<1>7. x.end \in i + 1 .. n + 1 /\ x.end \in DOMAIN h  BY <1>3, <1>5 DEF Leads
<1>8. x.end # 1 /\ 1 <= i  BY <1>1, <1>4, <1>7 DEF Shape
<1>9. Passes(x)  BY <1>3, <1>8 DEF Turn, Refuses
<1>10. i' = x.end /\ at' = "scan"  BY <1>9 DEF Passes
<1>11. Road(h, n + 1, first)'
  <2>1. PICK m : m = n + 1  OBVIOUS
  <2>2. PICK s : s = first  OBVIOUS
  <2>3. Road(h, m, s)'  BY <1>1, <1>2, <2>1, <2>2, RoadStays
  <2>4. QED  BY <1>1, <2>1, <2>2, <2>3, Zenon
<1>12. Len(toks') = h[x.end] /\ \A t \in 1 .. Len(toks') : SameToken(toks'[t], first[t])
  <2>1. CASE x.kind = "skip"
    <3>1. toks' = toks  BY <1>9, <2>1 DEF Passes
    <3>2. h[x.end] = h[i]  BY <1>3, <1>5, <2>1 DEF Leads
    <3>3. QED  BY <1>2, <3>1, <3>2
  <2>2. CASE x.kind # "skip"
    <3>1. PICK t : t = TokenOf(i, x)  OBVIOUS
    <3>2. toks' = Append(toks, t)  BY <1>9, <2>2, <3>1, Zenon DEF Passes
    <3>3. t.kind = x.kind /\ t.text = Spelled(x.kind, i, x.end)  BY <3>1 DEF TokenOf
    <3>4. SameToken(t, first[h[i] + 1]) /\ h[x.end] = h[i] + 1
      BY <1>3, <1>5, <2>2, <3>3 DEF Leads, SameToken
    <3>5. PICK X : toks \in Seq(X)  BY DEF Shape, IsTokens
    <3>6. /\ Len(toks') = Len(toks) + 1 /\ toks'[Len(toks) + 1] = t
          /\ \A k \in 1 .. Len(toks) : toks'[k] = toks[k]
      <4>1. toks \in Seq(X \cup {t}) /\ t \in X \cup {t}  BY <3>5, SeqMonotonic
      <4>2. QED  BY <3>2, <4>1, AppendProperties
    <3>7. QED  BY <1>2, <1>6, <3>4, <3>6
  <2>3. QED  BY <2>1, <2>2
<1>13. Again'  BY <1>1, <1>7, <1>10, <1>11, <1>12 DEF Again
<1>14. QED  BY <1>10, <1>13

Grown(s, m, x) == IF x.kind = "skip" THEN s ELSE Append(s, TokenOf(m, x))

\* The road goes on over one more lexeme.
LEMMA RoadGoesOn ==
  ASSUME n \in Nat, NEW h, NEW m \in Int, NEW X, NEW s \in Seq(X), Road(h, m, s), InOrder(h),
         NEW x, x = Lexeme(m), NEW y, y = x.end, y \in m + 1 .. n + 1, NEW s2,
         s2 = Grown(s, m, x)
  PROVE  \E g : Road(g, y, s2) /\ InOrder(g) /\ \A p \in DOMAIN h : p \in DOMAIN g /\ g[p] = h[p]
<1>1. /\ h \in [DOMAIN h -> Nat] /\ DOMAIN h \subseteq 1 .. n + 1 /\ 1 \in DOMAIN h /\ h[1] = 0
      /\ m \in DOMAIN h /\ h[m] = Len(s)
      /\ \A p \in DOMAIN h : p <= m
      /\ \A p \in DOMAIN h : p < m => Leads(h, p, s)
  BY DEF Road, Marks
<1>2. y \notin DOMAIN h /\ y \in 1 .. n + 1 /\ y \in Int  BY <1>1
<1>3. /\ x.kind = "skip" => s2 = s
      /\ x.kind # "skip" => /\ Len(s2) = Len(s) + 1 /\ s2[Len(s) + 1].kind = x.kind
                            /\ s2[Len(s) + 1].text = Spelled(x.kind, m, y)
      /\ Len(s2) \in Nat /\ \A k \in 1 .. Len(s) : s2[k] = s[k]
  <2>1. CASE x.kind = "skip"
    <3>1. s2 = s  BY <2>1 DEF Grown
    <3>2. QED  BY <2>1, <3>1
  <2>2. CASE x.kind # "skip"
    <3>1. PICK t : t = TokenOf(m, x)  OBVIOUS
    <3>2. s2 = Append(s, t)  BY <2>2, <3>1, Zenon DEF Grown
    <3>3. t.kind = x.kind /\ t.text = Spelled(x.kind, m, y)  BY <3>1 DEF TokenOf
    <3>4. s \in Seq(X \cup {t}) /\ t \in X \cup {t}  BY SeqMonotonic
    <3>5. /\ Len(s2) = Len(s) + 1 /\ s2[Len(s) + 1] = t
          /\ \A k \in 1 .. Len(s) : s2[k] = s[k]
      BY <3>2, <3>4, AppendProperties
    <3>6. Len(s2) \in Nat  BY <3>2, <3>4
    <3>7. QED  BY <2>2, <3>3, <3>5, <3>6
  <2>3. QED  BY <2>1, <2>2
<1>4. Len(s) \in Nat /\ Len(s) <= Len(s2)
  <2>1. Len(s) \in Nat  OBVIOUS
  <2>2. QED  BY <1>3, <2>1
<1>5. PICK g : g = [p \in DOMAIN h \cup {y} |-> IF p = y THEN Len(s2) ELSE h[p]]  OBVIOUS
<1>6. /\ DOMAIN g = DOMAIN h \cup {y} /\ g[y] = Len(s2) /\ \A p \in DOMAIN h : g[p] = h[p]
  BY <1>2, <1>5
<1>7. Marks(g)
  <2>1. g \in [DOMAIN g -> Nat]
    <3>1. \A p \in DOMAIN h \cup {y} : (IF p = y THEN Len(s2) ELSE h[p]) \in Nat
      BY <1>1, <1>3
    <3>2. QED  BY <1>5, <1>6, <3>1
  <2>2. QED  BY <1>1, <1>2, <1>6, <2>1 DEF Marks
<1>8. ASSUME NEW p \in DOMAIN g, p < y  PROVE Leads(g, p, s2)
  <2>1. p \in DOMAIN h  BY <1>2, <1>6, <1>8
  <2>2. p \in Int /\ p <= m /\ g[p] = h[p] /\ h[p] \in Nat  BY <1>1, <1>6, <2>1
  <2>3. CASE p < m
    <3>1. PICK z : z = Lexeme(p)  OBVIOUS
    <3>2. PICK b : b = z.end  OBVIOUS
    <3>3. /\ b \in p + 1 .. n + 1 /\ b \in DOMAIN h
          /\ z.kind = "skip" => h[b] = h[p]
          /\ z.kind # "skip" => /\ h[b] = h[p] + 1
                                /\ s[h[p] + 1].kind = z.kind
                                /\ s[h[p] + 1].text = Spelled(z.kind, p, b)
      <4>1. Leads(h, p, s)  BY <1>1, <2>1, <2>3
      <4>2. QED  BY <3>1, <3>2, <4>1, Zenon DEF Leads
    <3>4. h[b] <= h[m]
      <4>1. b \in Int /\ b <= m /\ h[b] \in Nat  BY <1>1, <3>3
      <4>2. CASE b = m  BY <4>1, <4>2
      <4>3. CASE b < m  BY <1>1, <3>3, <4>3 DEF InOrder
      <4>4. QED  BY <4>1, <4>2, <4>3
    <3>5. z.kind # "skip" => s2[h[p] + 1] = s[h[p] + 1]
      <4>1. SUFFICES ASSUME z.kind # "skip"  PROVE h[p] + 1 \in 1 .. Len(s)  BY <1>3
      <4>2. QED  BY <1>1, <1>4, <2>2, <3>3, <3>4, <4>1
    <3>6. g[b] = h[b] /\ b \in DOMAIN g  BY <1>6, <3>3
    <3>7. QED  BY <2>2, <3>1, <3>2, <3>3, <3>5, <3>6 DEF Leads
  <2>4. CASE p = m
    <3>1. y \in DOMAIN g /\ g[p] = Len(s)  BY <1>1, <1>6, <2>4
    <3>2. QED  BY <1>3, <1>6, <2>4, <3>1 DEF Leads
  <2>5. QED  BY <2>2, <2>3, <2>4
<1>9. Road(g, y, s2)
  <2>1. \A p \in DOMAIN g : p <= y  BY <1>1, <1>2, <1>6
  <2>2. QED  BY <1>6, <1>7, <1>8, <2>1 DEF Road
<1>10. ASSUME NEW p \in DOMAIN g, NEW q \in DOMAIN g, p < q
       PROVE  Lexeme(p).end <= q /\ g[p] <= g[q]
  <2>0. p \in Int /\ q \in Int /\ p <= y /\ q <= y  BY <1>1, <1>2, <1>6
  <2>1. CASE q \in DOMAIN h
    <3>1. p \in DOMAIN h
      <4>1. p # y  BY <1>10, <2>0
      <4>2. QED  BY <1>6, <4>1
    <3>2. QED  BY <1>6, <1>10, <2>1, <3>1 DEF InOrder
  <2>2. CASE q = y
    <3>1. p \in DOMAIN h /\ p <= m  BY <1>1, <1>6, <1>10, <2>0, <2>2
    <3>2. CASE p = m
      <4>1. Lexeme(p).end = q /\ g[p] = Len(s) /\ g[q] = Len(s2)  BY <1>1, <1>6, <2>2, <3>2
      <4>2. QED  BY <1>4, <2>0, <4>1
    <3>3. CASE p < m
      <4>1. Lexeme(p).end <= m /\ h[p] <= h[m]  BY <1>1, <3>1, <3>3 DEF InOrder
      <4>2. Lexeme(p).end \in Int
        <5>1. Lexeme(p).end \in p + 1 .. n + 1  BY <1>1, <3>1, <3>3 DEF Leads
        <5>2. QED  BY <2>0, <5>1
      <4>3. h[p] \in Nat /\ h[m] = Len(s) /\ g[p] = h[p] /\ g[q] = Len(s2)
        BY <1>1, <1>6, <2>2, <3>1
      <4>4. Lexeme(p).end <= q  BY <2>2, <4>1, <4>2
      <4>5. QED  BY <1>3, <1>4, <4>1, <4>3, <4>4
    <3>4. QED  BY <2>0, <3>1, <3>2, <3>3
  <2>3. QED  BY <1>6, <2>1, <2>2
<1>11. InOrder(g)  BY <1>10 DEF InOrder
<1>12. QED  BY <1>6, <1>9, <1>11

\* The first reading: a turn takes the road one lexeme further.
LEMMA ExaminedTurn ==
  ASSUME Shape, Examined, Turn, i <= n
  PROVE  Examined'
<1>1. n \in Nat /\ n' = n /\ text' = text /\ i \in Int  BY DEF Shape, Turn, n
<1>2. PICK h : Road(h, i, toks) /\ InOrder(h) /\ (toks # <<>> => LastIs(h, toks[Len(toks)].pos))
  BY DEF Examined
<1>3. PICK x : x = Lexeme(i)  OBVIOUS
<1>4. PICK X : toks \in Seq(X)  BY DEF Shape, IsTokens
<1>5. CASE Refuses(x)
  <2>1. i' = i /\ toks' = toks  BY <1>5 DEF Refuses
  <2>2. PICK m : m = i  OBVIOUS
  <2>3. PICK s : s = toks  OBVIOUS
  <2>4. Road(h, m, s)' /\ InOrder(h)'  BY <1>1, <1>2, <2>2, <2>3, RoadStays
  <2>5. Road(h, i, toks)'  BY <2>1, <2>2, <2>3, <2>4, Zenon
  <2>6. toks' # <<>> => LastIs(h, toks[Len(toks)].pos)'
    <3>1. SUFFICES ASSUME toks' # <<>>  PROVE LastIs(h, toks[Len(toks)].pos)'  OBVIOUS
    <3>2. PICK p : p = toks[Len(toks)].pos  OBVIOUS
    <3>3. LastIs(h, p)  BY <1>2, <2>1, <3>1, <3>2
    <3>4. Lexeme(p)' = Lexeme(p)  BY <1>1, SameLexemes
    <3>5. LastIs(h, p)'  BY <2>1, <3>3, <3>4 DEF LastIs
    <3>6. QED  BY <2>1, <3>2, <3>5, Zenon
  <2>7. QED  BY <2>4, <2>5, <2>6 DEF Examined
<1>6. CASE Passes(x)
  <2>1. PICK y : y = x.end  OBVIOUS
  <2>2. PICK s2 : s2 = toks'  OBVIOUS
  <2>3. y \in i + 1 .. n + 1 /\ i' = y  BY <1>6, <2>1 DEF Passes
  <2>4. s2 = IF x.kind = "skip" THEN toks ELSE Append(toks, TokenOf(i, x))
    BY <1>6, <2>2, Zenon DEF Passes
  <2>5. PICK g : /\ Road(g, y, s2) /\ InOrder(g)
                 /\ \A p \in DOMAIN h : p \in DOMAIN g /\ g[p] = h[p]
    <3>1. \E g : /\ Road(g, y, s2) /\ InOrder(g)
                 /\ \A p \in DOMAIN h : p \in DOMAIN g /\ g[p] = h[p]
      <4>1. n \in Nat /\ i \in Int /\ toks \in Seq(X) /\ Road(h, i, toks) /\ InOrder(h)
        BY <1>1, <1>2, <1>4
      <4>2. s2 = Grown(toks, i, x)  BY <2>4 DEF Grown
      <4>3. QED  BY <4>1, <4>2, <1>3, <2>1, <2>3, RoadGoesOn
    <3>2. QED  BY <3>1, Zenon
  <2>6. Road(g, y, s2)' /\ InOrder(g)'  BY <1>1, <2>5, RoadStays
  <2>7. Road(g, i, toks)'  BY <2>2, <2>3, <2>6, Zenon
  <2>8. toks' # <<>> => LastIs(g, toks[Len(toks)].pos)'
    <3>1. SUFFICES ASSUME toks' # <<>>  PROVE LastIs(g, toks[Len(toks)].pos)'  OBVIOUS
    <3>2. PICK p : p = toks'[Len(toks')].pos  OBVIOUS
    <3>3. p \in DOMAIN g /\ p < i' /\ g[p] = Len(toks') - 1 /\ Lexeme(p).kind # "skip"
      <4>1. CASE x.kind = "skip"
        <5>1. toks' = toks  BY <2>2, <2>4, <4>1
        <5>2. LastIs(h, p)  BY <1>2, <3>1, <3>2, <5>1
        <5>3. p \in DOMAIN h /\ p < i /\ h[p] = Len(toks) - 1 /\ Lexeme(p).kind # "skip"
          BY <5>2 DEF LastIs
        <5>4. p < i'
          <6>1. p \in Int  BY <1>1, <1>2, <5>3 DEF Road, Marks
          <6>2. QED  BY <1>1, <2>3, <5>3, <6>1
        <5>5. QED  BY <2>5, <5>1, <5>3, <5>4
      <4>2. CASE x.kind # "skip"
        <5>1. PICK t : t = TokenOf(i, x)  OBVIOUS
        <5>2. toks' = Append(toks, t)  BY <2>2, <2>4, <4>2, <5>1, Zenon
        <5>3. t.pos = i  BY <5>1 DEF TokenOf
        <5>4. toks \in Seq(X \cup {t}) /\ t \in X \cup {t}  BY <1>4, SeqMonotonic
        <5>5. Len(toks') = Len(toks) + 1 /\ toks'[Len(toks) + 1] = t
          BY <5>2, <5>4, AppendProperties
        <5>6. p = i  BY <3>2, <5>3, <5>5
        <5>7. i \in DOMAIN h /\ h[i] = Len(toks) /\ Len(toks) \in Nat  BY <1>2, <1>4 DEF Road
        <5>8. i < i'  BY <1>1, <2>3
        <5>9. QED  BY <1>3, <2>5, <4>2, <5>5, <5>6, <5>7, <5>8
      <4>3. QED  BY <4>1, <4>2
    <3>4. Lexeme(p)' = Lexeme(p)  BY <1>1, SameLexemes
    <3>5. LastIs(g, p)'  BY <3>3, <3>4 DEF LastIs
    <3>6. QED  BY <3>2, <3>5, Zenon
  <2>9. QED  BY <2>6, <2>7, <2>8 DEF Examined
<1>7. QED  BY <1>3, <1>5, <1>6 DEF Turn

-----------------------------------------------------------------------------
(* Classify cuts the text *)

Semicolon(e) == e <= n => text[e] = ";"

\* The cut is a mark, with a semicolon at it unless it is the end.
LEMMA CutAt ==
  ASSUME Shape, i = n + 1, toks # <<>>, NEW h, Road(h, i, toks),
         LastIs(h, toks[Len(toks)].pos), NEW e, e = Cut.end, NEW s, s = Cut.toks
  PROVE  /\ e \in DOMAIN h /\ h[e] = Len(s) /\ Semicolon(e)
         /\ \A k \in 1 .. Len(s) : s[k] = toks[k]
<1>1. n \in Nat  BY DEF Shape, n
<1>2. PICK X : toks \in Seq(X)  BY DEF Shape, IsTokens
<1>3. PICK last : last = toks[Len(toks)]  OBVIOUS
<1>4. Len(toks) \in Nat /\ Len(toks) >= 1  BY <1>2
<1>5. CASE IsSemicolon(last)
  <2>1. e = last.pos /\ s = SubSeq(toks, 1, Len(toks) - 1)  BY <1>3, <1>5 DEF Cut
  <2>2. /\ e \in DOMAIN h /\ e < i /\ h[e] = Len(toks) - 1 /\ Lexeme(e).kind # "skip"
    BY <1>3, <2>1 DEF LastIs
  <2>4. Len(s) = Len(toks) - 1 /\ \A k \in 1 .. Len(s) : s[k] = toks[k]
    <3>1. \A k \in 1 .. Len(toks) - 1 : toks[k] \in X  BY <1>2, <1>4
    <3>2. PICK m : m = Len(toks) - 1  OBVIOUS
    <3>3. m \in Nat /\ 1 \in Int /\ \A k \in 1 .. m : toks[k] \in X  BY <1>4, <3>1, <3>2
    <3>4. /\ Len(s) = IF 1 <= m THEN m - 1 + 1 ELSE 0
          /\ \A k \in 1 .. m - 1 + 1 : s[k] = toks[1 + k - 1]
      BY <2>1, <3>2, <3>3, SubSeqProperties
    <3>5. Len(s) = m  BY <3>3, <3>4
    <3>6. ASSUME NEW k \in 1 .. m  PROVE s[k] = toks[k]
      <4>1. k \in 1 .. m - 1 + 1 /\ 1 + k - 1 = k  BY <3>3
      <4>2. QED  BY <3>4, <4>1
    <3>7. QED  BY <3>2, <3>5, <3>6
  <2>5. Semicolon(e)
    <3>1. PICK x : x = Lexeme(e)  OBVIOUS
    <3>2. Leads(h, e, toks)  BY <2>2 DEF Road
    <3>3. toks[h[e] + 1].kind = x.kind /\ toks[h[e] + 1].text = Spelled(x.kind, e, x.end)
      BY <2>2, <3>1, <3>2 DEF Leads
    <3>4. h[e] + 1 = Len(toks)  BY <1>4, <2>2
    <3>5. last.kind = x.kind /\ last.text = Spelled(x.kind, e, x.end)  BY <1>3, <3>3, <3>4
    <3>6. x.kind = "punct" /\ Spelled("punct", e, x.end) = <<";">>
      BY <1>5, <3>5, Zenon DEF IsSemicolon
    <3>7. <<";">> # <<>>
      <4>1. ASSUME NEW c  PROVE <<c>> # <<>>  OBVIOUS
      <4>2. QED  BY <4>1, Zenon
    <3>8. <<text[e]>> = <<";">>  BY <3>6, <3>7, SpelledIs, Zenon
    <3>9. text[e] = ";"
      <4>1. ASSUME NEW c, NEW f, <<c>> = <<f>>  PROVE c = f  BY <4>1
      <4>2. QED  BY <3>8, <4>1, Zenon
    <3>10. QED  BY <3>9, Zenon DEF Semicolon
  <2>6. QED  BY <2>2, <2>4, <2>5
<1>6. CASE ~IsSemicolon(last)
  <2>1. e = n + 1 /\ s = toks  BY <1>3, <1>6 DEF Cut
  <2>2. e \in DOMAIN h /\ h[e] = Len(s)  BY <2>1 DEF Road
  <2>3. Semicolon(e)
    <3>1. ~(e <= n)  BY <1>1, <2>1
    <3>2. QED  BY <3>1, Zenon DEF Semicolon
  <2>4. QED  BY <2>1, <2>2, <2>3
<1>7. QED  BY <1>5, <1>6

\* Trimming blanks only leaves the part between the first and the last that
\* is not blank.
LEMMA TrimCuts ==
  ASSUME text \in Seq(STRING), NEW e \in 1 .. n + 1, Semicolon(e),
         text' = Trimmed(SubSeq(text, 1, e - 1)), OnlyBlanksTrimmed(SubSeq(text, 1, e - 1)),
         NEW b \in 1 .. e - 1, ~isSpace(text[b])
  PROVE  \E lo, hi : Cuts(lo, hi, e) /\ \A j \in 1 .. lo - 1 : isSpace(text[j])
<1>1. n \in Nat /\ n = Len(text)  BY DEF n
<1>2. PICK s : s = SubSeq(text, 1, e - 1)  OBVIOUS
<1>3. PICK m : m = e - 1  OBVIOUS
<1>4. m \in Nat /\ m \in 1 .. Len(text) /\ b \in 1 .. m  BY <1>1, <1>3
<1>5. s \in Seq(STRING) /\ Len(s) = m /\ \A j \in 1 .. m : s[j] = text[j]
  <2>1. \A j \in 1 .. m : text[j] \in STRING  BY <1>4
  <2>2. /\ s \in Seq(STRING) /\ Len(s) = IF 1 <= m THEN m - 1 + 1 ELSE 0
        /\ \A j \in 1 .. m - 1 + 1 : s[j] = text[1 + j - 1]
    BY <1>2, <1>3, <1>4, <2>1, SubSeqProperties
  <2>3. QED  BY <1>4, <2>2
<1>6. PICK kept : kept = Kept(s)  OBVIOUS
<1>7. DOMAIN s = 1 .. m  BY <1>5
<1>8. /\ kept \subseteq 1 .. m /\ kept # {}
      /\ \A j \in kept : ~isSpace(text[j])
      /\ \A j \in 1 .. m : isSpace(text[j]) \/ \E x, y \in kept : x <= j /\ j <= y
  <2>1. kept \subseteq 1 .. m  BY <1>6, <1>7 DEF Kept
  <2>2. \A j \in kept : ~isSpace(s[j])  BY <1>6 DEF Kept, White
  <2>3. OnlyBlanksTrimmed(s)  BY <1>2, Zenon
  <2>4. \A j \in 1 .. m : isSpace(s[j]) \/ \E x, y \in kept : x <= j /\ j <= y
    BY <1>6, <1>7, <2>3, Zenon DEF OnlyBlanksTrimmed
  <2>5. kept # {}
    <3>1. ~isSpace(s[b])  BY <1>4, <1>5
    <3>2. QED  BY <1>4, <2>4, <3>1
  <2>6. QED  BY <1>5, <2>1, <2>2, <2>4, <2>5
<1>9. PICK lo : lo = Min(kept)  OBVIOUS
<1>10. PICK hi : hi = Max(kept)  OBVIOUS
<1>11. lo \in kept /\ \A y \in kept : lo <= y
  <2>1. kept \subseteq Nat /\ kept # {}  BY <1>8
  <2>2. QED  BY <1>9, <2>1, MinIs
<1>12. hi \in kept /\ \A y \in kept : y <= hi
  <2>1. kept # {}  BY <1>8
  <2>2. QED  BY <1>4, <1>8, <1>10, <2>1, MaxIs
<1>13. text' = SubSeq(s, lo, hi)
  BY <1>2, <1>6, <1>8, <1>9, <1>10, Zenon DEF Trimmed
<1>14. lo \in 1 .. m /\ hi \in lo .. m /\ lo \in 1 .. n /\ hi \in lo .. n /\ e \in hi + 1 .. n + 1
  BY <1>1, <1>3, <1>4, <1>8, <1>11, <1>12
<1>15. SubSeq(s, lo, hi) = SubSeq(text, lo, hi)
  <2>1. lo \in 1 .. m - 1 + 1 /\ hi \in 1 .. m - 1 + 1 /\ 1 \in 1 .. Len(text)
        /\ 1 + lo - 1 = lo /\ 1 + hi - 1 = hi
    BY <1>1, <1>4, <1>14
  <2>2. SubSeq(SubSeq(text, 1, m), lo, hi) = SubSeq(text, 1 + lo - 1, 1 + hi - 1)
    BY <1>4, <2>1, SubSeqOfSubSeq
  <2>3. QED  BY <1>2, <1>3, <2>1, <2>2
<1>16. ~isSpace(text[hi]) /\ \A j \in hi + 1 .. e - 1 : isSpace(text[j])
  <2>1. ASSUME NEW j \in hi + 1 .. e - 1  PROVE isSpace(text[j])
    <3>1. j \in 1 .. m /\ j \in Int /\ hi \in Int /\ ~(j <= hi)  BY <1>3, <1>4, <1>14
    <3>2. SUFFICES ASSUME NEW x \in kept, NEW y \in kept, x <= j, j <= y  PROVE FALSE
      BY <1>8, <3>1
    <3>3. y \in Int /\ y <= hi  BY <1>8, <1>12
    <3>4. QED  BY <3>1, <3>2, <3>3
  <2>2. ~isSpace(text[hi])  BY <1>8, <1>12
  <2>3. QED  BY <2>1, <2>2
<1>17. \A j \in 1 .. lo - 1 : isSpace(text[j])
  <2>1. SUFFICES ASSUME NEW j \in 1 .. lo - 1  PROVE isSpace(text[j])  OBVIOUS
  <2>2. j \in 1 .. m /\ j \in Int /\ lo \in Int /\ ~(lo <= j)  BY <1>4, <1>14
  <2>3. SUFFICES ASSUME NEW x \in kept, NEW y \in kept, x <= j, j <= y  PROVE FALSE
    BY <1>8, <2>2
  <2>4. x \in Int /\ lo <= x  BY <1>8, <1>11
  <2>5. QED  BY <2>2, <2>3, <2>4
<1>18. text' = SubSeq(text, lo, hi)  BY <1>13, <1>15, Zenon
<1>19. Cuts(lo, hi, e)  BY <1>14, <1>16, <1>18, Zenon DEF Cuts, Semicolon
<1>20. QED  BY <1>17, <1>19, Zenon

\* The lexemes of the text that is left lead to its end, and their tokens are
\* those before the cut.
LEMMA RoadCut ==
  ASSUME NEW h, NEW s0, Road(h, n + 1, s0), InOrder(h), NEW lo, NEW hi, NEW e, Cuts(lo, hi, e),
         \A j \in 1 .. lo - 1 : isSpace(text[j]), e \in DOMAIN h, NEW s, h[e] = Len(s),
         \A k \in 1 .. Len(s) : s[k] = s0[k]
  PROVE  \E g : Road(g, n + 1, s)'
<1>1. PICK d : d = lo - 1  OBVIOUS
<1>2. /\ lo \in Nat /\ lo >= 1 /\ hi \in Nat /\ lo <= hi /\ hi <= n /\ n \in Nat /\ d \in Nat
      /\ e \in Nat /\ hi < e /\ e <= n + 1 /\ n' = hi - d /\ n' \in Nat
  BY <1>1, CutKeeps
<1>3. /\ h \in [DOMAIN h -> Nat] /\ DOMAIN h \subseteq 1 .. n + 1 /\ 1 \in DOMAIN h /\ h[1] = 0
      /\ \A p \in DOMAIN h : p < n + 1 => Leads(h, p, s0)
  BY DEF Road, Marks
<1>4. lo \in DOMAIN h /\ h[lo] = 0
  <2>1. PICK a : a = 1  OBVIOUS
  <2>2. PICK m : m = n + 1  OBVIOUS
  <2>3. n \in Nat /\ lo \in Int /\ a <= lo /\ lo <= m  BY <1>2, <2>1, <2>2
  <2>4. a \in DOMAIN h /\ h[a] = 0  BY <1>3, <2>1
  <2>5. Road(h, m, s0)  BY <2>2
  <2>6. \A j \in a .. lo - 1 : isSpace(text[j])  BY <2>1
  <2>7. lo \in DOMAIN h /\ h[lo] = h[a]  BY <2>3, <2>4, <2>5, <2>6, BlanksPassed, Zenon
  <2>8. QED  BY <2>4, <2>7
<1>5. ASSUME NEW y \in DOMAIN h, hi < y, y <= e  PROVE h[e] = h[y]
  <2>1. \A j \in y .. e - 1 : isSpace(text[j])
    <3>1. y \in Nat /\ hi < y /\ hi \in Nat /\ e \in Nat  BY <1>2, <1>3, <1>5
    <3>2. \A j \in y .. e - 1 : j \in hi + 1 .. e - 1  BY <3>1
    <3>3. \A j \in hi + 1 .. e - 1 : isSpace(text[j])  BY Zenon DEF Cuts
    <3>4. QED  BY <3>2, <3>3, Zenon
  <2>2. PICK m : m = n + 1  OBVIOUS
  <2>3. n \in Nat /\ e \in Int /\ y <= e /\ e <= m  BY <1>2, <1>5, <2>2
  <2>4. Road(h, m, s0)  BY <2>2
  <2>5. QED  BY <2>1, <2>3, <2>4, BlanksPassed, Zenon
<1> DEFINE D == {q \in 1 .. n' : q + d \in DOMAIN h}
<1>6. PICK g : g = [q \in D \cup {n' + 1} |-> IF q = n' + 1 THEN h[e] ELSE h[q + d]]  OBVIOUS
<1>7. /\ DOMAIN g = D \cup {n' + 1} /\ g[n' + 1] = h[e]
      /\ \A q \in D : g[q] = h[q + d] /\ q \in Nat /\ q < n' + 1
  <2>1. \A q \in D : q \in Nat /\ q < n' + 1 /\ q # n' + 1  BY <1>2
  <2>2. QED  BY <1>6, <2>1
<1>8. 1 \in D /\ 1 + d = lo  BY <1>1, <1>2, <1>4
<1>9. ASSUME NEW p \in DOMAIN h, p >= lo, p <= e
      PROVE  LET q == IF p <= hi THEN p - d ELSE n' + 1
             IN q \in DOMAIN g /\ g[q] = h[p]
  <2>1. p \in Nat  BY <1>3
  <2>2. CASE p <= hi
    <3>1. p - d \in D /\ (p - d) + d = p  BY <1>1, <1>2, <1>9, <2>1, <2>2
    <3>2. QED  BY <1>7, <2>2, <3>1
  <2>3. CASE ~(p <= hi)
    <3>1. h[e] = h[p]  BY <1>2, <1>5, <1>9, <2>1, <2>3
    <3>2. QED  BY <1>7, <2>3, <3>1
  <2>4. QED  BY <2>2, <2>3
<1>10. ASSUME NEW q \in D  PROVE Leads(g, q, s)'
  <2>1. PICK p : p = q + d  OBVIOUS
  <2>2. p \in DOMAIN h /\ p \in lo .. hi /\ p < e /\ p < n + 1 /\ q = p - d /\ q \in Nat
    BY <1>1, <1>2, <2>1
  <2>3. PICK x : x = Lexeme(p)  OBVIOUS
  <2>4. PICK y : y = x.end  OBVIOUS
  <2>5. PICK k : k = x.kind  OBVIOUS
  <2>6. /\ y \in p + 1 .. n + 1 /\ y \in DOMAIN h
        /\ k = "skip" => h[y] = h[p]
        /\ k # "skip" => /\ h[y] = h[p] + 1
                         /\ s0[h[p] + 1].kind = k
                         /\ s0[h[p] + 1].text = Spelled(k, p, y)
    <3>1. Leads(h, p, s0)  BY <1>3, <2>2
    <3>2. QED  BY <2>3, <2>4, <2>5, <3>1, Zenon DEF Leads
  <2>7. y <= e
    <3>1. e \in DOMAIN h  OBVIOUS
    <3>2. Lexeme(p).end <= e  BY <2>2, <3>1, Zenon DEF InOrder
    <3>3. QED  BY <2>3, <2>4, <3>2, Zenon
  <2>8. y \in Nat /\ y # 1 /\ y > p
    <3>1. p \in Nat /\ p >= 1 /\ n \in Nat  BY <1>2, <1>3, <2>2
    <3>2. y \in p + 1 .. n + 1  BY <2>6
    <3>3. QED  BY <3>1, <3>2
  <2>9. PICK z : z = IF y <= hi + 1 THEN y - d ELSE n' + 1  OBVIOUS
  <2>10. /\ k # "skip" => y <= hi + 1
         /\ Lexeme(q)' = L(k, z)
    <3>1. Lexeme(p).end # 1 /\ Lexeme(p).end <= e  BY <2>3, <2>4, <2>7, <2>8
    <3>2. SameLexeme(hi, d, p)  BY <1>1, <2>2, <3>1, LexemeCut
    <3>3. /\ k # "skip" => y <= hi + 1
          /\ Lexeme(p - d)' = L(k, IF y <= hi + 1 THEN y - d ELSE n' + 1)
      BY <2>3, <2>4, <2>5, <3>2, Zenon DEF SameLexeme
    <3>4. Lexeme(p - d)' = Lexeme(q)'  BY <2>2, Zenon
    <3>5. QED  BY <2>9, <3>3, <3>4, Zenon
  <2>11. Lexeme(q)'.end = z /\ Lexeme(q)'.kind = k  BY <2>10 DEF L
  <2>12. z = IF y <= hi THEN y - d ELSE n' + 1
    <3>1. y = hi + 1 => y - d = n' + 1  BY <1>2
    <3>2. y <= hi + 1 <=> y <= hi \/ y = hi + 1  BY <1>2, <2>8
    <3>3. QED  BY <2>9, <3>1, <3>2
  <2>13. z \in DOMAIN g /\ g[z] = h[y]
    <3>1. y >= lo  BY <1>2, <2>2, <2>8
    <3>2. QED  BY <1>9, <2>6, <2>7, <2>12, <3>1
  <2>14. z \in q + 1 .. n' + 1
    <3>1. CASE y <= hi
      <4>1. z = y - d  BY <2>12, <3>1
      <4>2. q = p - d /\ n' = hi - d /\ d \in Nat /\ hi \in Nat /\ p \in Nat
        BY <1>2, <1>3, <2>2
      <4>3. QED  BY <2>8, <3>1, <4>1, <4>2
    <3>2. CASE ~(y <= hi)
      <4>1. z = n' + 1  BY <2>12, <3>2
      <4>2. q = p - d /\ n' = hi - d /\ d \in Nat /\ hi \in Nat /\ p \in Nat /\ p <= hi
        BY <1>2, <1>3, <2>2
      <4>3. QED  BY <4>1, <4>2
    <3>3. QED  BY <3>1, <3>2
  <2>15. g[q] = h[p] /\ h[p] \in Nat  BY <1>3, <1>7, <2>1, <2>2
  <2>16. k # "skip" => /\ s[h[p] + 1].kind = k
                       /\ s[h[p] + 1].text = Spelled(k, q, z)'
    <3>1. SUFFICES ASSUME k # "skip"
          PROVE /\ s[h[p] + 1].kind = k /\ s[h[p] + 1].text = Spelled(k, q, z)'
      OBVIOUS
    <3>2. h[y] <= h[e]
      <4>1. h[e] \in Nat /\ h[y] \in Nat  BY <1>3, <2>6
      <4>2. CASE y = e  BY <4>1, <4>2
      <4>3. CASE y < e  BY <2>6, <4>3 DEF InOrder
      <4>4. QED  BY <1>2, <2>7, <2>8, <4>2, <4>3
    <3>3. h[p] + 1 \in 1 .. Len(s)
      <4>1. Len(s) \in Nat  BY <1>3
      <4>2. QED  BY <2>6, <2>15, <3>1, <3>2, <4>1
    <3>4. s[h[p] + 1] = s0[h[p] + 1]  BY <3>3
    <3>5. y <= hi + 1 /\ z = y - d  BY <2>9, <2>10, <3>1
    <3>6. Spelled(k, p - d, y - d)' = Spelled(k, p, y)
      BY <1>1, <2>2, <2>8, <3>5, SpelledCut
    <3>7. Spelled(k, q, z)' = Spelled(k, p, y)  BY <2>2, <3>5, <3>6, Zenon
    <3>8. QED  BY <2>6, <3>1, <3>4, <3>7
  <2>17. /\ z \in q + 1 .. n' + 1 /\ z \in DOMAIN g
         /\ k = "skip" => g[z] = g[q]
         /\ k # "skip" => /\ g[z] = g[q] + 1
                          /\ s[g[q] + 1].kind = k
                          /\ s[g[q] + 1].text = Spelled(k, q, z)'
    BY <2>6, <2>13, <2>14, <2>15, <2>16
  <2>18. Spelled(Lexeme(q).kind, q, Lexeme(q).end)' = Spelled(k, q, z)'
    BY <2>11, Zenon DEF Spelled
  <2>19. QED  BY <2>11, <2>17, <2>18, Zenon DEF Leads
<1>11. Marks(g)'
  <2>1. g \in [DOMAIN g -> Nat]
    <3>1. \A q \in D \cup {n' + 1} : (IF q = n' + 1 THEN h[e] ELSE h[q + d]) \in Nat
      BY <1>3
    <3>2. QED  BY <1>6, <1>7, <3>1
  <2>2. DOMAIN g \subseteq 1 .. n' + 1  BY <1>2, <1>7
  <2>3. 1 \in DOMAIN g /\ g[1] = 0  BY <1>4, <1>7, <1>8
  <2>4. QED  BY <2>1, <2>2, <2>3 DEF Marks
<1> HIDE DEF D
<1>12. Road(g, n + 1, s)'
  <2>1. n' + 1 \in DOMAIN g /\ g[n' + 1] = Len(s)  BY <1>7
  <2>2. \A q \in DOMAIN g : q <= n' + 1 /\ (q < n' + 1 => q \in D)  BY <1>2, <1>7
  <2>3. \A q \in DOMAIN g : q <= n' + 1 /\ (q < n' + 1 => Leads(g, q, s)')
    BY <1>10, <2>2
  <2>4. QED  BY <1>11, <2>1, <2>3, Zenon DEF Road
<1>13. QED  BY <1>12, Zenon

\* The second reading starts on the road of the first, cut at both ends.
LEMMA ReturnAgain ==
  ASSUME Shape, i = n + 1, Examined, Return, clean'
  PROVE  Again'
<1>1. n \in Nat /\ text \in Seq(STRING)  BY DEF Shape, n
<1>2. /\ toks # <<>> /\ first' = Cut.toks /\ first' # <<>>
      /\ text' = Trimmed(SubSeq(text, 1, Cut.end - 1)) /\ i' = 1 /\ toks' = <<>>
      /\ OnlyBlanksTrimmed(SubSeq(text, 1, Cut.end - 1))
  BY Zenon DEF Return
<1>3. PICK h : Road(h, i, toks) /\ InOrder(h) /\ LastIs(h, toks[Len(toks)].pos)
  BY <1>2 DEF Examined
<1>4. PICK e : e = Cut.end  OBVIOUS
<1>5. PICK s : s = Cut.toks  OBVIOUS
<1>6. /\ e \in DOMAIN h /\ h[e] = Len(s) /\ Semicolon(e)
      /\ \A k \in 1 .. Len(s) : s[k] = toks[k]
  BY <1>2, <1>3, <1>4, <1>5, CutAt
<1>7. e \in 1 .. n + 1 /\ 1 \in DOMAIN h /\ h[1] = 0  BY <1>3, <1>6 DEF Road, Marks
<1>8. PICK b \in 1 .. e - 1 : ~isSpace(text[b])
  <2>1. SUFFICES ASSUME \A j \in 1 .. e - 1 : isSpace(text[j])  PROVE FALSE  OBVIOUS
  <2>2. 1 <= e /\ e <= i /\ e \in Int  BY <1>1, <1>7
  <2>3. h[e] = 0  BY <1>1, <1>3, <1>7, <2>1, <2>2, BlanksPassed
  <2>4. s = <<>>
    <3>1. PICK X : toks \in Seq(X)  BY DEF Shape, IsTokens
    <3>2. s \in Seq(X)
      <4>1. s = toks \/ s = SubSeq(toks, 1, Len(toks) - 1)  BY <1>5 DEF Cut
      <4>2. SubSeq(toks, 1, Len(toks) - 1) \in Seq(X)
        <5>1. \A k \in 1 .. Len(toks) - 1 : toks[k] \in X  BY <3>1
        <5>2. PICK m : m = Len(toks) - 1  OBVIOUS
        <5>3. m \in Int /\ 1 \in Int  BY <3>1, <5>2
        <5>4. QED  BY <5>1, <5>2, <5>3, SubSeqProperties
      <4>3. QED  BY <3>1, <4>1, <4>2
    <3>3. QED  BY <1>6, <2>3, <3>2, EmptySeq
  <2>5. QED  BY <1>2, <1>5, <2>4
<1>9. PICK lo, hi : Cuts(lo, hi, e) /\ \A j \in 1 .. lo - 1 : isSpace(text[j])
  <2>1. text' = Trimmed(SubSeq(text, 1, e - 1)) /\ OnlyBlanksTrimmed(SubSeq(text, 1, e - 1))
    BY <1>2, <1>4, Zenon
  <2>2. QED  BY <1>1, <1>6, <1>7, <1>8, <2>1, TrimCuts, Zenon
<1>10. PICK t : t = toks  OBVIOUS
<1>11. PICK g : Road(g, n + 1, s)'
  <2>1. Road(h, n + 1, t) /\ \A k \in 1 .. Len(s) : s[k] = t[k]  BY <1>3, <1>6, <1>10, Zenon
  <2>2. QED  BY <1>3, <1>6, <1>9, <2>1, RoadCut
<1>12. Road(g, n + 1, first)'  BY <1>2, <1>5, <1>11, Zenon
<1>13. 1 \in DOMAIN g /\ g[1] = 0
  <2>1. Marks(g)'  BY <1>11 DEF Road
  <2>2. QED  BY <2>1 DEF Marks
<1>14. QED
  <2>1. i' \in DOMAIN g /\ Len(toks') = g[i']  BY <1>2, <1>13
  <2>2. \A k \in 1 .. Len(toks') : SameToken(toks[k], first[k])'  BY <1>2
  <2>3. QED  BY <1>12, <2>1, <2>2, Zenon DEF Again

-----------------------------------------------------------------------------
(* What is cut is what was examined *)

Read ==
  /\ Shape /\ (at = "done" => i = n + 1)
  /\ first = <<>> => Examined
  /\ first # <<>> /\ clean => at # "rejected" /\ Again

\* The first reading starts at the beginning of the road.
LEMMA ReadStarts == Init => Read
<1>1. SUFFICES ASSUME Init  PROVE Read  OBVIOUS
<1>2. Shape  BY <1>1, ShapeStarts
<1>3. at = "scan" /\ first = <<>> /\ i = 1 /\ toks = <<>>  BY <1>1 DEF Init
<1>4. Examined
  <2>1. PICK h : h = [p \in {1} |-> 0]  OBVIOUS
  <2>2. DOMAIN h = {1} /\ h[1] = 0 /\ h \in [DOMAIN h -> Nat]  BY <2>1
  <2>3. n \in Nat  BY <1>2 DEF Shape, n
  <2>4. Marks(h)  BY <2>2, <2>3 DEF Marks
  <2>5. Road(h, i, toks)  BY <1>3, <2>2, <2>4 DEF Road
  <2>6. InOrder(h)  BY <2>2 DEF InOrder
  <2>7. QED  BY <1>3, <2>5, <2>6, Zenon DEF Examined
<1>5. QED  BY <1>2, <1>3, <1>4, Zenon DEF Read

\* Every step takes the reading further along its road.
LEMMA ReadStep ==
  ASSUME Shape', Read, [Next]_vars
  PROVE  Read'
<1>1. Shape /\ n \in Nat /\ i \in 1 .. n + 1  BY DEF Read, Shape, n
<1>2. CASE at = "scan" /\ i <= n /\ Next
  <2>1. Turn  BY <1>1, <1>2, OneTurn
  <2>2. first' = first /\ clean' = clean  BY <2>1 DEF Turn
  <2>3. at' \in {"scan", "rejected"}  BY <1>2, <2>1 DEF Turn, Passes, Refuses
  <2>4. first = <<>> => Examined'  BY <1>1, <1>2, <2>1, ExaminedTurn DEF Read
  <2>5. first # <<>> /\ clean => at' # "rejected" /\ Again'  BY <1>1, <1>2, <2>1, AgainTurn DEF Read
  <2>6. QED  BY <2>2, <2>3, <2>4, <2>5, Zenon DEF Read
<1>3. CASE Finish \/ vars' = vars
  <2>1. text' = text /\ i' = i /\ toks' = toks /\ first' = first /\ clean' = clean
    BY <1>3 DEF Finish, vars
  <2>2. n' = n  BY <2>1 DEF n
  <2>3. at' = "done" => i' = n' + 1
    <3>1. CASE Finish
      <4>1. i > n  BY <3>1 DEF Finish
      <4>2. QED  BY <1>1, <2>1, <2>2, <4>1
    <3>2. CASE vars' = vars
      <4>1. at' = at  BY <3>2 DEF vars
      <4>2. QED  BY <2>1, <2>2, <4>1 DEF Read
    <3>3. QED  BY <1>3, <3>1, <3>2
  <2>4. at' = "rejected" => at = "rejected"  BY <1>3 DEF Finish, vars
  <2>5. Examined => Examined'
    <3>1. SUFFICES ASSUME Examined  PROVE Examined'  OBVIOUS
    <3>2. PICK h : Road(h, i, toks) /\ InOrder(h) /\ (toks # <<>> => LastIs(h, toks[Len(toks)].pos))
      BY <3>1 DEF Examined
    <3>3. PICK m : m = i  OBVIOUS
    <3>4. PICK s : s = toks  OBVIOUS
    <3>5. Road(h, m, s)' /\ InOrder(h)'  BY <2>1, <3>2, <3>3, <3>4, RoadStays
    <3>6. Road(h, i, toks)'  BY <2>1, <3>3, <3>4, <3>5, Zenon
    <3>7. toks' # <<>> => LastIs(h, toks[Len(toks)].pos)'
      <4>1. PICK p : p = toks[Len(toks)].pos  OBVIOUS
      <4>2. Lexeme(p)' = Lexeme(p)  BY <2>1, SameLexemes
      <4>3. LastIs(h, p) => LastIs(h, p)'  BY <2>1, <4>2 DEF LastIs
      <4>4. QED  BY <2>1, <3>2, <4>1, <4>3, Zenon
    <3>8. QED  BY <3>5, <3>6, <3>7, Zenon DEF Examined
  <2>6. Again => Again'
    <3>1. SUFFICES ASSUME Again  PROVE Again'  OBVIOUS
    <3>2. PICK h : /\ Road(h, n + 1, first) /\ i \in DOMAIN h /\ Len(toks) = h[i]
                   /\ \A t \in 1 .. Len(toks) : SameToken(toks[t], first[t])
      BY <3>1 DEF Again
    <3>3. PICK m : m = n + 1  OBVIOUS
    <3>4. PICK s : s = first  OBVIOUS
    <3>5. Road(h, m, s)'  BY <2>1, <3>2, <3>3, <3>4, RoadStays
    <3>6. Road(h, n + 1, first)'  BY <2>1, <2>2, <3>3, <3>4, <3>5, Zenon
    <3>7. QED  BY <2>1, <3>2, <3>6 DEF Again
  <2>7. QED  BY <2>1, <2>3, <2>4, <2>5, <2>6, Zenon DEF Read
<1>4. CASE Return
  <2>1. at = "done" /\ first = <<>> /\ first' # <<>> /\ at' = "scan"  BY <1>4 DEF Return
  <2>2. i = n + 1 /\ Examined  BY <2>1 DEF Read
  <2>3. clean' => Again'  BY <1>1, <1>4, <2>2, ReturnAgain
  <2>4. QED  BY <2>1, <2>3 DEF Read
<1>5. Next => (at = "scan" /\ i <= n /\ Next) \/ Finish \/ Return
  BY DEF Next, Scanning, Space, LineComment, BlockComment, String, QuotedIdent, Dollar, Number,
     Word, Punct
<1>6. QED  BY <1>2, <1>3, <1>4, <1>5

\* Whatever the text, as long as only blanks of the tokenizer are trimmed off
\* it, what Classify returns is read again without being refused and has the
\* tokens that were examined, none less and none more.
THEOREM CutIsSafe == Spec => []CutSafe
<1>1. Read => CutSafe
  <2>1. SUFFICES ASSUME Read, first # <<>>, clean, at = "done"
        PROVE  /\ Len(toks) = Len(first)
               /\ \A t \in DOMAIN toks : toks[t].kind = first[t].kind /\ toks[t].text = first[t].text
    BY DEF CutSafe, Read
  <2>2. PICK h : /\ Road(h, n + 1, first) /\ i \in DOMAIN h /\ Len(toks) = h[i]
                 /\ \A t \in 1 .. Len(toks) : SameToken(toks[t], first[t])
    BY <2>1 DEF Read, Again
  <2>3. i = n + 1 /\ h[n + 1] = Len(first)  BY <2>1, <2>2 DEF Read, Road
  <2>4. DOMAIN toks = 1 .. Len(toks)
    <3>1. PICK X : toks \in Seq(X)  BY <2>1 DEF Read, Shape, IsTokens
    <3>2. QED  BY <3>1
  <2>5. QED  BY <2>2, <2>3, <2>4 DEF SameToken
<1>2. Shape' /\ Read /\ [Next]_vars => Read'  BY ReadStep
<1>3. QED  BY <1>1, <1>2, ReadStarts, ShapeHolds, PTL DEF Spec
=============================================================================
