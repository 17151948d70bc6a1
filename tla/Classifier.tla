----------------------------- MODULE Classifier -----------------------------
(***************************************************************************)
(* The rules of the SQL classifier over the tokens of a text               *)
(* (internal/sqlguard/sqlguard.go Classify, explainBody, scan). A token is *)
(* [kind, text] with the kinds of Tokenizer. The classifier is a heuristic *)
(* and not what keeps the database unwritten (see Sessions): the sentences *)
(* of an instance are ones of which the grammar says what they are.        *)
(***************************************************************************)
EXTENDS Integers, Sequences

CONSTANTS
  Sentences,     \* [toks, reads, odd]: a text, whether it is one statement that
                 \* only reads, and whether an odd construct is in it
  denyFunctions  \* the names of functions with side effects

Kinds == {"select", "with", "explain", "show", "values", "table"}
Explainable == Kinds \ {"explain", "show"}
denyKeywords ==
  {"insert", "update", "delete", "merge", "truncate", "alter", "create", "drop", "grant",
   "revoke", "copy", "call", "do", "lock", "refresh", "reindex", "vacuum", "analyze",
   "analyse", "cluster", "set", "reset", "listen", "notify", "unlisten", "prepare",
   "execute", "deallocate", "begin", "commit", "rollback", "start", "end", "abort",
   "savepoint", "release", "discard", "security", "declare", "fetch", "move", "close",
   "load", "import", "checkpoint", "comment"}

VARIABLES
  sentence, \* what is classified
  toks,     \* its tokens, without a trailing semicolon once that is cut
  at,       \* the step Classify has come to, or "accepted", "refused"
  k,        \* the position of the next token
  depth,    \* of the parentheses opened before k
  kind      \* the kind by the first keyword, "" before

vars == <<sentence, toks, at, k, depth, kind>>

IsWord(t) == t.kind = "word"
IsPunct(t, c) == t.kind = "punct" /\ t.text = c

\* The change of depth a token makes.
Step(t) == IF IsPunct(t, "(") THEN 1 ELSE IF IsPunct(t, ")") THEN -1 ELSE 0

Init ==
  /\ sentence \in Sentences
  /\ toks = sentence.toks
  /\ at = "cut" /\ k = 1 /\ depth = 0 /\ kind = ""

Go(step) == at' = step
Have == k <= Len(toks)

-----------------------------------------------------------------------------
(* Classify *)

\* One trailing semicolon is removed.
Uncut(s) == IF IsPunct(s[Len(s)], ";") THEN SubSeq(s, 1, Len(s) - 1) ELSE s

\* Empty before or after the cut, or a semicolon left: refused.
CutSemicolon ==
  /\ at = "cut"
  /\ IF toks = <<>> THEN Go("refused") /\ UNCHANGED toks
     ELSE /\ toks' = Uncut(toks)
          /\ Go(IF toks' = <<>> \/ \E j \in DOMAIN toks' : IsPunct(toks'[j], ";")
                THEN "refused" ELSE "first")
  /\ UNCHANGED <<sentence, k, depth, kind>>

First ==
  /\ at = "first"
  /\ IF IsWord(toks[1]) /\ toks[1].text \in Kinds
     THEN kind' = toks[1].text /\ Go(IF kind' = "explain" THEN "options" ELSE "scan")
     ELSE Go("refused") /\ UNCHANGED kind
  /\ k' = 2
  /\ UNCHANGED <<sentence, toks, depth>>

-----------------------------------------------------------------------------
(* explainBody *)

\* The option list ends with the parenthesis that closes its first one.
Options ==
  /\ at = "options"
  /\ IF k = 2 /\ ~(Have /\ IsPunct(toks[k], "("))
     THEN Go("words") /\ UNCHANGED <<k, depth>>
     ELSE IF ~Have THEN Go("refused") /\ UNCHANGED <<k, depth>>
     ELSE /\ depth' = depth + Step(toks[k])
          /\ k' = k + 1
          /\ Go(IF IsPunct(toks[k], ")") /\ depth' = 0 THEN "words" ELSE "options")
  /\ UNCHANGED <<sentence, toks, kind>>

ExplainWord ==
  /\ at = "words" /\ Have
  /\ IsWord(toks[k]) /\ toks[k].text \in {"analyze", "analyse", "verbose"}
  /\ k' = k + 1
  /\ UNCHANGED <<sentence, toks, at, depth, kind>>

\* Mutant of Explained: anything that may start a statement may be explained.
ExplainedAny(t) == IsWord(t) /\ t.text \in Kinds \cup denyKeywords

Explained(t) == IsWord(t) /\ t.text \in Explainable

Target ==
  /\ at = "words"
  /\ ~(Have /\ IsWord(toks[k]) /\ toks[k].text \in {"analyze", "analyse", "verbose"})
  /\ Go(IF Have /\ Explained(toks[k]) THEN "scan" ELSE "refused")
  /\ k' = k + 1
  /\ UNCHANGED <<sentence, toks, depth, kind>>

-----------------------------------------------------------------------------
(* scan *)

Prev == toks[k - 1]
HasNext == k < Len(toks)
NextIs(c) == HasNext /\ IsPunct(toks[k + 1], c)

CallsDenied ==
  NextIs("(") /\ toks[k].kind \in {"word", "quoted"} /\ toks[k].text \in denyFunctions

LocksRows ==
  /\ toks[k].text = "for" /\ HasNext
  /\ IsWord(toks[k + 1]) /\ toks[k + 1].text \in {"update", "share", "no", "key"}

isStatementPosition ==
  \/ /\ IsPunct(Prev, "(") /\ HasNext
     /\ toks[k + 1].kind \in {"word", "quoted"} \/ NextIs("(")
  \/ IsPunct(Prev, ")") /\ depth = 0

DeniedKeyword ==
  /\ toks[k].text \in denyKeywords
  /\ ~(toks[k].text = "end" /\ IsPunct(Prev, ")"))
  /\ isStatementPosition

Refuses ==
  \/ CallsDenied
  \/ IsWord(toks[k]) /\ (toks[k].text = "into" \/ LocksRows \/ DeniedKeyword)

Scan ==
  /\ at = "scan" /\ Have
  /\ IF toks[k].kind = "punct" THEN depth' = depth + Step(toks[k]) /\ UNCHANGED at
     ELSE UNCHANGED depth /\ IF Refuses THEN Go("refused") ELSE UNCHANGED at
  /\ k' = k + 1
  /\ UNCHANGED <<sentence, toks, kind>>

Accept ==
  /\ at = "scan" /\ ~Have /\ Go("accepted")
  /\ UNCHANGED <<sentence, toks, k, depth, kind>>

Next ==
  CutSemicolon \/ First \/ Options \/ ExplainWord \/ Target \/ Scan \/ Accept

Spec == Init /\ [][Next]_vars

-----------------------------------------------------------------------------
(* Properties *)

\* Whatever Classify accepts is one statement that only reads: it takes neither
\* a second statement nor one that writes, be that the main statement, the body
\* of a common table expression or what EXPLAIN ANALYZE runs, nor a row lock,
\* SELECT INTO, or a call with side effects, however deep in the text. And it
\* refuses no such statement but for one of the constructs known as odd: quoted
\* keywords, columns named like a keyword, CASE branches that end in a call or
\* a subquery, EXPLAIN with its options, common table expressions and one
\* trailing semicolon pass. The rule about depth 0 means outermost: no
\* parenthesis closes more than was opened.
AcceptsReads ==
  /\ at = "accepted" => sentence.reads
  /\ at = "refused" /\ sentence.reads => sentence.odd
  /\ depth \in 0 .. Len(toks)
=============================================================================
