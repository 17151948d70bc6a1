---------------------------- MODULE MCClassifier ----------------------------
(* Sentences built by the rules of a small grammar. A part is [t, reads,     *)
(* odd]: its tokens, whether it is or may stand in one statement without     *)
(* side effects, and whether it is built with a construct that the           *)
(* classifier is known to refuse although PostgreSQL takes it and it only    *)
(* reads. A sentence reads when all of its parts do. Denied functions stand  *)
(* for the list of the code.                                                 *)
EXTENDS Sequences

MCFunctions == {"set_config", "pg_notify"}

W(w) == [kind |-> "word", text |-> w]
P(p) == <<[kind |-> "punct", text |-> p]>>
Words(ws) == [j \in DOMAIN ws |-> W(ws[j])]
Reads(t) == [t |-> t, reads |-> TRUE, odd |-> FALSE]
Odd(t) == [t |-> t, reads |-> TRUE, odd |-> TRUE]
Writes(t) == [t |-> t, reads |-> FALSE, odd |-> FALSE]
Broken(t) == Writes(t) \* no statement, or more than one
\* before part after, before part between part after
Around(before, ps, after) == {[p EXCEPT !.t = before \o @ \o after] : p \in ps}
Both(before, ps, between, qs, after) ==
  {[t |-> before \o p.t \o between \o q.t \o after,
    reads |-> p.reads /\ q.reads, odd |-> p.odd \/ q.odd] : p \in ps, q \in qs}
\* Refused for what is around them.
Oddly(ps) == {[p EXCEPT !.odd = TRUE] : p \in ps}

\* Expressions: columns, some named like keywords or quoted, literals, calls.
\* Odd: a column named like a keyword between a parenthesis and a word, or
\* after the FOR of substring.
Atoms ==
  {Reads(<<W("x")>>), Reads(<<W("start")>>), Reads(<<W("end")>>),
   Reads(<<[kind |-> "quoted", text |-> "delete"]>>), Reads(<<[kind |-> "string", text |-> ""]>>),
   Reads(<<W("cluster")>> \o P("+") \o <<[kind |-> "number", text |-> "1"]>>),
   Odd(P("(") \o Words(<<"start", "is", "null">>) \o P(")")),
   Odd(<<W("substring")>> \o P("(") \o Words(<<"x", "for", "key">>) \o P(")")),
   Writes(<<W("set_config")>> \o P("(") \o P(")")),
   Writes(<<[kind |-> "quoted", text |-> "pg_notify"]>> \o P("(") \o P(")"))}
Calls(es) == Around(<<W("f")>> \o P("("), es, P(")"))
Cases(es) == Around(Words(<<"case", "when", "x", "then">>), es, <<W("end")>>)
Subqueries(es) == Around(P("(") \o <<W("select")>>, es, P(")"))

Nested == Calls(Atoms) \cup Subqueries(Atoms)
          \cup Cases(Atoms \cup Calls(Atoms) \cup Subqueries(Atoms))
Exprs == Atoms \cup Nested \cup Calls(Nested) \cup Both(<<W("f")>> \o P("("), Atoms, P(","), Atoms, P(")"))

Tails ==
  {Reads(<<>>), Reads(Words(<<"from", "t">>)), Reads(Words(<<"from", "t", "order", "by", "x">>)),
   Writes(Words(<<"from", "t", "for", "update">>)), Writes(Words(<<"into", "s", "from", "t">>)),
   Writes(Words(<<"from", "t", "for", "no", "key", "update">>))}
Selects(es, ts) == Both(<<W("select")>>, es, <<>>, ts, <<>>)
\* A column alias named like a keyword, without AS. Odd: after a parenthesis.
Ends(p) == IF p.t[Len(p.t)] = P(")")[1] THEN Oddly({p}) ELSE {p}
Aliased(es) ==
  Selects(UNION {Ends(p) : p \in es},
          {Reads(<<W("comment")>> \o P(",") \o Words(<<"y", "from", "t">>)),
           Reads(Words(<<"comment", "from", "t">>))})
Queries == Selects(Exprs, Tails) \cup Aliased(Exprs) \cup Around(<<W("values")>> \o P("("), Atoms, P(")"))
           \cup {Reads(Words(<<"table", "t">>))}
Few == Selects(Atoms \cup Calls(Atoms), {Reads(<<>>), Reads(Words(<<"from", "t">>))})
       \cup {Reads(Words(<<"table", "t">>))}
Changes ==
  {Writes(Words(<<"delete", "from", "t">>)), Writes(Words(<<"update", "t", "set", "x">>)),
   Writes(Words(<<"merge", "into", "t">>)), Writes(Words(<<"truncate", "t">>)),
   Writes(Words(<<"insert", "into", "t">>) \o P("(") \o <<W("x")>> \o P(")"))}
Bodies == Few \cup Changes

\* A query in parentheses. Odd as a whole statement and as the target of
\* EXPLAIN, but not as the main statement of WITH.
InParens(qs) == Around(P("("), qs, P(")"))

Withs(qs) ==
  Both(Words(<<"with", "c", "as">>) \o P("("), Bodies, P(")"), qs, <<>>)
    \cup Both(Words(<<"with", "recursive", "c">>) \o P("(") \o <<W("x")>> \o P(")") \o <<W("as")>> \o P("("),
              Bodies, P(")"), Few, <<>>)
    \cup Both(Words(<<"with", "c", "as">>) \o P("("), Bodies,
              P(")") \o P(",") \o Words(<<"d", "as", "materialized">>) \o P("("), Bodies,
              P(")") \o Words(<<"table", "c">>))

\* EXPLAIN with ANALYZE runs its target and EXPLAIN without does not, whatever
\* it is. Odd: a target that would write, when it is not run.
Headers ==
  {Words(<<"analyze">>), Words(<<"analyze", "verbose">>), P("(") \o <<W("analyze")>> \o P(")"),
   P("(") \o <<W("analyze")>> \o P(",") \o Words(<<"format", "json">>) \o P(")") \o <<W("verbose")>>}
PlainHeaders == {<<>>, <<W("verbose")>>, P("(") \o Words(<<"format", "json">>) \o P(")")}
Targets ==
  Few \cup Changes \cup Withs(Changes \cup {Reads(Words(<<"table", "c">>))}) \cup Oddly(InParens(Few))
NotRun(ps) == {[p EXCEPT !.reads = TRUE, !.odd = @ \/ ~p.reads] : p \in ps}
Explains ==
  UNION {Around(<<W("explain")>> \o h, Targets, <<>>) : h \in Headers}
    \cup UNION {Around(<<W("explain")>> \o h, NotRun(Targets), <<>>) : h \in PlainHeaders}
    \cup {Broken(<<W("explain")>> \o h \o t) :
            h \in Headers \cup PlainHeaders, t \in {<<>>, Words(<<"show", "all">>)}}

Statements ==
  Queries \cup Changes \cup Withs(Bodies) \cup Withs(InParens(Few)) \cup Explains \cup Oddly(InParens(Few))
    \cup {Reads(Words(<<"show", "all">>)), Broken(P("(")), Broken(<<>>),
          Broken(<<W("explain")>> \o P("(") \o <<W("analyze")>>)}

\* Odd: more than one semicolon after the statement.
Endings == {Reads(<<>>), Reads(P(";")), Odd(P(";") \o P(";")), Broken(P(";") \o Words(<<"table", "t">>))}
MCSentences ==
  {[toks |-> s.t, reads |-> s.reads, odd |-> s.odd] :
     s \in Statements \cup Both(<<>>, Few \cup Changes \cup {Broken(<<>>)}, <<>>, Endings, <<>>)}
=============================================================================
