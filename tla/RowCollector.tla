---------------------------- MODULE RowCollector ----------------------------
(***************************************************************************)
(* How the body of a read call turns a result set into a bounded answer:   *)
(* Query, Explain and the last statement of SampleRows, with collectRows   *)
(* and resolveTypeNames (internal/timescale/query.go, catalog.go).         *)
(*                                                                         *)
(* A row is counted, not represented: data = 3 means that the first three  *)
(* rows of the result were collected, in order.  The stream may break      *)
(* before any row, a value may not decode, and every statement may fail.   *)
(* A connection carries one result at a time (external: pgx): a statement  *)
(* sent while a result is open fails with "conn busy".                     *)
(***************************************************************************)
EXTENDS Integers

CONSTANTS
  MaxRows,   \* maxRows of the database, at least 1
  Requests,  \* the row counts callers ask for; the tools refuse less than 1
  Totals,    \* how many rows a statement may produce
  Cols       \* the columns of a result

VARIABLES
  pc,        \* where the body stands
  mode,      \* how the statement runs
  asked,     \* the requested row count
  max,       \* the clamped row count
  total,     \* rows the statement would produce
  streamed,  \* rows that have left the server
  data,      \* rows collected
  truncated, rowErr, open,
  clash,     \* a statement was sent while a result was open
  unknown,   \* columns whose type pgx does not know
  typed,     \* columns with a type name
  out        \* what the body returned

vars == <<pc, mode, asked, max, total, streamed, data, truncated, rowErr, open,
          clash, unknown, typed, out>>

Modes == {"cursor", "direct", "sample", "explain"}

TypeOK ==
  /\ pc \in {"done", "declare", "fetch", "loop", "close", "resolve", "undo"}
  /\ mode \in Modes
  /\ asked \in Int /\ max \in Nat /\ total \in Nat /\ streamed \in Nat /\ data \in Nat
  /\ truncated \in BOOLEAN /\ rowErr \in BOOLEAN /\ open \in BOOLEAN /\ clash \in BOOLEAN
  /\ unknown \subseteq Cols /\ typed \subseteq Cols
  /\ out \in {"none", "ok", "err"}

clampRows(n) == IF n <= 0 \/ n > MaxRows THEN MaxRows ELSE n

\* Mutant of Offered: FETCH ALL.
OfferedAll == total

\* The rows the server would send: FETCH FORWARD max+1 and LIMIT max+1 bound
\* them, EXPLAIN and SHOW run without a cursor.
Offered == IF mode \in {"cursor", "sample"} /\ total > max + 1 THEN max + 1 ELSE total

-----------------------------------------------------------------------------
\* A body starts: a SELECT-like statement goes through a cursor, EXPLAIN and
\* SHOW run directly, SampleRows selects with LIMIT, Explain reads every line.
Start ==
  /\ pc = "done"
  /\ \E m \in Modes, r \in Requests, n \in Totals, U \in SUBSET Cols :
       /\ mode' = m /\ asked' = r /\ max' = clampRows(r) /\ total' = n /\ unknown' = U
       /\ pc' = IF m = "cursor" THEN "declare" ELSE "fetch"
  /\ streamed' = 0 /\ data' = 0 /\ truncated' = FALSE /\ rowErr' = FALSE
  /\ open' = FALSE /\ clash' = FALSE /\ typed' = {} /\ out' = "none"

\* Mutant of Return: rows.Close is not deferred.
ReturnOpen(o) == pc' = "undo" /\ out' = o /\ UNCHANGED open

\* The body returns o; withTx rolls back next, after the deferred rows.Close.
Return(o) == pc' = "undo" /\ out' = o /\ open' = FALSE

\* A statement is on its way: clash tells if the connection was taken.
Sent == clash' = (clash \/ open)

\* execExtended: DECLARE, whose empty result is closed before its error is read.
Declare ==
  /\ pc = "declare" /\ Sent
  /\ \/ pc' = "fetch" /\ UNCHANGED <<open, out>>
     \/ Return("err")
  /\ UNCHANGED <<mode, asked, max, total, streamed, data, truncated, rowErr, unknown, typed>>

Fetch ==
  /\ pc = "fetch" /\ Sent
  /\ \/ pc' = "loop" /\ open' = TRUE /\ typed' = Cols \ unknown /\ UNCHANGED out
     \/ Return("err") /\ UNCHANGED typed
  /\ UNCHANGED <<mode, asked, max, total, streamed, data, truncated, rowErr, unknown>>

\* rows.Next gave one more row than may be returned: collectRows stops.
Stop ==
  /\ pc = "loop" /\ mode # "explain" /\ streamed < Offered /\ data >= max
  /\ streamed' = streamed + 1 /\ truncated' = TRUE /\ pc' = "close"
  /\ UNCHANGED <<mode, asked, max, total, data, rowErr, open, clash, unknown, typed, out>>

\* rows.Next gave a row and rows.Values decoded it, or did not.
Collect ==
  /\ pc = "loop" /\ streamed < Offered /\ (mode = "explain" \/ data < max)
  /\ streamed' = streamed + 1
  /\ \/ data' = data + 1 /\ UNCHANGED <<pc, out, open>>
     \/ Return("err") /\ UNCHANGED data
  /\ UNCHANGED <<mode, asked, max, total, truncated, rowErr, clash, unknown, typed>>

\* rows.Next is false: the result has ended, or the stream broke, which only
\* rows.Err tells.
Exhaust ==
  /\ pc = "loop" /\ pc' = "close"
  /\ \/ streamed = Offered /\ UNCHANGED rowErr
     \/ rowErr' = TRUE
  /\ UNCHANGED <<mode, asked, max, total, streamed, data, truncated, open, clash,
                 unknown, typed, out>>

\* What follows a result that was read without error.
AfterRows == IF mode # "explain" /\ unknown # {} THEN "resolve" ELSE "undo"

\* Mutant of Close: rows.Err is not checked.
CloseUnchecked ==
  /\ pc = "close" /\ streamed' = streamed
  /\ pc' = AfterRows /\ open' = FALSE
  /\ out' = IF AfterRows = "undo" THEN "ok" ELSE out
  /\ UNCHANGED <<mode, asked, max, total, data, truncated, rowErr, clash, unknown, typed>>

\* rows.Close reads what is left of the result, and may meet its error; then
\* rows.Err decides.  Explain may still fail to decode the plan.
Close ==
  /\ pc = "close"
  /\ streamed' \in streamed .. Offered
  /\ rowErr' = (rowErr \/ streamed' < Offered)
  /\ \/ rowErr' /\ Return("err")
     \/ ~rowErr' /\ pc' = AfterRows /\ open' = FALSE
           /\ out' = IF AfterRows = "undo" THEN "ok" ELSE out
     \/ ~rowErr' /\ mode = "explain" /\ Return("err")
  /\ UNCHANGED <<mode, asked, max, total, data, truncated, clash, unknown, typed>>

\* resolveTypeNames, on the same connection: a type the catalog does not know
\* any more is named by its oid.
Resolve ==
  /\ pc = "resolve" /\ Sent
  /\ \/ Return("ok") /\ typed' = typed \cup unknown
     \/ Return("err") /\ UNCHANGED typed
  /\ UNCHANGED <<mode, asked, max, total, streamed, data, truncated, rowErr, unknown>>

\* The deferred Rollback of withTx.
Undo ==
  /\ pc = "undo" /\ Sent /\ pc' = "done"
  /\ UNCHANGED <<mode, asked, max, total, streamed, data, truncated, rowErr, open,
                 unknown, typed, out>>

Init ==
  /\ pc = "done" /\ mode = "cursor" /\ asked = 0 /\ max = 0 /\ total = 0
  /\ streamed = 0 /\ data = 0 /\ truncated = FALSE /\ rowErr = FALSE
  /\ open = FALSE /\ clash = FALSE /\ unknown = {} /\ typed = {} /\ out = "none"

Next == Start \/ Declare \/ Fetch \/ Stop \/ Collect \/ Exhaust \/ Close \/ Resolve \/ Undo

Spec == Init /\ [][Next]_vars

-----------------------------------------------------------------------------
(* Properties *)

\* An answer is exact: it holds every row of the statement up to the clamped
\* bound, it says "truncated" exactly when there were more, and a stream that
\* broke or a row that did not decode never passes for a short result.  The
\* bound is the one asked for whenever the database allows it.
Exact ==
  out = "ok" =>
    IF mode = "explain"
      THEN data = total /\ ~truncated
      ELSE /\ data = IF total > max THEN max ELSE total
           /\ truncated <=> total > max
           /\ max \in 1 .. MaxRows
           /\ asked \in 1 .. MaxRows => max = asked

\* No more than max_rows+1 rows of a SELECT-like statement or of a sample ever
\* leave the server, whatever the statement would produce and even though
\* rows.Close reads a result to its end.
ServerBound == mode \in {"cursor", "sample"} => streamed <= max + 1

\* Neither the follow-up query of collectRows nor the Rollback of withTx is
\* ever sent while a result is still open, on whatever path the body returned.
NeverBusy == ~clash

\* Every column of an answer has a type name (collectRows): the types pgx does
\* not know were looked up.  (Explain has no columns.)
AllTyped == out = "ok" /\ mode # "explain" => typed = Cols
=============================================================================
