---------------------------- MODULE CatalogReads ----------------------------
(***************************************************************************)
(* The catalog tools other than the paged listings, as the statements they *)
(* send: describe_table, sample_rows, list_chunks, list_continuous_        *)
(* aggregates and list_jobs, get_database_info, list_schemas and the probe *)
(* of list_databases (internal/timescale/catalog.go).                      *)
(*                                                                         *)
(* Each is the body of one READ COMMITTED transaction: every statement     *)
(* sees the catalog as it is when it runs, and between two statements      *)
(* other sessions may drop and re-create the relation the call names, turn *)
(* it into a hypertable, or create and drop the extension.                 *)
(***************************************************************************)
EXTENDS Naturals

CONSTANTS MaxDDL   \* bound on the catalog changes of a behaviour

VARIABLES
  cat,   \* the catalog, as far as the one relation the calls name goes
  made,  \* catalog changes so far; numbers the oids
  job    \* the running call

vars == <<cat, made, job>>

Tools == {"describe", "sample", "chunks", "objects", "info", "schemas", "probe"}

Stmts == {"lookup", "columns", "pk", "indexes", "fks", "viewdef", "version", "ht",
          "dims", "size", "compview", "compset", "policies", "cagg", "timedim",
          "select", "exists", "chunks", "objects", "facts", "exts", "license",
          "infoview", "counts", "schemas", "versions"}

Outcomes == {"ok", "not_found", "no_timescaledb", "undefined", "err"}

\* oid 0: no such relation; hyper, agg: it is a hypertable, the view of a
\* continuous aggregate; ext: the extension is installed; views: it has the
\* timescaledb_information views, comp: the one on compression settings too.
Catalog == {c \in [oid: 0 .. MaxDDL + 1, kind: {"table", "view"}, hyper: BOOLEAN,
                   agg: BOOLEAN, ext: BOOLEAN, views: BOOLEAN, comp: BOOLEAN] :
              /\ c.hyper => c.oid # 0 /\ c.kind = "table" /\ c.views
              /\ c.agg => c.oid # 0 /\ c.kind = "view" /\ c.views
              /\ c.views => c.ext
              /\ c.comp => c.views}

\* What a body has learnt from its statements.
Seen == [oid: 0 .. MaxDDL + 1, kind: {"table", "view"}, hyper: BOOLEAN,
         ext: BOOLEAN, views: BOOLEAN, comp: BOOLEAN]

TypeOK ==
  /\ cat \in Catalog /\ made \in 1 .. MaxDDL + 1
  /\ job.tool \in Tools /\ job.at \in Stmts \cup Outcomes \cup {"idle"}
  /\ job.tx \in BOOLEAN /\ job.refused \in BOOLEAN /\ job.moved \in BOOLEAN
  /\ job.ran \subseteq Stmts /\ job.seen \in Seen

-----------------------------------------------------------------------------
(* The server (external) *)

\* The objects a statement names; it fails when one of them is not there.
Needs(s) ==
  CASE s \in {"ht", "dims", "policies", "cagg", "timedim", "exists", "objects", "counts"}
                     -> {"views"}
    [] s = "size"    -> {"ext", "relation"}
    [] s = "compset" -> {"views", "comp", "relation"}
    [] s = "chunks"  -> {"views", "ext", "relation"}
    [] s = "select"  -> {"relation"}
    [] s = "viewdef" -> {"definition"}
    [] OTHER         -> {}

Has(o) ==
  CASE o = "relation"   -> cat.oid # 0
    [] o = "definition" -> cat.oid = job.seen.oid
    [] o = "ext"        -> cat.ext
    [] o = "views"      -> cat.views
    [] o = "comp"       -> cat.comp

Possible(s) == \A o \in Needs(s) : Has(o)

\* What the answer of a statement adds to what the body knows.
Learn(s) ==
  CASE s = "lookup"   -> [job.seen EXCEPT !.oid = cat.oid, !.kind = cat.kind]
    [] s = "version"  -> [job.seen EXCEPT !.ext = cat.ext]
    [] s \in {"ht", "exists"} -> [job.seen EXCEPT !.hyper = cat.hyper]
    [] s = "compview" -> [job.seen EXCEPT !.comp = cat.comp]
    [] s = "infoview" -> [job.seen EXCEPT !.views = cat.views]
    [] OTHER          -> job.seen

-----------------------------------------------------------------------------
(* The bodies: the first statement of each, and what follows a statement,  *)
(* the next one or the end of the body, given what is known after it.      *)

First(t) ==
  CASE t \in {"describe", "sample"} -> "lookup"
    [] t \in {"chunks", "objects"}  -> "version"
    [] t = "info"    -> "facts"
    [] t = "schemas" -> "schemas"
    [] t = "probe"   -> "versions"

DescribeTable(s, k) ==
  CASE s = "lookup"   -> IF k.oid = 0 THEN "not_found" ELSE "columns"
    [] s = "columns"  -> "pk"
    [] s = "pk"       -> "indexes"
    [] s = "indexes"  -> "fks"
    [] s = "fks"      -> IF k.kind = "view" THEN "viewdef" ELSE "version"
    [] s = "viewdef"  -> "version"
    [] s = "version"  -> IF k.ext THEN "ht" ELSE "ok"
    [] s = "ht"       -> IF k.hyper THEN "dims" ELSE "cagg"
    [] s = "dims"     -> "size"
    [] s = "size"     -> "compview"
    [] s = "compview" -> IF k.comp THEN "compset" ELSE "policies"
    [] s = "compset"  -> "policies"
    [] s = "policies" -> "cagg"
    [] s = "cagg"     -> "ok"

SampleRows(s, k) ==
  CASE s = "lookup"  -> IF k.oid = 0 THEN "not_found" ELSE "version"
    [] s = "version" -> IF k.ext THEN "timedim" ELSE "select"
    [] s = "timedim" -> "select"
    [] s = "select"  -> "ok"

Chunks(s, k) ==
  CASE s = "version" -> IF k.ext THEN "exists" ELSE "no_timescaledb"
    [] s = "exists"  -> IF k.hyper THEN "chunks" ELSE "not_found"
    [] s = "chunks"  -> "ok"

\* Mutant of Objects: listTS does not ask for the extension.
ObjectsUnasked(s, k) == IF s = "version" THEN "objects" ELSE "ok"

\* ContinuousAggregates and Jobs.
Objects(s, k) ==
  CASE s = "version" -> IF k.ext THEN "objects" ELSE "no_timescaledb"
    [] s = "objects" -> "ok"

\* Mutant of Info: the counts are left out.
InfoNoCounts(s, k) ==
  CASE s = "facts"    -> "exts"
    [] s = "exts"     -> "version"
    [] s = "version"  -> IF k.ext THEN "license" ELSE "ok"
    [] s = "license"  -> "infoview"
    [] s = "infoview" -> "ok"

Info(s, k) ==
  CASE s = "facts"    -> "exts"
    [] s = "exts"     -> "version"
    [] s = "version"  -> IF k.ext THEN "license" ELSE "ok"
    [] s = "license"  -> "infoview"
    [] s = "infoview" -> IF k.views THEN "counts" ELSE "ok"
    [] s = "counts"   -> "ok"

After(t, s, k) ==
  CASE t = "describe" -> DescribeTable(s, k)
    [] t = "sample"   -> SampleRows(s, k)
    [] t = "chunks"   -> Chunks(s, k)
    [] t = "objects"  -> Objects(s, k)
    [] t = "info"     -> Info(s, k)
    [] OTHER          -> "ok"

\* Every failure ends the body: Go returns the error, and withTx rolls back.
OnError(t, s, k, e) == e

-----------------------------------------------------------------------------
\* moved: the catalog has changed since the call began.
Begin ==
  /\ job.at \in Outcomes \cup {"idle"}
  /\ \E t \in Tools :
       job' = [tool |-> t, at |-> First(t), tx |-> TRUE, refused |-> FALSE,
               moved |-> FALSE, ran |-> {},
               seen |-> [oid |-> 0, kind |-> "table", hyper |-> FALSE,
                         ext |-> FALSE, views |-> FALSE, comp |-> FALSE]]
  /\ UNCHANGED <<cat, made>>

Statement ==
  /\ job.at \in Stmts /\ job.tx /\ Possible(job.at)
  /\ LET k == Learn(job.at)
     IN  job' = [job EXCEPT !.seen = k, !.ran = @ \cup {job.at},
                            !.at = After(job.tool, job.at, k)]
  /\ UNCHANGED <<cat, made>>

\* The server cannot run the statement, fails it for a reason of its own, or
\* refuses it because an earlier failure aborted the transaction.
Fail ==
  /\ job.at \in Stmts
  /\ \E e \in IF Possible(job.at) THEN {"err"} ELSE {"undefined"} :
       job' = [job EXCEPT !.tx = FALSE, !.refused = @ \/ ~job.tx,
                          !.at = OnError(job.tool, job.at, job.seen, e)]
  /\ UNCHANGED <<cat, made>>

\* Another session changes the catalog: any change of the one relation or of
\* the extension; an oid is never used again.
Change ==
  /\ made <= MaxDDL /\ made' = made + 1
  /\ cat' \in Catalog \ {cat}
  /\ cat'.oid \in {0, cat.oid, made + 1}
  /\ cat'.oid = cat.oid => cat'.kind = cat.kind
  /\ job' = [job EXCEPT !.moved = TRUE]

Init ==
  /\ cat \in {c \in Catalog : c.oid \in {0, 1}}
  /\ made = 1
  /\ job = [tool |-> "info", at |-> "idle", tx |-> TRUE, refused |-> FALSE,
            moved |-> FALSE, ran |-> {},
            seen |-> [oid |-> 0, kind |-> "table", hyper |-> FALSE,
                      ext |-> FALSE, views |-> FALSE, comp |-> FALSE]]

Next == Begin \/ Statement \/ Fail \/ Change

Spec == Init /\ [][Next]_vars

-----------------------------------------------------------------------------
(* Properties *)

\* No body sends a statement in a transaction an earlier failure aborted, not
\* even where it takes an empty answer for an answer (timescaleVersion, the
\* time dimension of SampleRows).
NeverAborted == ~job.refused

\* A tool trips over an object that does not exist only when the catalog
\* changed under the call: every body finds out first what is installed and
\* what the name stands for.  The exception is an extension without its
\* information views, which only Info and the tools that do not need the
\* extension allow for.
NothingMissing ==
  job.at = "undefined" => job.moved \/ (cat.ext /\ ~cat.views /\ job.tool # "info")

\* What each tool answers about a catalog that stays as it is.
Expected ==
  LET ext == IF cat.ext THEN {"ht", "cagg"} ELSE {}
      view == IF cat.kind = "view" THEN {"viewdef"} ELSE {}
      hyper == IF cat.hyper THEN {"dims", "size", "compview", "policies"} ELSE {}
      comp == IF cat.hyper /\ cat.comp THEN {"compset"} ELSE {}
  IN  CASE job.tool = "describe" ->
             IF cat.oid = 0 THEN <<"not_found", {"lookup"}>>
             ELSE <<"ok", {"lookup", "columns", "pk", "indexes", "fks", "version"}
                            \cup ext \cup view \cup hyper \cup comp>>
        [] job.tool = "sample" ->
             IF cat.oid = 0 THEN <<"not_found", {"lookup"}>>
             ELSE <<"ok", {"lookup", "version", "select"}
                            \cup (IF cat.ext THEN {"timedim"} ELSE {})>>
        [] job.tool = "chunks" ->
             IF ~cat.ext THEN <<"no_timescaledb", {"version"}>>
             ELSE IF ~cat.hyper THEN <<"not_found", {"version", "exists"}>>
             ELSE <<"ok", {"version", "exists", "chunks"}>>
        [] job.tool = "objects" ->
             IF ~cat.ext THEN <<"no_timescaledb", {"version"}>>
             ELSE <<"ok", {"version", "objects"}>>
        [] job.tool = "info" ->
             <<"ok", {"facts", "exts", "version"}
                       \cup (IF cat.ext THEN {"license", "infoview"} ELSE {})
                       \cup (IF cat.views THEN {"counts"} ELSE {})>>
        [] job.tool = "schemas" -> <<"ok", {"schemas"}>>
        [] job.tool = "probe"   -> <<"ok", {"versions"}>>

\* A call that met no failure and no change of the catalog has asked for, and
\* answered, exactly what its tool describes: not_found and no_timescaledb
\* mean what they say, and every detail the relation has is there.
AnswersTrue ==
  job.at \in {"ok", "not_found", "no_timescaledb"} /\ ~job.moved =>
    <<job.at, job.ran>> = Expected
=============================================================================
