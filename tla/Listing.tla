------------------------------ MODULE Listing ------------------------------
(***************************************************************************)
(* The paged catalog listings, timescale_list_tables and                   *)
(* timescale_list_hypertables, walked page by page while other sessions    *)
(* create and drop relations (internal/timescale/catalog.go page,          *)
(* attachSizes, chunkSizeView; internal/tools/catalog.go pageOptions,      *)
(* pagePayload).                                                           *)
(*                                                                         *)
(* Each page is one READ COMMITTED transaction of several statements, each *)
(* with a snapshot of its own: what a statement answers is evaluated when  *)
(* it runs.  A relation is its place in the order by schema and name; rels *)
(* holds the incarnation that has the place, 0 when there is none.         *)
(***************************************************************************)
EXTENDS Integers, Sequences, FiniteSets

CONSTANTS
  Names,          \* places in the order of the listing, a set of numbers
  Limits,         \* limits callers ask for
  SizeThreshold,  \* the page size from which SizesAuto skips sizes
  MaxDDL          \* bound on the catalog changes of a behaviour

ASSUME ListingAssumption ==
  /\ Names \subseteq Nat /\ IsFiniteSet(Names)
  /\ Limits \subseteq Nat \ {0} /\ SizeThreshold \in Nat /\ MaxDDL \in Nat

VARIABLES
  rels,   \* the catalog: the incarnation at each place
  made,   \* catalog changes so far; numbers the incarnations
  ext,    \* the extension: [on, view], view the index of its size view or 0
  opts,   \* ListOptions: [what, limit, sizes]
  pg,     \* the page being fetched or last shown
  walk    \* the walk so far: [shown, through, dropped, torn]

vars == <<rels, made, ext, opts, pg, walk>>

Options == [what: {"tables", "hypertables"}, limit: Limits,
            sizes: {"auto", "always", "never"}]

Stmts == {"version", "count", "page", "view1", "view2", "sizes"}

TypeOK ==
  /\ rels \in [Names -> 0 .. MaxDDL + 1] /\ made \in 1 .. MaxDDL + 1
  /\ ext \in [on: BOOLEAN, view: 0 .. 2]
  /\ opts \in Options
  /\ pg.pc \in Stmts \cup {"idle", "shown", "failed"}
  /\ pg.offset \in Nat /\ pg.total \in Nat
  /\ \A i \in DOMAIN pg.items : pg.items[i] \in [name: Names, size: 0 .. MaxDDL + 1]
  /\ {pg.included, pg.sizesErr, pg.tx, pg.refused, pg.moved} \subseteq BOOLEAN
  /\ walk.shown \in Seq(Names) /\ walk.through \subseteq Names
  /\ {walk.dropped, walk.torn} \subseteq BOOLEAN

Present == {n \in Names : rels[n] # 0}

\* How many of S come before n, and S in order.
Before(n, S) == Cardinality({m \in S : m < n})
Sorted(S) == [i \in 1 .. Cardinality(S) |-> CHOOSE n \in S : Before(n, S) = i - 1]

\* Mutant of Ordered: without ORDER BY, the order may change with the catalog.
OrderedByHeap ==
  LET s == Sorted(Present)
  IN  IF made % 2 = 1 THEN s ELSE [i \in DOMAIN s |-> s[Len(s) + 1 - i]]

Ordered == Sorted(Present)

\* The rows LIMIT and OFFSET cut out of the ordered listing, without sizes.
Window(offset, limit) ==
  LET s == Ordered
      w == SubSeq(s, offset + 1, IF offset + limit < Len(s) THEN offset + limit ELSE Len(s))
  IN  [i \in DOMAIN w |-> [name |-> w[i], size |-> 0]]

\* pagePayload: whether the caller is told that there is more.
Truncated == pg.offset + Len(pg.items) < pg.total

-----------------------------------------------------------------------------
(* One page *)

\* tx: the transaction is usable; refused: a statement met an aborted one;
\* moved: the catalog changed since the page statement.
FreshPage(offset) ==
  [pc |-> "version", offset |-> offset, total |-> 0, items |-> <<>>,
   included |-> FALSE, sizesErr |-> FALSE, tx |-> TRUE, refused |-> FALSE,
   moved |-> FALSE]

\* The first page of a walk.
Begin ==
  /\ pg.pc = "idle"
  /\ opts' \in Options
  /\ pg' = FreshPage(0)
  /\ walk' = [shown |-> <<>>, through |-> Present, dropped |-> FALSE, torn |-> FALSE]
  /\ UNCHANGED <<rels, made, ext>>

\* Mutant of More: the next offset is the last row's, not the one after it.
MoreOverlapping ==
  /\ pg.pc = "shown" /\ Truncated
  /\ pg' = FreshPage(pg.offset + Len(pg.items) - 1)
  /\ UNCHANGED <<rels, made, ext, opts, walk>>

\* The caller pages on with the next offset, as the note of a truncated page
\* tells it to.
More ==
  /\ pg.pc = "shown" /\ Truncated
  /\ pg' = FreshPage(pg.offset + Len(pg.items))
  /\ UNCHANGED <<rels, made, ext, opts, walk>>

Leave ==
  /\ pg.pc = "failed" \/ (pg.pc = "shown" /\ ~Truncated)
  /\ pg' = [pg EXCEPT !.pc = "idle"]
  /\ UNCHANGED <<rels, made, ext, opts, walk>>

\* A page p is handed to the caller.
Show(p) ==
  /\ pg' = [p EXCEPT !.pc = "shown"]
  /\ walk' = [walk EXCEPT !.shown = @ \o [i \in DOMAIN p.items |-> p.items[i].name]]

\* A statement runs only in a transaction that has not failed; in an aborted
\* one the server refuses it.
Runs(s) == pg.pc = s /\ pg.tx

\* Without the extension list_hypertables fails, with a usable transaction.
Version ==
  /\ Runs("version")
  /\ pg' = [pg EXCEPT !.pc = IF opts.what = "hypertables" /\ ~ext.on THEN "failed" ELSE "count"]
  /\ UNCHANGED <<rels, made, ext, opts, walk>>

Count ==
  /\ Runs("count")
  /\ pg' = [pg EXCEPT !.pc = "page", !.total = Cardinality(Present)]
  /\ UNCHANGED <<rels, made, ext, opts, walk>>

\* What page does with the rows it got: whether sizes are due, and which
\* statement comes first then.
Sizing(p) ==
  IF opts.sizes = "never" \/ (opts.sizes = "auto" /\ Len(p.items) >= SizeThreshold)
    THEN [p EXCEPT !.pc = "shown"]
  ELSE [p EXCEPT !.included = TRUE,
                 !.pc = IF p.items = <<>> THEN "shown" ELSE IF ext.on THEN "view1" ELSE "sizes"]

Page ==
  /\ Runs("page")
  /\ LET p == Sizing([pg EXCEPT !.items = Window(pg.offset, opts.limit), !.moved = FALSE])
     IN  IF p.pc = "shown" THEN Show(p) ELSE pg' = p /\ UNCHANGED walk
  /\ UNCHANGED <<rels, made, ext, opts>>

\* chunkSizeView tries the two names of the per-chunk size view in turn.
View ==
  /\ Runs("view1") \/ Runs("view2")
  /\ pg' = [pg EXCEPT !.pc = IF pg.pc = "view1" /\ ext.view # 1 THEN "view2" ELSE "sizes"]
  /\ UNCHANGED <<rels, made, ext, opts, walk>>

\* The sizes statement joins the page's names with the catalog as it is now.
AttachSizes(items) == [i \in DOMAIN items |-> [items[i] EXCEPT !.size = rels[items[i].name]]]

Sizes ==
  /\ Runs("sizes")
  /\ Show([pg EXCEPT !.items = AttachSizes(@)])
  /\ UNCHANGED <<rels, made, ext, opts>>

\* Mutant of OnError: a failure of chunkSizeView means that there is no view.
OnErrorNoView(p) ==
  IF p.pc \in {"view1", "view2"} THEN [p EXCEPT !.pc = "sizes"]
                                 ELSE [p EXCEPT !.pc = "failed"]

\* Mutant of OnError: SizesIncluded is not taken back.
OnErrorIncluded(p) ==
  IF p.pc \in {"view1", "view2", "sizes"} /\ opts.sizes # "always"
    THEN [p EXCEPT !.pc = "shown", !.sizesErr = TRUE]
    ELSE [p EXCEPT !.pc = "failed"]

\* What a body does when the statement it is at fails: only a failure to size
\* the page under SizesAuto is not the call's failure.
OnError(p) ==
  IF p.pc \in {"view1", "view2", "sizes"} /\ opts.sizes # "always"
    THEN [p EXCEPT !.pc = "shown", !.included = FALSE, !.sizesErr = TRUE]
    ELSE [p EXCEPT !.pc = "failed"]

\* A statement fails (timeout, cancellation, a relation dropped under it), or
\* is refused because an earlier one did.
Fail ==
  /\ pg.pc \in Stmts
  /\ LET p == OnError([pg EXCEPT !.tx = FALSE, !.refused = @ \/ ~pg.tx])
     IN  IF p.pc = "shown" THEN Show(p) ELSE pg' = p /\ UNCHANGED walk
  /\ UNCHANGED <<rels, made, ext, opts>>

-----------------------------------------------------------------------------
(* Other sessions (external) *)

Change(n, inc) ==
  /\ made <= MaxDDL /\ made' = made + 1
  /\ rels' = [rels EXCEPT ![n] = inc]
  /\ pg' = [pg EXCEPT !.moved = @ \/ pg.pc \in {"view1", "view2", "sizes"}]
  /\ UNCHANGED <<ext, opts>>

Create(n) ==
  /\ rels[n] = 0 /\ Change(n, made + 1)
  /\ walk' = [walk EXCEPT !.torn = @ \/ pg.pc = "page"]

Drop(n) ==
  /\ rels[n] # 0 /\ Change(n, 0)
  /\ walk' = [walk EXCEPT !.dropped = TRUE, !.through = @ \ {n},
                          !.torn = @ \/ pg.pc = "page"]

Init ==
  /\ \E S \in SUBSET Names : rels = [n \in Names |-> IF n \in S THEN 1 ELSE 0]
  /\ made = 1
  /\ ext \in [on: BOOLEAN, view: 0 .. 2]
  /\ opts \in {o \in Options : o.what = "tables" /\ o.sizes = "auto"}
  /\ pg = [FreshPage(0) EXCEPT !.pc = "idle"]
  /\ walk = [shown |-> <<>>, through |-> {}, dropped |-> FALSE, torn |-> FALSE]

Next ==
  \/ Begin \/ More \/ Leave
  \/ Version \/ Count \/ Page \/ View \/ Sizes \/ Fail
  \/ \E n \in Names : Create(n) \/ Drop(n)

Spec == Init /\ [][Next]_vars

-----------------------------------------------------------------------------
(* Properties *)

\* The caller has the last page of a walk in hand.
Walked == pg.pc = "shown" /\ ~Truncated

\* A walk over a catalog at rest shows every relation exactly once, in order,
\* and stops (Truncated in pagePayload, LIMIT and OFFSET in page).
WalkExact ==
  Walked /\ ~walk.torn /\ ~walk.dropped /\ walk.through = Present =>
    walk.shown = Ordered

\* Relations created during a walk never hide one that was there throughout:
\* only a drop can shift a relation out of the pages, or a change between the
\* count and the page statement of the same call end the walk too early.
CreatesHideNothing ==
  Walked /\ ~walk.torn /\ ~walk.dropped =>
    walk.through \subseteq {walk.shown[i] : i \in DOMAIN walk.shown}

\* No statement is ever sent in a transaction that an earlier failure aborted:
\* the swallowed failure of attachSizes is the last statement of its body.
NeverAborted == ~pg.refused

\* What a page says about sizes is true as far as one call can tell: without
\* sizes_included no row carries one, with it every row does unless the
\* catalog changed meanwhile, include_sizes=true is honoured or the call
\* fails, and sizes are withheld only for a reason the note gives.
SizesTold ==
  pg.pc = "shown" =>
    /\ ~pg.included => \A i \in DOMAIN pg.items : pg.items[i].size = 0
    /\ pg.included /\ ~pg.moved => \A i \in DOMAIN pg.items : pg.items[i].size # 0
    /\ opts.sizes = "always" => pg.included
    /\ opts.sizes = "auto" /\ ~pg.included =>
         pg.sizesErr \/ Len(pg.items) >= SizeThreshold
=============================================================================
