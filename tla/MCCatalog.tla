----------------------------- MODULE MCCatalog -----------------------------
(* The bodies of the read tools side by side in one run: a behaviour is a   *)
(* client that walks the pages of a listing, or calls of the other catalog  *)
(* tools, each while other sessions change the catalog, or calls that       *)
(* collect the rows of a result.  Pages are smaller than, equal to and      *)
(* larger than the catalog, and lie on both sides of the size threshold;    *)
(* the row counts asked for lie below, at and above the row cap.            *)
EXTENDS Listing

CONSTANTS
  MaxRows, Requests, Totals, Cols,  \* RowCollector
  c1, c2

ASSUME SizesAssumption ==
  MaxRows \in Nat \ {0} /\ Requests \subseteq Int /\ Totals \subseteq Nat

VARIABLES
  part,               \* "listing", "reads" or "rows"
  cat, changes, job,  \* CatalogReads
  pc, mode, asked, max, total, streamed, data, truncated, rowErr, open, clash,
  unknown, typed, out \* RowCollector

R == INSTANCE CatalogReads WITH made <- changes
C == INSTANCE RowCollector

MCNames == 1 .. 3
MCLimits == 1 .. 3
MCRequests == -1 .. 4
MCTotals == 0 .. 6
MCCols == {c1, c2}

rVars == <<cat, changes, job>>
cVars == <<pc, mode, asked, max, total, streamed, data, truncated, rowErr, open,
           clash, unknown, typed, out>>

\* The parts that are off, with nothing to do.
ListingOff ==
  Init /\ rels = [n \in Names |-> 0] /\ ~ext.on /\ ext.view = 0 /\ opts.limit = 1
ReadsOff ==
  R!Init /\ cat = [kind |-> "table", oid |-> 0, hyper |-> FALSE, agg |-> FALSE,
                   ext |-> FALSE, views |-> FALSE, comp |-> FALSE]

CatalogInit ==
  \/ part = "listing" /\ Init /\ ReadsOff /\ C!Init
  \/ part = "reads" /\ R!Init /\ ListingOff /\ C!Init
  \/ part = "rows" /\ C!Init /\ ListingOff /\ ReadsOff

CatalogNext ==
  \/ part = "listing" /\ Next /\ UNCHANGED <<part, rVars, cVars>>
  \/ part = "reads" /\ R!Next /\ UNCHANGED <<part, vars, cVars>>
  \/ part = "rows" /\ C!Next /\ UNCHANGED <<part, vars, rVars>>

CatalogSpec == CatalogInit /\ [][CatalogNext]_<<part, vars, rVars, cVars>>

\* Every variable has its type, and no body of a catalog tool sends a statement
\* in a transaction that an earlier failure aborted (see Listing, CatalogReads).
NothingAborted == TypeOK /\ NeverAborted /\ R!TypeOK /\ R!NeverAborted
\* A tool trips over a missing object only when the catalog changed under it
\* (see CatalogReads).
NothingMissing == R!NothingMissing
\* A tool answers and asks exactly what the catalog calls for (see
\* CatalogReads).
AnswersTrue == R!AnswersTrue
\* An answer holds exactly the rows promised and says truthfully whether there
\* were more (see RowCollector).
Exact == C!Exact
\* A bounded statement sends one row more than may be returned, at most (see
\* RowCollector).
ServerBound == C!ServerBound
\* No statement is sent while a result is open (see RowCollector).
NeverBusy == C!NeverBusy
=============================================================================
