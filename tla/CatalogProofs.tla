--------------------------- MODULE CatalogProofs ---------------------------
(***************************************************************************)
(* Proofs about the bodies of the read tools: the paged listings of        *)
(* Listing and the bodies of CatalogReads, for every catalog, page limit,  *)
(* size threshold and number of catalog changes, and the row collector of  *)
(* RowCollector, for any row cap, requested bound, result size and set of  *)
(* columns.                                                                *)
(*                                                                         *)
(* Listing: WalkExact speaks of the last page only.  What carries a walk   *)
(* there is how far it has come: while the catalog is at rest the names    *)
(* seen are the first Reached ones of the listing (AtRest), and while it   *)
(* only grows every relation that was there throughout is seen or still    *)
(* lies ahead of the next offset (Ahead).                                  *)
(*                                                                         *)
(* CatalogReads: AnswersTrue and NothingMissing speak of the end of a      *)
(* body.  What carries it there is what the body knows and has asked       *)
(* before each of its statements, in a catalog that has not changed        *)
(* (Course).                                                               *)
(*                                                                         *)
(* RowCollector: Exact speaks of a body that has returned.  The counters   *)
(* follow the stream row by row (InLoop) until the rows collected are      *)
(* those the answer promises (Complete).                                   *)
(***************************************************************************)
EXTENDS MCCatalog, FiniteSetTheorems, TLAPS

(* The invariant of the listing *)

Rows == [name: Names, size: 0 .. MaxDDL + 1]
Pages == [pc: Stmts \cup {"idle", "shown", "failed"}, offset: Nat, total: Nat,
          items: Seq(Rows), included: BOOLEAN, sizesErr: BOOLEAN, tx: BOOLEAN,
          refused: BOOLEAN, moved: BOOLEAN]
Walks == [shown: Seq(Names), through: SUBSET Names, dropped: BOOLEAN, torn: BOOLEAN]
Types ==
  /\ rels \in [Names -> 0 .. MaxDDL + 1] /\ made \in 1 .. MaxDDL + 1
  /\ ext \in [on: BOOLEAN, view: 0 .. 2] /\ opts \in Options
  /\ pg \in Pages /\ walk \in Walks

\* The statements before the rows are known, and those after.
Early == {"version", "count", "page"}
Late == {"view1", "view2", "sizes"}

\* A transaction is usable whenever a statement is due.
Usable == ~pg.refused /\ (pg.pc \in Stmts => pg.tx)

\* Rows carry no sizes before the statement that asks for them.
Sized ==
  /\ pg.pc \in Early => ~pg.included
  /\ pg.pc \in Late =>
       /\ pg.included /\ opts.sizes # "never"
       /\ \A i \in 1 .. Len(pg.items) :
            pg.items[i].size = 0 /\ (~pg.moved => rels[pg.items[i].name] # 0)
  /\ SizesTold

NamesIn(items) == [i \in 1 .. Len(items) |-> items[i].name]
\* The names the walk has got, the rows of page p included once they are known,
\* and how many of the listing that makes.
SeenOf(p, w) == IF p.pc \in Late THEN w.shown \o NamesIn(p.items) ELSE w.shown
Reached(p) == IF p.pc \in Early THEN p.offset ELSE p.offset + Len(p.items)

\* The walk has seen a beginning of the listing of S, and the page its length.
AtRest(p, w, S) ==
  LET seen == SeenOf(p, w) IN
  /\ Len(seen) = Reached(p) /\ Reached(p) <= Cardinality(S)
  /\ \A i \in 1 .. Reached(p) : seen[i] = Sorted(S)[i]
  /\ p.pc \notin {"version", "count"} => p.total = Cardinality(S)

\* What was there throughout is seen, or is after the next offset in S; then
\* the page says that there is more.
Ahead(p, w, S) ==
  LET seen == SeenOf(p, w) IN
  /\ p.pc = "page" => p.total = Cardinality(S)
  /\ \A n \in w.through :
       \/ \E i \in 1 .. Len(seen) : seen[i] = n
       \/ Before(n, S) >= Reached(p) /\ (p.pc \notin Early => Reached(p) < p.total)

\* Both, as long as nothing is dropped.
Walking ==
  ~walk.dropped =>
    /\ walk.through \subseteq Present
    /\ pg.pc \notin {"idle", "failed"} =>
         /\ walk.through = Present => AtRest(pg, walk, Present)
         /\ ~walk.torn => Ahead(pg, walk, Present)

LInv == Types /\ Usable /\ Sized /\ Walking

-----------------------------------------------------------------------------
(* The order of a listing *)

\* What comes before a relation: fewer than there are, more for a later one.
LEMMA BeforeIs ==
  ASSUME NEW S \in SUBSET Nat, IsFiniteSet(S)
  PROVE  /\ Cardinality(S) \in Nat
         /\ \A n : Before(n, S) \in Nat
         /\ \A n \in S : Before(n, S) < Cardinality(S)
         /\ \A n, m \in S : Before(n, S) = Before(m, S) => n = m
<1> DEFINE B(n) == {m \in S : m < n}
<1>1. ASSUME NEW n  PROVE  B(n) \in SUBSET S /\ IsFiniteSet(B(n)) /\ Cardinality(B(n)) \in Nat
  BY FS_Subset, FS_CardinalityType
<1>2. Cardinality(S) \in Nat  BY FS_CardinalityType
<1>3. ASSUME NEW n \in S  PROVE  Cardinality(B(n)) < Cardinality(S)
  <2>1. n \notin B(n)  OBVIOUS
  <2>2. B(n) # S  BY <2>1
  <2>3. B(n) \in SUBSET S /\ IsFiniteSet(B(n)) /\ Cardinality(B(n)) \in Nat  BY <1>1
  <2> HIDE DEF B
  <2>4. /\ Cardinality(B(n)) <= Cardinality(S)
        /\ Cardinality(S) = Cardinality(B(n)) => S = B(n)
    BY <2>3, FS_Subset
  <2>5. QED  BY <1>2, <2>2, <2>3, <2>4
<1>4. ASSUME NEW n \in S, NEW m \in S, n < m  PROVE  Cardinality(B(n)) < Cardinality(B(m))
  <2>1. n \in B(m) /\ n \notin B(n) /\ B(n) \in SUBSET B(m)
    <3>1. \A x \in S : x < n => x < m  BY <1>4
    <3>2. n \in B(m) /\ n \notin B(n)  BY <1>4
    <3>3. QED  BY <3>1, <3>2
  <2>2. B(n) # B(m)  BY <2>1
  <2>3. IsFiniteSet(B(m)) /\ Cardinality(B(n)) \in Nat /\ Cardinality(B(m)) \in Nat  BY <1>1
  <2> HIDE DEF B
  <2>4. /\ Cardinality(B(n)) <= Cardinality(B(m))
        /\ Cardinality(B(m)) = Cardinality(B(n)) => B(m) = B(n)
    BY <2>1, <2>3, FS_Subset
  <2>5. QED  BY <2>2, <2>3, <2>4
<1>5. \A n : Before(n, S) = Cardinality(B(n))  BY DEF Before
<1> HIDE DEF B
<1>6. ASSUME NEW n \in S, NEW m \in S, Before(n, S) = Before(m, S)  PROVE  n = m
  <2>1. n \in Nat /\ m \in Nat  OBVIOUS
  <2>2. PICK a \in Nat, b \in Nat : a = Cardinality(B(n)) /\ b = Cardinality(B(m)) /\ a = b
    BY <1>1, <1>5, <1>6
  <2>3. CASE n < m
    <3>1. Cardinality(B(n)) < Cardinality(B(m))  BY <1>4, <2>3
    <3>2. QED  BY <2>2, <3>1
  <2>4. CASE m < n
    <3>1. Cardinality(B(m)) < Cardinality(B(n))  BY <1>4, <2>4
    <3>2. QED  BY <2>2, <3>1
  <2>5. QED  BY <2>1, <2>3, <2>4
<1>7. QED  BY <1>1, <1>2, <1>3, <1>5, <1>6

\* Sorted lists every member, each at its place.
LEMMA SortedIs ==
  ASSUME NEW S \in SUBSET Nat, IsFiniteSet(S)
  PROVE  /\ Sorted(S) \in Seq(S) /\ Len(Sorted(S)) = Cardinality(S)
         /\ \A n \in S : Sorted(S)[Before(n, S) + 1] = n
<1> DEFINE N == Cardinality(S)
           f == [n \in S |-> Before(n, S) + 1]
<1>1. /\ N \in Nat /\ \A n \in S : Before(n, S) \in Nat /\ Before(n, S) < N
      /\ \A n, m \in S : Before(n, S) = Before(m, S) => n = m
  BY BeforeIs
<1>2. f \in Injection(S, 1 .. N)
  <2>1. ASSUME NEW n \in S  PROVE  Before(n, S) + 1 \in 1 .. N
    <3>1. PICK b \in Nat : b = Before(n, S) /\ b < N  BY <1>1
    <3>2. QED  BY <1>1, <3>1
  <2>2. f \in [S -> 1 .. N]  BY <2>1
  <2>3. ASSUME NEW n \in S, NEW m \in S, f[n] = f[m]  PROVE  n = m
    <3>1. PICK a \in Nat, b \in Nat : a = Before(n, S) /\ b = Before(m, S)  BY <1>1
    <3>2. a + 1 = b + 1  BY <2>3, <3>1
    <3>3. a = b  BY <3>2
    <3>4. QED  BY <1>1, <3>1, <3>3
  <2> HIDE DEF f, N
  <2>4. QED  BY <2>2, <2>3, Zenon DEF Injection, IsInjective
<1>3. f \in Surjection(S, 1 .. N)
  <2>1. IsFiniteSet(1 .. N) /\ Cardinality(1 .. N) = N
    <3>1. /\ IsFiniteSet(1 .. N)
          /\ Cardinality(1 .. N) = IF 1 > N THEN 0 ELSE N - 1 + 1
      BY <1>1, FS_Interval
    <3>2. QED  BY <1>1, <3>1
  <2> HIDE DEF f
  <2>2. QED  BY <1>2, <2>1, FS_Injection
<1>4. ASSUME NEW i \in 1 .. N
      PROVE  Sorted(S)[i] \in S /\ Before(Sorted(S)[i], S) = i - 1
  <2>1. PICK n \in S : f[n] = i  BY <1>3 DEF Surjection
  <2>2. PICK b \in Nat : b = Before(n, S)  BY <1>1
  <2>3. b = i - 1  BY <2>1, <2>2
  <2>4. \E m \in S : Before(m, S) = i - 1  BY <2>2, <2>3
  <2>5. PICK m : m = CHOOSE x \in S : Before(x, S) = i - 1  OBVIOUS
  <2>6. m \in S /\ Before(m, S) = i - 1  BY <2>4, <2>5, Zenon
  <2>7. Sorted(S)[i] = m  BY <2>5 DEF Sorted
  <2>8. QED  BY <2>6, <2>7
<1>5. Sorted(S) \in Seq(S) /\ Len(Sorted(S)) = N
  <2>1. Sorted(S) = [i \in 1 .. N |-> Sorted(S)[i]]  BY DEF Sorted
  <2> HIDE DEF N
  <2>2. PICK s : s = Sorted(S)  OBVIOUS
  <2>3. s = [i \in 1 .. N |-> s[i]] /\ \A i \in 1 .. N : s[i] \in S  BY <1>4, <2>1, <2>2
  <2>4. s \in Seq(S) /\ Len(s) = N  BY <1>1, <2>3
  <2>5. QED  BY <2>2, <2>4
<1>6. ASSUME NEW n \in S  PROVE  Sorted(S)[Before(n, S) + 1] = n
  <2>1. PICK b \in Nat : b = Before(n, S) /\ b < N  BY <1>1
  <2>2. b + 1 \in 1 .. N /\ b + 1 - 1 = b  BY <1>1, <2>1
  <2>3. PICK m : m = Sorted(S)[b + 1]  OBVIOUS
  <2>4. m \in S /\ Before(m, S) = b + 1 - 1  BY <1>4, <2>2, <2>3
  <2>5. m = n  BY <1>1, <2>1, <2>2, <2>4
  <2>6. QED  BY <2>1, <2>3, <2>5
<1>7. QED  BY <1>5, <1>6

\* A new relation comes before others or does not; it moves none forward.
LEMMA BeforeGrows ==
  ASSUME NEW S \in SUBSET Nat, IsFiniteSet(S), NEW k \in Nat, NEW n
  PROVE  Before(n, S \cup {k}) >= Before(n, S)
<1> DEFINE A == {m \in S : m < n}
           B == {m \in S \cup {k} : m < n}
<1>1. A \in SUBSET B /\ B \in SUBSET (S \cup {k})  OBVIOUS
<1>2. IsFiniteSet(S \cup {k})  BY FS_AddElement
<1> HIDE DEF A, B
<1>3. IsFiniteSet(B)  BY <1>1, <1>2, FS_Subset
<1>4. IsFiniteSet(A) /\ Cardinality(A) <= Cardinality(B)  BY <1>1, <1>3, FS_Subset
<1>5. Cardinality(A) \in Nat /\ Cardinality(B) \in Nat  BY <1>3, <1>4, FS_CardinalityType
<1>6. Cardinality(B) >= Cardinality(A)  BY <1>4, <1>5
<1>7. QED  BY <1>6 DEF Before, A, B

\* The catalog is finite.
LEMMA PresentIs ==
  /\ Present \in SUBSET Names /\ Present \in SUBSET Nat /\ IsFiniteSet(Present)
  /\ Cardinality(Present) \in Nat
<1>1. Present \in SUBSET Names /\ Present \in SUBSET Nat  BY ListingAssumption DEF Present
<1>2. IsFiniteSet(Present)  BY <1>1, ListingAssumption, FS_Subset
<1>3. QED  BY <1>1, <1>2, FS_CardinalityType

\* A page is full or reaches the end of the listing.
CutAt(W, o, l, N) ==
  /\ Len(W) = l \/ o + Len(W) >= N
  /\ o <= N => o + Len(W) <= N
  /\ \A i \in 1 .. Len(W) : W[i].name = Sorted(Present)[o + i]

\* What LIMIT and OFFSET cut out of the listing is such a page.
LEMMA WindowIs ==
  ASSUME NEW o \in Nat, NEW l \in Nat \ {0}, NEW N \in Nat, N = Cardinality(Present),
         NEW W, W = Window(o, l)
  PROVE  W \in Seq([name: Present, size: {0}]) /\ CutAt(W, o, l, N)
<1>1. PICK s : s = Sorted(Present) /\ s \in Seq(Present) /\ Len(s) = N  BY PresentIs, SortedIs
<1>2. PICK e \in Nat : e = IF o + l < N THEN o + l ELSE N
  <2>1. (IF o + l < N THEN o + l ELSE N) \in Nat  OBVIOUS
  <2>2. QED  BY <2>1, Zenon
<1>3. PICK w : w = SubSeq(s, o + 1, e)  OBVIOUS
<1>4. PICK n \in Nat : n = IF e >= o THEN e - o ELSE 0
  <2>1. (IF e >= o THEN e - o ELSE 0) \in Nat  OBVIOUS
  <2>2. QED  BY <2>1, Zenon
<1>5. /\ n = l \/ o + n >= N
      /\ o <= N => o + n <= N
      /\ \A i \in 1 .. n : o + i \in 1 .. N
  BY <1>2, <1>4
<1>6. w = [i \in 1 .. n |-> s[o + i]]
  <2>1. w = [i \in 1 .. (1 + e) - (o + 1) |-> s[(i + (o + 1)) - 1]]  BY <1>3
  <2>2. 1 .. (1 + e) - (o + 1) = 1 .. n  BY <1>4
  <2>3. \A i \in 1 .. n : (i + (o + 1)) - 1 = o + i  OBVIOUS
  <2>4. QED  BY <2>1, <2>2, <2>3
<1>7. \A i \in 1 .. n : s[o + i] \in Present  BY <1>1, <1>5
<1>8. W = [i \in 1 .. n |-> [name |-> s[o + i], size |-> 0]]
  <2>1. W = [i \in DOMAIN w |-> [name |-> w[i], size |-> 0]]
    BY <1>1, <1>2, <1>3 DEF Window, Ordered
  <2>2. QED  BY <1>6, <2>1
<1>9. W \in Seq([name: Present, size: {0}]) /\ Len(W) = n  BY <1>7, <1>8
<1>10. \A i \in 1 .. n : W[i].name = s[o + i]  BY <1>8
<1>11. QED  BY <1>1, <1>5, <1>9, <1>10 DEF CutAt

-----------------------------------------------------------------------------
(* What each statement does to the page *)

\* A page is begun.
LEMMA FreshIs ==
  ASSUME NEW o \in Nat, NEW q, q = FreshPage(o)
  PROVE  /\ q \in Pages /\ q.pc = "version" /\ q.offset = o /\ q.items = <<>>
         /\ q.included = FALSE /\ q.tx = TRUE /\ q.refused = FALSE
<1>1. <<>> \in Seq(Rows) /\ 0 \in Nat  OBVIOUS
<1>2. QED  BY <1>1 DEF FreshPage, Pages, Stmts

\* A page goes on to the next statement, or ends.
LEMMA MovedOn ==
  ASSUME NEW p \in Pages, NEW x \in Stmts \cup {"idle", "shown", "failed"}, NEW q,
         q = [p EXCEPT !.pc = x]
  PROVE  /\ q \in Pages /\ q.pc = x /\ q.offset = p.offset /\ q.total = p.total
         /\ q.items = p.items /\ q.included = p.included /\ q.sizesErr = p.sizesErr
         /\ q.tx = p.tx /\ q.refused = p.refused /\ q.moved = p.moved
BY DEF Pages

\* A page is handed out: the names of its rows are added to those shown.
LEMMA ShowIs ==
  ASSUME NEW p \in Pages, Show(p), walk \in Walks
  PROVE  /\ pg' = [p EXCEPT !.pc = "shown"] /\ walk' \in Walks
         /\ walk'.shown = walk.shown \o NamesIn(p.items)
         /\ walk'.through = walk.through /\ walk'.dropped = walk.dropped
         /\ walk'.torn = walk.torn
<1>1. p.items \in Seq(Rows)  BY DEF Pages
<1>2. PICK a : a = NamesIn(p.items)  OBVIOUS
<1>3. a \in Seq(Names) /\ a = [i \in DOMAIN p.items |-> p.items[i].name]
  <2>1. \A r \in Rows : r.name \in Names  BY DEF Rows
  <2>2. PICK r : r = p.items /\ r \in Seq(Rows)  BY <1>1
  <2>3. a = [i \in 1 .. Len(r) |-> r[i].name]  BY <1>2, <2>2 DEF NamesIn
  <2>4. a \in Seq(Names) /\ a = [i \in DOMAIN r |-> r[i].name]  BY <2>1, <2>2, <2>3
  <2>5. QED  BY <2>2, <2>4
<1>4. pg' = [p EXCEPT !.pc = "shown"] /\ walk' = [walk EXCEPT !.shown = @ \o a]
  BY <1>3 DEF Show
<1>5. walk.shown \o a \in Seq(Names)  BY <1>3 DEF Walks
<1>6. QED  BY <1>2, <1>4, <1>5 DEF Walks

\* The page statement: its rows are the window, without sizes; either the page
\* is handed out, or its sizes are next.
LEMMA PageIs ==
  ASSUME Types, Page, ~pg.included
  PROVE  /\ pg.pc = "page" /\ pg' \in Pages /\ walk' \in Walks
         /\ pg'.pc \in {"shown", "view1", "sizes"} /\ pg'.offset = pg.offset /\ pg'.total = pg.total
         /\ pg'.items = Window(pg.offset, opts.limit)
         /\ pg'.tx = pg.tx /\ pg'.refused = pg.refused
         /\ walk'.through = walk.through /\ walk'.dropped = walk.dropped /\ walk'.torn = walk.torn
         /\ walk'.shown = IF pg'.pc = "shown" THEN walk.shown \o NamesIn(pg'.items) ELSE walk.shown
         /\ pg'.pc # "shown" => pg'.included /\ opts.sizes # "never"
         /\ \/ pg'.included /\ (pg'.pc = "shown" => pg'.items = <<>>)
            \/ /\ ~pg'.included /\ pg'.pc = "shown"
               /\ opts.sizes = "never" \/ (opts.sizes = "auto" /\ Len(pg'.items) >= SizeThreshold)
<1>1. pg \in Pages /\ walk \in Walks  BY DEF Types
<1>2. pg.pc = "page"  BY DEF Page, Runs
<1>3. PICK W : W = Window(pg.offset, opts.limit)  OBVIOUS
<1>4. W \in Seq(Rows)
  <2>1. pg.offset \in Nat /\ opts.limit \in Nat \ {0}
    BY <1>1, ListingAssumption DEF Types, Pages, Options
  <2>2. PICK o \in Nat, l \in Nat \ {0}, N \in Nat :
          o = pg.offset /\ l = opts.limit /\ N = Cardinality(Present)
    BY <2>1, PresentIs
  <2>3. W \in Seq([name: Present, size: {0}])  BY <1>3, <2>2, WindowIs
  <2>4. 0 \in 0 .. MaxDDL + 1  BY ListingAssumption
  <2>5. [name: Present, size: {0}] \subseteq Rows  BY <2>4, PresentIs DEF Rows
  <2>6. PICK T : T = [name: Present, size: {0}]  OBVIOUS
  <2>7. W \in Seq(T) /\ T \subseteq Rows  BY <2>3, <2>5, <2>6
  <2>8. QED  BY <2>7
<1>5. PICK p0 : p0 = [pg EXCEPT !.items = W, !.moved = FALSE]  OBVIOUS
<1>6. /\ p0 \in Pages /\ p0.pc = pg.pc /\ p0.offset = pg.offset /\ p0.total = pg.total
      /\ p0.items = W /\ p0.included = pg.included /\ p0.tx = pg.tx /\ p0.refused = pg.refused
  BY <1>1, <1>4, <1>5 DEF Pages
<1>7. PICK p : p = Sizing(p0)  OBVIOUS
<1>8. IF p.pc = "shown" THEN Show(p) ELSE pg' = p /\ UNCHANGED walk
  BY <1>3, <1>5, <1>7 DEF Page
<1>9. /\ p \in Pages /\ p.pc \in {"shown", "view1", "sizes"}
      /\ p.offset = p0.offset /\ p.total = p0.total /\ p.items = W
      /\ p.tx = p0.tx /\ p.refused = p0.refused
      /\ p.pc # "shown" => p.included /\ opts.sizes # "never"
      /\ \/ p.included /\ (p.pc = "shown" => W = <<>>)
         \/ /\ ~p.included /\ p.pc = "shown"
            /\ opts.sizes = "never" \/ (opts.sizes = "auto" /\ Len(W) >= SizeThreshold)
  <2>1. CASE opts.sizes = "never" \/ (opts.sizes = "auto" /\ Len(W) >= SizeThreshold)
    <3>1. p = [p0 EXCEPT !.pc = "shown"]  BY <1>6, <1>7, <2>1 DEF Sizing
    <3>2. QED  BY <1>6, <2>1, <3>1 DEF Pages
  <2>2. CASE ~(opts.sizes = "never" \/ (opts.sizes = "auto" /\ Len(W) >= SizeThreshold))
    <3>1. PICK x \in {"shown", "view1", "sizes"} :
            x = IF W = <<>> THEN "shown" ELSE IF ext.on THEN "view1" ELSE "sizes"
      OBVIOUS
    <3>2. p = [p0 EXCEPT !.included = TRUE, !.pc = x]  BY <1>6, <1>7, <2>2, <3>1 DEF Sizing
    <3>3. x = "shown" => W = <<>>  BY <3>1
    <3>4. QED  BY <1>6, <2>2, <3>2, <3>3 DEF Pages, Stmts
  <2>3. QED  BY <2>1, <2>2
<1>10. CASE p.pc = "shown"
  <2>1. Show(p)  BY <1>8, <1>10
  <2>2. /\ pg' = [p EXCEPT !.pc = "shown"] /\ walk' \in Walks
        /\ walk'.shown = walk.shown \o NamesIn(p.items)
        /\ walk'.through = walk.through /\ walk'.dropped = walk.dropped
        /\ walk'.torn = walk.torn
    BY <1>1, <1>9, <2>1, ShowIs
  <2>3. pg' = p  BY <1>9, <1>10, <2>2 DEF Pages
  <2>4. QED  BY <1>2, <1>3, <1>6, <1>9, <1>10, <2>2, <2>3
<1>11. CASE p.pc # "shown"
  <2>1. pg' = p /\ walk' = walk  BY <1>8, <1>11
  <2>2. QED  BY <1>1, <1>2, <1>3, <1>6, <1>9, <1>11, <2>1
<1>12. QED  BY <1>10, <1>11

\* The sizes statement: every row gets the size of what has its place now.
LEMMA SizesIs ==
  ASSUME Types, Sizes
  PROVE  /\ pg.pc = "sizes" /\ pg' \in Pages /\ walk' \in Walks /\ pg'.pc = "shown"
         /\ pg'.offset = pg.offset /\ pg'.total = pg.total
         /\ Len(pg'.items) = Len(pg.items) /\ NamesIn(pg'.items) = NamesIn(pg.items)
         /\ \A i \in 1 .. Len(pg.items) : pg'.items[i].size = rels[pg.items[i].name]
         /\ pg'.included = pg.included /\ pg'.refused = pg.refused /\ pg'.moved = pg.moved
         /\ walk'.through = walk.through /\ walk'.dropped = walk.dropped /\ walk'.torn = walk.torn
         /\ walk'.shown = walk.shown \o NamesIn(pg.items)
<1>1. pg \in Pages /\ walk \in Walks /\ rels \in [Names -> 0 .. MaxDDL + 1]  BY DEF Types
<1>2. pg.pc = "sizes"  BY DEF Sizes, Runs
<1>3. PICK r \in Seq(Rows) : r = pg.items  BY <1>1 DEF Pages
<1>4. PICK a : a = AttachSizes(r)  OBVIOUS
<1>5. a = [i \in 1 .. Len(r) |-> [r[i] EXCEPT !.size = rels[r[i].name]]]
  BY <1>4 DEF AttachSizes
<1>6. ASSUME NEW i \in 1 .. Len(r)
      PROVE  a[i] \in Rows /\ a[i].name = r[i].name /\ a[i].size = rels[r[i].name]
  <2>1. PICK x \in Rows : x = r[i]  OBVIOUS
  <2>2. a[i] = [x EXCEPT !.size = rels[x.name]]  BY <1>5, <2>1
  <2>3. x.name \in Names /\ rels[x.name] \in 0 .. MaxDDL + 1  BY <1>1 DEF Rows
  <2>4. QED  BY <2>1, <2>2, <2>3 DEF Rows
<1>7. a \in Seq(Rows) /\ Len(a) = Len(r)
  <2>1. a = [i \in 1 .. Len(r) |-> a[i]] /\ Len(r) \in Nat  BY <1>5
  <2>2. QED  BY <1>6, <2>1
<1>8. NamesIn(a) = NamesIn(r)  BY <1>6, <1>7 DEF NamesIn
<1>9. PICK p : p = [pg EXCEPT !.items = a]  OBVIOUS
<1>10. /\ p \in Pages /\ p.pc = pg.pc /\ p.offset = pg.offset /\ p.total = pg.total
       /\ p.items = a /\ p.included = pg.included /\ p.refused = pg.refused /\ p.moved = pg.moved
  BY <1>1, <1>7, <1>9 DEF Pages
<1>11. Show(p)  BY <1>3, <1>4, <1>9 DEF Sizes
<1>12. /\ pg' = [p EXCEPT !.pc = "shown"] /\ walk' \in Walks
       /\ walk'.shown = walk.shown \o NamesIn(a)
       /\ walk'.through = walk.through /\ walk'.dropped = walk.dropped
       /\ walk'.torn = walk.torn
  BY <1>1, <1>10, <1>11, ShowIs
<1>13. /\ pg' \in Pages /\ pg'.pc = "shown" /\ pg'.offset = p.offset /\ pg'.total = p.total
       /\ pg'.items = a /\ pg'.included = p.included /\ pg'.refused = p.refused
       /\ pg'.moved = p.moved
  BY <1>10, <1>12 DEF Pages
<1>14. QED  BY <1>2, <1>3, <1>6, <1>7, <1>8, <1>10, <1>12, <1>13

\* A failure: the page is handed out without sizes, or the call fails.
LEMMA FailIs ==
  ASSUME Types, Fail, pg.tx
  PROVE  /\ pg.pc \in Stmts /\ pg' \in Pages /\ walk' \in Walks
         /\ pg'.offset = pg.offset /\ pg'.total = pg.total /\ pg'.items = pg.items
         /\ pg'.refused = pg.refused
         /\ \/ /\ pg'.pc = "shown" /\ pg.pc \in Late /\ opts.sizes # "always"
               /\ pg'.included = FALSE /\ pg'.sizesErr = TRUE
               /\ walk'.shown = walk.shown \o NamesIn(pg.items)
               /\ walk'.through = walk.through /\ walk'.dropped = walk.dropped
               /\ walk'.torn = walk.torn
            \/ pg'.pc = "failed" /\ walk' = walk
<1>1. pg \in Pages /\ walk \in Walks  BY DEF Types
<1>2. pg.pc \in Stmts  BY DEF Fail
<1>3. PICK p0 : p0 = [pg EXCEPT !.tx = FALSE, !.refused = @ \/ ~pg.tx]  OBVIOUS
<1>4. /\ p0 \in Pages /\ p0.pc = pg.pc /\ p0.offset = pg.offset /\ p0.total = pg.total
      /\ p0.items = pg.items /\ p0.refused = pg.refused
  <2>1. (pg.refused \/ ~pg.tx) = pg.refused /\ pg.refused \in BOOLEAN  BY <1>1 DEF Pages
  <2>2. p0 = [pg EXCEPT !.tx = FALSE, !.refused = pg.refused]  BY <1>3, <2>1
  <2>3. QED  BY <1>1, <2>1, <2>2 DEF Pages
<1>5. PICK p : p = OnError(p0)  OBVIOUS
<1>6. IF p.pc = "shown" THEN Show(p) ELSE pg' = p /\ UNCHANGED walk  BY <1>3, <1>5 DEF Fail
<1>7. CASE pg.pc \in Late /\ opts.sizes # "always"
  <2>1. p = [p0 EXCEPT !.pc = "shown", !.included = FALSE, !.sizesErr = TRUE]
    BY <1>4, <1>5, <1>7 DEF OnError, Late
  <2>2. /\ p \in Pages /\ p.pc = "shown" /\ p.offset = pg.offset /\ p.total = pg.total
        /\ p.items = pg.items /\ p.refused = pg.refused /\ p.included = FALSE /\ p.sizesErr = TRUE
    BY <1>4, <2>1 DEF Pages
  <2>3. Show(p)  BY <1>6, <2>2
  <2>4. /\ pg' = [p EXCEPT !.pc = "shown"] /\ walk' \in Walks
        /\ walk'.shown = walk.shown \o NamesIn(p.items)
        /\ walk'.through = walk.through /\ walk'.dropped = walk.dropped
        /\ walk'.torn = walk.torn
    BY <1>1, <2>2, <2>3, ShowIs
  <2>5. pg' = p  BY <2>2, <2>4 DEF Pages
  <2>6. QED  BY <1>2, <1>7, <2>2, <2>4, <2>5
<1>8. CASE ~(pg.pc \in Late /\ opts.sizes # "always")
  <2>1. p = [p0 EXCEPT !.pc = "failed"]  BY <1>4, <1>5, <1>8 DEF OnError, Late
  <2>2. /\ p \in Pages /\ p.pc = "failed" /\ p.offset = pg.offset /\ p.total = pg.total
        /\ p.items = pg.items /\ p.refused = pg.refused
    BY <1>4, <2>1 DEF Pages
  <2>3. pg' = p /\ walk' = walk  BY <1>6, <2>2
  <2>4. QED  BY <1>1, <1>2, <2>2, <2>3
<1>9. QED  BY <1>7, <1>8

\* Another session creates or drops a relation.
LEMMA ChangeIs ==
  ASSUME Types, NEW n \in Names, NEW inc \in 0 .. MaxDDL + 1, Change(n, inc)
  PROVE  /\ rels' = [rels EXCEPT ![n] = inc] /\ rels' \in [Names -> 0 .. MaxDDL + 1]
         /\ made' \in 1 .. MaxDDL + 1 /\ ext' = ext /\ opts' = opts /\ pg' \in Pages
         /\ pg'.pc = pg.pc /\ pg'.offset = pg.offset /\ pg'.total = pg.total
         /\ pg'.items = pg.items /\ pg'.included = pg.included /\ pg'.sizesErr = pg.sizesErr
         /\ pg'.tx = pg.tx /\ pg'.refused = pg.refused
         /\ pg'.moved = (pg.moved \/ pg.pc \in Late)
<1>1. rels \in [Names -> 0 .. MaxDDL + 1] /\ made \in 1 .. MaxDDL + 1 /\ pg \in Pages
  BY DEF Types
<1>2. /\ rels' = [rels EXCEPT ![n] = inc] /\ rels' \in [Names -> 0 .. MaxDDL + 1]
      /\ ext' = ext /\ opts' = opts
  BY <1>1 DEF Change
<1>3. made' \in 1 .. MaxDDL + 1
  <2>1. made <= MaxDDL /\ made' = made + 1  BY DEF Change
  <2>2. QED  BY <1>1, <2>1, ListingAssumption
<1>4. PICK b \in BOOLEAN : b = (pg.moved \/ pg.pc \in Late)  OBVIOUS
<1>5. pg' = [pg EXCEPT !.moved = b]  BY <1>4 DEF Change, Late
<1>6. QED  BY <1>1, <1>2, <1>3, <1>4, <1>5 DEF Pages

-----------------------------------------------------------------------------
(* Types, aborted transactions and sizes *)

Basic == Types /\ Usable /\ Sized

\* A step that changes nothing.
LEMMA BasicKept == ASSUME Basic, UNCHANGED vars  PROVE  Basic'
BY DEF Basic, Types, Usable, Sized, SizesTold, vars

\* Every step keeps the types, a usable transaction and what is said of sizes.
LEMMA BasicNext == ASSUME Basic, Next  PROVE  Basic'
<1>1. Types /\ Usable /\ Sized  BY DEF Basic
<1>2. pg \in Pages /\ walk \in Walks /\ opts \in Options  BY <1>1 DEF Types
<1>3. pg.items \in Seq(Rows) /\ pg.offset \in Nat /\ pg.total \in Nat  BY <1>2 DEF Pages
<1>4. CASE Begin
  <2>1. pg' = FreshPage(0) /\ opts' \in Options /\ rels' = rels /\ made' = made /\ ext' = ext
    BY <1>4 DEF Begin
  <2>2. /\ pg' \in Pages /\ pg'.pc = "version" /\ pg'.included = FALSE
        /\ pg'.tx = TRUE /\ pg'.refused = FALSE
    BY <2>1, FreshIs
  <2>3. walk' \in Walks
    <3>1. walk' = [shown |-> <<>>, through |-> Present, dropped |-> FALSE, torn |-> FALSE]
      BY <1>4 DEF Begin
    <3>2. <<>> \in Seq(Names) /\ Present \in SUBSET Names  BY PresentIs
    <3>3. QED  BY <3>1, <3>2 DEF Walks
  <2>4. QED  BY <1>1, <2>1, <2>2, <2>3 DEF Basic, Types, Usable, Sized, SizesTold, Early, Late
<1>5. CASE More
  <2>1. /\ pg' = FreshPage(pg.offset + Len(pg.items)) /\ rels' = rels /\ made' = made
        /\ ext' = ext /\ opts' = opts /\ walk' = walk
    BY <1>5 DEF More
  <2>2. pg.offset + Len(pg.items) \in Nat  BY <1>3
  <2>3. /\ pg' \in Pages /\ pg'.pc = "version" /\ pg'.included = FALSE
        /\ pg'.tx = TRUE /\ pg'.refused = FALSE
    BY <2>1, <2>2, FreshIs
  <2>4. QED  BY <1>1, <2>1, <2>3 DEF Basic, Types, Usable, Sized, SizesTold, Early, Late
<1>6. CASE Leave
  <2>1. pg' = [pg EXCEPT !.pc = "idle"] /\ UNCHANGED <<rels, made, ext, opts, walk>>
    BY <1>6 DEF Leave
  <2>2. pg' \in Pages /\ pg'.pc = "idle" /\ pg'.refused = pg.refused  BY <1>2, <2>1 DEF Pages
  <2>3. QED  BY <1>1, <2>1, <2>2 DEF Basic, Types, Usable, Sized, SizesTold, Early, Late, Stmts
<1>7. CASE Version
  <2>1. PICK x \in {"failed", "count"} : pg' = [pg EXCEPT !.pc = x]  BY <1>7 DEF Version
  <2>2. pg.pc = "version" /\ UNCHANGED <<rels, made, ext, opts, walk>>  BY <1>7 DEF Version, Runs
  <2>3. /\ pg' \in Pages /\ pg'.pc = x /\ pg'.refused = pg.refused /\ pg'.tx = pg.tx
        /\ pg'.included = pg.included
    BY <1>2, <2>1 DEF Pages, Stmts
  <2>4. QED  BY <1>1, <2>2, <2>3 DEF Basic, Types, Usable, Sized, SizesTold, Early, Late, Stmts
<1>8. CASE Count
  <2>1. PICK N \in Nat : N = Cardinality(Present)  BY PresentIs
  <2>2. /\ pg' = [pg EXCEPT !.pc = "page", !.total = N] /\ pg.pc = "count"
        /\ UNCHANGED <<rels, made, ext, opts, walk>>
    BY <1>8, <2>1 DEF Count, Runs
  <2>3. /\ pg' \in Pages /\ pg'.pc = "page" /\ pg'.refused = pg.refused /\ pg'.tx = pg.tx
        /\ pg'.included = pg.included
    BY <1>2, <2>2 DEF Pages, Stmts
  <2>4. QED  BY <1>1, <2>2, <2>3 DEF Basic, Types, Usable, Sized, SizesTold, Early, Late, Stmts
<1>9. CASE View
  <2>1. PICK x \in {"view2", "sizes"} : pg' = [pg EXCEPT !.pc = x]  BY <1>9 DEF View
  <2>2. pg.pc \in Late /\ UNCHANGED <<rels, made, ext, opts, walk>>
    BY <1>9 DEF View, Runs, Late
  <2>3. /\ pg' \in Pages /\ pg'.pc = x /\ pg'.items = pg.items /\ pg'.refused = pg.refused
        /\ pg'.tx = pg.tx /\ pg'.included = pg.included /\ pg'.moved = pg.moved
    BY <1>2, <2>1 DEF Pages, Stmts
  <2>4. QED  BY <1>1, <2>2, <2>3 DEF Basic, Types, Usable, Sized, SizesTold, Early, Late, Stmts
<1>10. CASE Page
  <2>1. pg.pc = "page" /\ UNCHANGED <<rels, made, ext, opts>>  BY <1>10 DEF Page, Runs
  <2>2. ~pg.included /\ pg.tx /\ ~pg.refused
    BY <1>1, <2>1 DEF Usable, Sized, Early, Stmts
  <2>3. PICK W : W = Window(pg.offset, opts.limit)  OBVIOUS
  <2>4. /\ pg' \in Pages /\ walk' \in Walks /\ pg'.pc \in {"shown", "view1", "sizes"}
        /\ pg'.items = W /\ pg'.tx = pg.tx /\ pg'.refused = pg.refused
        /\ pg'.pc # "shown" => pg'.included /\ opts.sizes # "never"
        /\ \/ pg'.included /\ (pg'.pc = "shown" => W = <<>>)
           \/ /\ ~pg'.included /\ pg'.pc = "shown"
              /\ opts.sizes = "never" \/ (opts.sizes = "auto" /\ Len(W) >= SizeThreshold)
    BY <1>1, <1>10, <2>2, <2>3, PageIs
  <2>5. W \in Seq([name: Present, size: {0}])
    <3>1. PICK o \in Nat, l \in Nat \ {0}, N \in Nat :
            o = pg.offset /\ l = opts.limit /\ N = Cardinality(Present)
      BY <1>2, <1>3, PresentIs, ListingAssumption DEF Options
    <3>2. QED  BY <2>3, <3>1, WindowIs
  <2>6. \A i \in 1 .. Len(W) : W[i].size = 0 /\ rels[W[i].name] # 0
    <3>1. \A m \in Present : rels[m] # 0  BY DEF Present
    <3>2. PICK T : T = [name: Present, size: {0}]  OBVIOUS
    <3>3. \A i \in 1 .. Len(W) : W[i] \in T
      <4>1. W \in Seq(T)  BY <2>5, <3>2
      <4>2. QED  BY <4>1
    <3>4. \A r \in T : r.size = 0 /\ r.name \in Present  BY <3>2
    <3>5. QED  BY <3>1, <3>3, <3>4
  <2>7. DOMAIN W = 1 .. Len(W) /\ (W = <<>> => Len(W) = 0)  BY <2>5
  <2>8. Types' /\ Usable'  BY <1>1, <2>1, <2>2, <2>4 DEF Types, Usable
  <2>9. Sized'
    <3>1. pg'.pc \notin Early  BY <2>4 DEF Early
    <3>2. pg'.pc \in Late => /\ pg'.included /\ opts.sizes # "never"
                             /\ \A i \in 1 .. Len(W) : W[i].size = 0 /\ rels[W[i].name] # 0
      BY <2>4, <2>6 DEF Late
    <3>3. SizesTold'
      <4>1. (\A i \in DOMAIN W : W[i].size = 0) /\ (W = <<>> => \A i : i \notin DOMAIN W)
        BY <2>6, <2>7
      <4>2. QED  BY <2>1, <2>4, <4>1 DEF SizesTold
    <3>4. QED  BY <2>1, <2>4, <3>1, <3>2, <3>3 DEF Sized
  <2>10. QED  BY <2>8, <2>9 DEF Basic
<1>11. CASE Sizes
  <2>1. /\ pg.pc = "sizes" /\ pg' \in Pages /\ walk' \in Walks /\ pg'.pc = "shown"
        /\ Len(pg'.items) = Len(pg.items)
        /\ \A i \in 1 .. Len(pg.items) : pg'.items[i].size = rels[pg.items[i].name]
        /\ pg'.included = pg.included /\ pg'.refused = pg.refused /\ pg'.moved = pg.moved
    BY <1>1, <1>11, SizesIs
  <2>2. UNCHANGED <<rels, made, ext, opts>>  BY <1>11 DEF Sizes
  <2>3. /\ pg.included /\ opts.sizes # "never"
        /\ ~pg.moved => \A i \in 1 .. Len(pg.items) : rels[pg.items[i].name] # 0
    BY <1>1, <2>1 DEF Sized, Late
  <2>4. pg'.items \in Seq(Rows)  BY <2>1 DEF Pages
  <2>5. DOMAIN pg'.items = 1 .. Len(pg.items)  BY <2>1, <2>4
  <2>6. SizesTold'  BY <2>1, <2>2, <2>3, <2>5 DEF SizesTold
  <2>7. QED  BY <1>1, <2>1, <2>2, <2>6 DEF Basic, Types, Usable, Sized, Early, Late, Stmts
<1>12. CASE Fail
  <2>1. pg.pc \in Stmts /\ pg.tx /\ ~pg.refused  BY <1>1, <1>12 DEF Fail, Usable
  <2>2. /\ pg' \in Pages /\ walk' \in Walks /\ pg'.items = pg.items /\ pg'.refused = pg.refused
        /\ \/ /\ pg'.pc = "shown" /\ pg.pc \in Late /\ opts.sizes # "always"
              /\ pg'.included = FALSE /\ pg'.sizesErr = TRUE
           \/ pg'.pc = "failed"
    BY <1>1, <1>12, <2>1, FailIs
  <2>3. UNCHANGED <<rels, made, ext, opts>>  BY <1>12 DEF Fail
  <2>4. DOMAIN pg.items = 1 .. Len(pg.items)  BY <1>3
  <2>5. SizesTold'  BY <1>1, <2>2, <2>3, <2>4 DEF SizesTold, Sized
  <2>6. QED  BY <1>1, <2>1, <2>2, <2>3, <2>5 DEF Basic, Types, Usable, Sized, Early, Late, Stmts
<1>13. ASSUME NEW n \in Names, Create(n) \/ Drop(n)  PROVE  Basic'
  <2>1. PICK inc \in 0 .. MaxDDL + 1 : Change(n, inc)
    <3>1. CASE Create(n)
      <4>1. Change(n, made + 1) /\ made <= MaxDDL  BY <3>1 DEF Create, Change
      <4>2. made + 1 \in 0 .. MaxDDL + 1  BY <1>1, <4>1, ListingAssumption DEF Types
      <4>3. QED  BY <4>1, <4>2
    <3>2. CASE Drop(n)
      <4>1. Change(n, 0)  BY <3>2 DEF Drop
      <4>2. 0 \in 0 .. MaxDDL + 1  BY ListingAssumption
      <4>3. QED  BY <4>1, <4>2
    <3>3. QED  BY <1>13, <3>1, <3>2
  <2>2. /\ rels' \in [Names -> 0 .. MaxDDL + 1]
        /\ made' \in 1 .. MaxDDL + 1 /\ ext' = ext /\ opts' = opts /\ pg' \in Pages
        /\ pg'.pc = pg.pc /\ pg'.items = pg.items /\ pg'.included = pg.included
        /\ pg'.sizesErr = pg.sizesErr /\ pg'.tx = pg.tx /\ pg'.refused = pg.refused
        /\ pg'.moved = (pg.moved \/ pg.pc \in Late)
    BY <1>1, <2>1, ChangeIs
  <2>3. walk' \in Walks
    <3>1. PICK b \in BOOLEAN : b = (walk.torn \/ pg.pc = "page")  OBVIOUS
    <3>2. \/ walk' = [walk EXCEPT !.torn = b]
          \/ walk' = [walk EXCEPT !.dropped = TRUE, !.through = @ \ {n}, !.torn = b]
      BY <1>13, <3>1 DEF Create, Drop
    <3>3. QED  BY <1>2, <3>2 DEF Walks
  <2>4. pg.pc = "shown" => (pg'.moved <=> pg.moved)  BY <2>2 DEF Late
  <2>5. SizesTold'  BY <1>1, <2>2, <2>4 DEF SizesTold, Sized
  <2>6. QED  BY <1>1, <2>2, <2>3, <2>5 DEF Basic, Types, Usable, Sized, Early, Late, Stmts
<1>14. QED
  BY <1>4, <1>5, <1>6, <1>7, <1>8, <1>9, <1>10, <1>11, <1>12, <1>13 DEF Next

-----------------------------------------------------------------------------
(* The walk *)

\* A step that leaves alone what was seen and how far the walk has come.
LEMMA RestKept ==
  ASSUME NEW p, NEW q, NEW w, NEW v, NEW S, AtRest(p, w, S),
         SeenOf(q, v) = SeenOf(p, w), Reached(q) = Reached(p),
         q.pc \notin {"version", "count"} => q.total = Cardinality(S)
  PROVE  AtRest(q, v, S)
BY DEF AtRest

\* The same where the catalog may have grown from S to T.
LEMMA AheadKept ==
  ASSUME NEW p, NEW q, NEW w, NEW v, NEW S, NEW T, Ahead(p, w, S),
         SeenOf(q, v) = SeenOf(p, w), Reached(q) = Reached(p), v.through = w.through,
         Reached(p) \in Nat,
         \A n \in w.through : /\ Before(n, S) \in Nat /\ Before(n, T) \in Nat
                              /\ Before(n, T) >= Before(n, S),
         q.pc = "page" => q.total = Cardinality(T),
         q.pc \notin Early => p.pc \notin Early /\ q.total = p.total
  PROVE  Ahead(q, v, T)
<1>1. PICK seen : seen = SeenOf(p, w) /\ seen = SeenOf(q, v)  OBVIOUS
<1>2. ASSUME NEW n \in v.through
      PROVE  \/ \E i \in 1 .. Len(seen) : seen[i] = n
             \/ Before(n, T) >= Reached(q) /\ (q.pc \notin Early => Reached(q) < q.total)
  <2>1. n \in w.through  OBVIOUS
  <2>2. PICK a \in Nat, b \in Nat, r \in Nat :
          a = Before(n, S) /\ b = Before(n, T) /\ b >= a /\ r = Reached(p) /\ r = Reached(q)
    BY <2>1
  <2>3. \/ \E i \in 1 .. Len(seen) : seen[i] = n
        \/ a >= r /\ (p.pc \notin Early => r < p.total)
    BY <1>1, <2>1, <2>2 DEF Ahead
  <2>4. a >= r => b >= r  BY <2>2
  <2>5. QED  BY <2>2, <2>3, <2>4
<1>3. QED  BY <1>1, <1>2 DEF Ahead

\* A step that leaves catalog and progress alone keeps what is known of the walk.
LEMMA WalkingKept ==
  ASSUME Types, Walking, rels' = rels, pg.pc \notin {"idle", "failed"},
         walk'.through = walk.through, walk'.dropped = walk.dropped, walk'.torn = walk.torn,
         pg'.pc \notin {"idle", "failed"} =>
           /\ SeenOf(pg', walk') = SeenOf(pg, walk) /\ Reached(pg') = Reached(pg)
           /\ pg'.pc \notin {"version", "count"} =>
                \/ pg'.total = Cardinality(Present)
                \/ pg.pc \notin {"version", "count"} /\ pg'.total = pg.total
           /\ pg'.pc = "page" => pg'.total = Cardinality(Present)
           /\ pg'.pc \notin Early => pg.pc \notin Early /\ pg'.total = pg.total
  PROVE  Walking'
<1>1. Present' = Present  BY DEF Present
<1>2. PICK S : S = Present /\ S \in SUBSET Nat /\ IsFiniteSet(S)  BY PresentIs
<1>3. ~walk'.dropped => walk'.through \subseteq Present'  BY <1>1 DEF Walking
<1>4. ASSUME ~walk'.dropped, pg'.pc \notin {"idle", "failed"}, walk'.through = Present'
      PROVE  AtRest(pg', walk', Present')
  <2>1. AtRest(pg, walk, S)  BY <1>1, <1>2, <1>4 DEF Walking
  <2>2. pg.pc \notin {"version", "count"} => pg.total = Cardinality(S)  BY <2>1 DEF AtRest
  <2>3. AtRest(pg', walk', S)  BY <1>2, <1>4, <2>1, <2>2, RestKept
  <2>4. QED  BY <1>1, <1>2, <2>3
<1>5. ASSUME ~walk'.dropped, pg'.pc \notin {"idle", "failed"}, ~walk'.torn
      PROVE  Ahead(pg', walk', Present')
  <2>1. Ahead(pg, walk, S)  BY <1>2, <1>5 DEF Walking
  <2>2. \A n : Before(n, S) \in Nat /\ Before(n, S) >= Before(n, S)  BY <1>2, BeforeIs
  <2>3. Reached(pg) \in Nat
    <3>1. pg.offset \in Nat /\ pg.items \in Seq(Rows)  BY DEF Types, Pages
    <3>2. QED  BY <3>1 DEF Reached
  <2>4. Ahead(pg', walk', S)  BY <1>2, <1>5, <2>1, <2>2, <2>3, AheadKept
  <2>5. QED  BY <1>1, <1>2, <2>4
<1>6. QED  BY <1>3, <1>4, <1>5 DEF Walking

\* The page statement adds what comes next in the listing.
LEMMA WalkingPage == ASSUME Basic, Walking, Page  PROVE  Walking'
<1>1. Types /\ pg \in Pages /\ walk \in Walks /\ opts \in Options  BY DEF Basic, Types
<1>2. pg.pc = "page" /\ rels' = rels  BY DEF Page, Runs
<1>3. ~pg.included  BY <1>2 DEF Basic, Sized, Early
<1>4. PICK o \in Nat, l \in Nat \ {0}, N \in Nat :
        o = pg.offset /\ l = opts.limit /\ N = Cardinality(Present)
  BY <1>1, PresentIs, ListingAssumption DEF Pages, Options
<1>5. PICK W : W = Window(o, l)  OBVIOUS
<1>6. PICK S : S = Present /\ S \in SUBSET Nat /\ IsFiniteSet(S)  BY PresentIs
<1>7. PICK n \in Nat : n = Len(W)
  <2>1. PICK T : T = [name: Present, size: {0}]  OBVIOUS
  <2>2. W \in Seq(T)  BY <1>4, <1>5, <2>1, WindowIs
  <2>3. Len(W) \in Nat  BY <2>2
  <2>4. QED  BY <2>3
<1>8. /\ n = l \/ o + n >= N
      /\ o <= N => o + n <= N
      /\ \A i \in 1 .. n : W[i].name = Sorted(S)[o + i]
  <2>1. CutAt(W, o, l, N)  BY <1>4, <1>5, WindowIs
  <2>2. QED  BY <1>6, <1>7, <2>1 DEF CutAt
<1>9. /\ pg'.pc \in {"shown", "view1", "sizes"}
      /\ pg'.offset = o /\ pg'.total = pg.total /\ pg'.items = W
      /\ walk'.through = walk.through /\ walk'.dropped = walk.dropped /\ walk'.torn = walk.torn
      /\ walk'.shown = IF pg'.pc = "shown" THEN walk.shown \o NamesIn(W) ELSE walk.shown
  BY <1>1, <1>3, <1>4, <1>5, PageIs
<1>10. PICK s \in Seq(Names) : s = walk.shown  BY <1>1 DEF Walks
<1>11. SeenOf(pg, walk) = s /\ Reached(pg) = o
  BY <1>2, <1>4, <1>10 DEF SeenOf, Reached, Late, Early
<1>12. PICK c : c = s \o NamesIn(W)  OBVIOUS
<1>13. SeenOf(pg', walk') = c /\ Reached(pg') = o + n
  BY <1>7, <1>9, <1>10, <1>12 DEF SeenOf, Reached, Late, Early
<1>14. /\ Len(c) = Len(s) + n
       /\ \A i \in 1 .. Len(s) : c[i] = s[i]
       /\ \A i \in 1 .. n : c[Len(s) + i] = Sorted(S)[o + i]
  <2>1. PICK a : a = NamesIn(W)  OBVIOUS
  <2>2. a = [i \in 1 .. n |-> W[i].name]  BY <1>7, <2>1 DEF NamesIn
  <2>3. PICK T : T = {W[i].name : i \in 1 .. n} \cup Names  OBVIOUS
  <2>4. a \in Seq(T) /\ s \in Seq(T)  BY <1>10, <2>2, <2>3
  <2>5. Len(a) = n /\ \A i \in 1 .. n : a[i] = W[i].name  BY <2>2
  <2>6. c = s \o a  BY <1>12, <2>1
  <2>7. /\ Len(c) = Len(s) + Len(a) /\ \A i \in 1 .. Len(s) : c[i] = s[i]
        /\ \A i \in 1 .. Len(a) : c[Len(s) + i] = a[i]
    BY <2>4, <2>6
  <2>8. QED  BY <1>8, <2>5, <2>7
<1>15. Present' = S  BY <1>2, <1>6 DEF Present
<1>16. ~walk'.dropped => walk'.through \subseteq S  BY <1>6, <1>9 DEF Walking
<1>17. ASSUME ~walk'.dropped, walk'.through = S  PROVE  AtRest(pg', walk', S)
  <2>1. AtRest(pg, walk, S)  BY <1>2, <1>6, <1>9, <1>17 DEF Walking
  <2>2. Len(s) = o /\ o <= N /\ (\A i \in 1 .. o : s[i] = Sorted(S)[i]) /\ pg.total = N
    BY <1>2, <1>4, <1>6, <1>11, <2>1 DEF AtRest
  <2>3. Len(c) = o + n /\ o + n <= N  BY <1>8, <1>14, <2>2
  <2>4. ASSUME NEW i \in 1 .. o + n  PROVE  c[i] = Sorted(S)[i]
    <3>1. CASE i <= o
      <4>1. i \in 1 .. o  BY <3>1
      <4>2. QED  BY <1>14, <2>2, <4>1
    <3>2. CASE i > o
      <4>1. PICK j \in 1 .. n : i = o + j
        <5>1. i - o \in 1 .. n /\ i = o + (i - o)  BY <3>2
        <5>2. QED  BY <5>1
      <4>2. QED  BY <1>14, <2>2, <4>1
    <3>3. QED  BY <3>1, <3>2
  <2>5. QED  BY <1>4, <1>6, <1>9, <1>13, <2>2, <2>3, <2>4 DEF AtRest
<1>18. ASSUME ~walk'.dropped, ~walk'.torn  PROVE  Ahead(pg', walk', S)
  <2>1. Ahead(pg, walk, S)  BY <1>2, <1>6, <1>9, <1>18 DEF Walking
  <2>2. pg.total = N  BY <1>2, <1>4, <1>6, <2>1 DEF Ahead
  <2>3. ASSUME NEW m \in walk.through
        PROVE  \/ \E i \in 1 .. Len(c) : c[i] = m
               \/ Before(m, S) >= o + n /\ o + n < N
    <3>1. m \in S  BY <1>9, <1>16, <1>18
    <3>2. PICK b \in Nat : b = Before(m, S) /\ b < N  BY <1>4, <1>6, <3>1, BeforeIs
    <3>3. Sorted(S)[b + 1] = m  BY <1>6, <3>1, <3>2, SortedIs
    <3>4. (\E i \in 1 .. Len(s) : s[i] = m) \/ b >= o  BY <1>11, <2>1, <3>2 DEF Ahead
    <3>5. CASE \E i \in 1 .. Len(s) : s[i] = m
      <4>1. PICK i \in 1 .. Len(s) : s[i] = m  BY <3>5
      <4>2. i \in 1 .. Len(c) /\ c[i] = m  BY <1>14, <4>1
      <4>3. QED  BY <4>2
    <3>6. CASE b >= o /\ b < o + n
      <4>1. b + 1 - o \in 1 .. n /\ o + (b + 1 - o) = b + 1  BY <3>6
      <4>2. PICK j \in 1 .. n : o + j = b + 1  BY <4>1
      <4>3. c[Len(s) + j] = m  BY <1>14, <3>3, <4>2
      <4>4. Len(s) + j \in 1 .. Len(c)  BY <1>14
      <4>5. QED  BY <4>3, <4>4
    <3>7. CASE b >= o + n  BY <3>2, <3>7
    <3>8. QED  BY <3>4, <3>5, <3>6, <3>7
  <2>4. pg'.pc \notin Early /\ pg'.pc # "page"  BY <1>9 DEF Early
  <2>5. QED  BY <1>9, <1>13, <2>2, <2>3, <2>4 DEF Ahead
<1>19. QED  BY <1>15, <1>16, <1>17, <1>18 DEF Walking

\* A relation is created: only the places after it move, away from the walk.
LEMMA WalkingCreate ==
  ASSUME Basic, Walking, NEW k \in Names, Create(k)
  PROVE  Walking'
<1>1. Types /\ pg \in Pages /\ walk \in Walks  BY DEF Basic, Types
<1>2. rels[k] = 0 /\ Change(k, made + 1)  BY DEF Create
<1>3. made + 1 \in 0 .. MaxDDL + 1 /\ made + 1 # 0
  <2>1. made <= MaxDDL /\ made \in 1 .. MaxDDL + 1  BY <1>1, <1>2 DEF Change, Types
  <2>2. QED  BY <2>1, ListingAssumption
<1>4. /\ rels' = [rels EXCEPT ![k] = made + 1] /\ rels \in [Names -> 0 .. MaxDDL + 1]
      /\ pg'.pc = pg.pc /\ pg'.offset = pg.offset /\ pg'.total = pg.total
      /\ pg'.items = pg.items
  BY <1>1, <1>2, <1>3, ChangeIs DEF Types
<1>5. PICK S : S = Present /\ S \in SUBSET Nat /\ IsFiniteSet(S)  BY PresentIs
<1>6. k \in Nat /\ k \notin S  BY <1>2, <1>5, ListingAssumption DEF Present
<1>7. Present' = S \cup {k}
  <2>1. \A m \in Names : rels'[m] # 0 <=> (rels[m] # 0 \/ m = k)  BY <1>3, <1>4
  <2>2. QED  BY <1>5, <2>1 DEF Present
<1>8. PICK T : T = S \cup {k}  OBVIOUS
<1>9. /\ walk'.through = walk.through /\ walk'.dropped = walk.dropped
      /\ walk'.shown = walk.shown /\ (~walk'.torn => ~walk.torn /\ pg.pc # "page")
  <2>1. PICK b \in BOOLEAN : b = (walk.torn \/ pg.pc = "page")  OBVIOUS
  <2>2. walk' = [walk EXCEPT !.torn = b]  BY <2>1 DEF Create
  <2>3. QED  BY <1>1, <2>1, <2>2 DEF Walks
<1>10. SeenOf(pg', walk') = SeenOf(pg, walk) /\ Reached(pg') = Reached(pg)
  BY <1>4, <1>9 DEF SeenOf, Reached
<1>11. ~walk'.dropped => walk'.through \subseteq T /\ walk'.through # T
  BY <1>5, <1>6, <1>8, <1>9 DEF Walking
<1>12. ASSUME ~walk'.dropped, ~walk'.torn, pg'.pc \notin {"idle", "failed"}
       PROVE  Ahead(pg', walk', T)
  <2>1. Ahead(pg, walk, S)  BY <1>4, <1>5, <1>9, <1>12 DEF Walking
  <2>2. \A n : Before(n, S) \in Nat  BY <1>5, BeforeIs
  <2>3. \A n : Before(n, T) \in Nat
    <3>1. T \in SUBSET Nat /\ IsFiniteSet(T)  BY <1>5, <1>6, <1>8, FS_AddElement
    <3>2. QED  BY <3>1, BeforeIs
  <2>4. \A n : Before(n, T) >= Before(n, S)  BY <1>5, <1>6, <1>8, BeforeGrows
  <2>5. Reached(pg) \in Nat
    <3>1. pg.offset \in Nat /\ pg.items \in Seq(Rows)  BY <1>1 DEF Pages
    <3>2. QED  BY <3>1 DEF Reached
  <2>6. pg'.pc # "page"  BY <1>4, <1>9, <1>12
  <2>7. QED  BY <1>4, <1>9, <1>10, <2>1, <2>2, <2>3, <2>4, <2>5, <2>6, AheadKept
<1>13. QED  BY <1>7, <1>8, <1>11, <1>12 DEF Walking

\* Every step keeps what is known of the walk.
LEMMA WalkingNext == ASSUME Basic, Walking, Next  PROVE  Walking'
<1>1. /\ Types /\ pg \in Pages /\ walk \in Walks /\ opts \in Options /\ Usable /\ Sized
  BY DEF Basic, Types
<1>2. pg.items \in Seq(Rows) /\ pg.offset \in Nat /\ pg.total \in Nat  BY <1>1 DEF Pages
<1>3. CASE Begin
  <2>1. PICK q : q = FreshPage(0) /\ q = pg'  BY <1>3 DEF Begin
  <2>2. q.pc = "version" /\ q.offset = 0  BY <2>1, FreshIs
  <2>3. /\ walk'.shown = <<>> /\ walk'.through = Present
    BY <1>3 DEF Begin
  <2>4. Present' = Present  BY <1>3 DEF Begin, Present
  <2>5. PICK S : S = Present /\ S \in SUBSET Nat /\ IsFiniteSet(S)  BY PresentIs
  <2>6. SeenOf(pg', walk') = <<>> /\ Reached(pg') = 0
    BY <2>1, <2>2, <2>3 DEF SeenOf, Reached, Late, Early
  <2>7. Cardinality(S) \in Nat /\ \A n : Before(n, S) \in Nat  BY <2>5, BeforeIs
  <2>8. AtRest(pg', walk', S)
    <3>1. Len(<<>>) = 0 /\ 0 <= Cardinality(S) /\ 1 .. 0 = {}  BY <2>7
    <3>2. QED  BY <2>1, <2>2, <2>6, <3>1 DEF AtRest
  <2>9. Ahead(pg', walk', S)
    <3>1. \A n : Before(n, S) >= 0  BY <2>7
    <3>2. QED  BY <2>1, <2>2, <2>6, <3>1 DEF Ahead, Early
  <2>10. QED  BY <2>3, <2>4, <2>5, <2>8, <2>9 DEF Walking
<1>4. CASE More
  <2>1. PICK o \in Nat : o = pg.offset + Len(pg.items)  BY <1>2
  <2>2. PICK q : q = FreshPage(o) /\ q = pg'  BY <1>4, <2>1 DEF More
  <2>3. q.pc = "version" /\ q.offset = o  BY <2>2, FreshIs
  <2>4. pg.pc = "shown" /\ rels' = rels /\ walk' = walk  BY <1>4 DEF More
  <2>5. SeenOf(pg', walk') = SeenOf(pg, walk) /\ Reached(pg') = Reached(pg)
    BY <2>1, <2>2, <2>3, <2>4 DEF SeenOf, Reached, Late, Early
  <2>6. QED  BY <1>1, <2>2, <2>3, <2>4, <2>5, WalkingKept DEF Early
<1>5. CASE Leave
  <2>1. pg' = [pg EXCEPT !.pc = "idle"] /\ rels' = rels /\ walk' = walk  BY <1>5 DEF Leave
  <2>2. pg'.pc = "idle"  BY <1>1, <2>1 DEF Pages
  <2>3. Present' = Present  BY <2>1 DEF Present
  <2>4. QED  BY <2>1, <2>2, <2>3 DEF Walking
<1>6. CASE Version
  <2>1. PICK x \in {"failed", "count"} : pg' = [pg EXCEPT !.pc = x]  BY <1>6 DEF Version
  <2>2. pg.pc = "version" /\ rels' = rels /\ walk' = walk  BY <1>6 DEF Version, Runs
  <2>3. pg'.pc = x /\ pg'.offset = pg.offset  BY <1>1, <2>1 DEF Pages
  <2>4. pg'.pc # "failed" =>
          SeenOf(pg', walk') = SeenOf(pg, walk) /\ Reached(pg') = Reached(pg)
    BY <2>2, <2>3 DEF SeenOf, Reached, Late, Early
  <2>5. QED  BY <1>1, <2>2, <2>3, <2>4, WalkingKept DEF Early
<1>7. CASE Count
  <2>1. PICK N \in Nat : N = Cardinality(Present)  BY PresentIs
  <2>2. /\ pg' = [pg EXCEPT !.pc = "page", !.total = N] /\ pg.pc = "count"
        /\ rels' = rels /\ walk' = walk
    BY <1>7, <2>1 DEF Count, Runs
  <2>3. pg'.pc = "page" /\ pg'.offset = pg.offset /\ pg'.total = N  BY <1>1, <2>2 DEF Pages
  <2>4. SeenOf(pg', walk') = SeenOf(pg, walk) /\ Reached(pg') = Reached(pg)
    BY <2>2, <2>3 DEF SeenOf, Reached, Late, Early
  <2>5. QED  BY <1>1, <2>1, <2>2, <2>3, <2>4, WalkingKept DEF Early
<1>8. CASE View
  <2>1. PICK x \in {"view2", "sizes"} : pg' = [pg EXCEPT !.pc = x]  BY <1>8 DEF View
  <2>2. pg.pc \in {"view1", "view2"} /\ rels' = rels /\ walk' = walk  BY <1>8 DEF View, Runs
  <2>3. /\ pg'.pc = x /\ pg'.offset = pg.offset /\ pg'.items = pg.items
        /\ pg'.total = pg.total
    BY <1>1, <2>1 DEF Pages
  <2>4. SeenOf(pg', walk') = SeenOf(pg, walk) /\ Reached(pg') = Reached(pg)
    BY <2>2, <2>3 DEF SeenOf, Reached, Late, Early
  <2>5. QED  BY <1>1, <2>2, <2>3, <2>4, WalkingKept DEF Early
<1>9. CASE Sizes
  <2>1. /\ pg.pc = "sizes" /\ pg'.pc = "shown"
        /\ pg'.offset = pg.offset /\ pg'.total = pg.total
        /\ Len(pg'.items) = Len(pg.items) /\ NamesIn(pg'.items) = NamesIn(pg.items)
        /\ walk'.through = walk.through /\ walk'.dropped = walk.dropped
        /\ walk'.torn = walk.torn /\ walk'.shown = walk.shown \o NamesIn(pg.items)
    BY <1>1, <1>9, SizesIs
  <2>2. rels' = rels  BY <1>9 DEF Sizes
  <2>3. SeenOf(pg', walk') = SeenOf(pg, walk) /\ Reached(pg') = Reached(pg)
    BY <2>1 DEF SeenOf, Reached, Late, Early
  <2>4. QED  BY <1>1, <2>1, <2>2, <2>3, WalkingKept DEF Early
<1>10. CASE Fail
  <2>1. pg.pc \in Stmts /\ pg.tx  BY <1>1, <1>10 DEF Fail, Usable
  <2>2. /\ pg'.offset = pg.offset /\ pg'.total = pg.total /\ pg'.items = pg.items
        /\ \/ /\ pg'.pc = "shown" /\ pg.pc \in Late
              /\ walk'.shown = walk.shown \o NamesIn(pg.items)
              /\ walk'.through = walk.through /\ walk'.dropped = walk.dropped
              /\ walk'.torn = walk.torn
           \/ pg'.pc = "failed" /\ walk' = walk
    BY <1>1, <1>10, <2>1, FailIs
  <2>3. rels' = rels /\ pg.pc \notin {"idle", "failed"}  BY <1>10, <2>1 DEF Fail, Stmts
  <2>4. pg'.pc # "failed" =>
          SeenOf(pg', walk') = SeenOf(pg, walk) /\ Reached(pg') = Reached(pg)
    BY <2>2 DEF SeenOf, Reached, Late, Early
  <2>5. QED  BY <1>1, <2>2, <2>3, <2>4, WalkingKept DEF Early, Late
<1>11. ASSUME NEW k \in Names, Drop(k)  PROVE  Walking'
  <2>1. PICK b \in BOOLEAN : b = (walk.torn \/ pg.pc = "page")  OBVIOUS
  <2>2. walk' = [walk EXCEPT !.dropped = TRUE, !.through = @ \ {k}, !.torn = b]
    BY <1>11, <2>1 DEF Drop
  <2>3. walk'.dropped = TRUE  BY <1>1, <2>2 DEF Walks
  <2>4. QED  BY <2>3 DEF Walking
<1>12. QED
  BY <1>3, <1>4, <1>5, <1>6, <1>7, <1>8, <1>9, <1>10, <1>11, WalkingPage, WalkingCreate DEF Next

\* The invariant of the listing holds initially, when nothing changes, and after
\* every step.
LEMMA LInvInit == ASSUME Init  PROVE  LInv
<1>1. rels \in [Names -> 0 .. MaxDDL + 1]
  <2>1. PICK S \in SUBSET Names : rels = [n \in Names |-> IF n \in S THEN 1 ELSE 0]
    BY DEF Init
  <2>2. 0 \in 0 .. MaxDDL + 1 /\ 1 \in 0 .. MaxDDL + 1  BY ListingAssumption
  <2>3. QED  BY <2>1, <2>2
<1>2. made \in 1 .. MaxDDL + 1  BY ListingAssumption DEF Init
<1>3. ext \in [on: BOOLEAN, view: 0 .. 2] /\ opts \in Options  BY DEF Init
<1>4. PICK q : q = FreshPage(0)  OBVIOUS
<1>5. q \in Pages /\ q.refused = FALSE  BY <1>4, FreshIs
<1>6. pg = [q EXCEPT !.pc = "idle"]  BY <1>4 DEF Init
<1>7. pg \in Pages /\ pg.pc = "idle" /\ pg.refused = FALSE  BY <1>5, <1>6, MovedOn
<1>8. walk \in Walks /\ walk.through = {}
  <2>1. walk = [shown |-> <<>>, through |-> {}, dropped |-> FALSE, torn |-> FALSE]  BY DEF Init
  <2>2. <<>> \in Seq(Names) /\ {} \in SUBSET Names  OBVIOUS
  <2>3. QED  BY <2>1, <2>2 DEF Walks
<1>9. Types  BY <1>1, <1>2, <1>3, <1>7, <1>8 DEF Types
<1>10. Usable /\ Sized  BY <1>7 DEF Usable, Sized, SizesTold, Stmts, Early, Late
<1>11. Walking  BY <1>7, <1>8 DEF Walking
<1>12. QED  BY <1>9, <1>10, <1>11 DEF LInv

\* (See LInvInit.)
LEMMA LInvKept == ASSUME LInv, UNCHANGED vars  PROVE  LInv'
<1>1. Basic'  BY BasicKept DEF LInv, Basic
<1>2. Walking'
  <2>1. Present' = Present /\ pg' = pg /\ walk' = walk  BY DEF vars, Present
  <2>2. QED  BY <2>1 DEF LInv, Walking
<1>3. QED  BY <1>1, <1>2 DEF LInv, Basic

\* (See LInvInit.)
LEMMA LInvNext == ASSUME LInv, Next  PROVE  LInv'
BY BasicNext, WalkingNext DEF LInv, Basic

\* What the invariant says of the last page of a walk.
LEMMA WalkedIs ==
  ASSUME LInv
  PROVE  TypeOK /\ NeverAborted /\ SizesTold /\ WalkExact /\ CreatesHideNothing
<1>1. Types /\ pg \in Pages /\ walk \in Walks  BY DEF LInv, Types
<1>2. PICK s \in Seq(Names) : s = walk.shown  BY <1>1 DEF Walks
<1>3. pg.items \in Seq(Rows) /\ pg.offset \in Nat /\ pg.total \in Nat  BY <1>1 DEF Pages
<1>4. PICK S : S = Present /\ S \in SUBSET Nat /\ IsFiniteSet(S)  BY PresentIs
<1>5. TypeOK
  <2>1. \A i \in DOMAIN pg.items : pg.items[i] \in Rows  BY <1>3
  <2>2. QED  BY <1>1, <2>1 DEF TypeOK, Types, Pages, Walks, Rows
<1>6. NeverAborted /\ SizesTold  BY DEF LInv, Usable, NeverAborted, Sized
<1>7. ASSUME Walked
      PROVE  /\ pg.pc = "shown" /\ SeenOf(pg, walk) = s /\ Reached(pg) \in Nat
             /\ ~(Reached(pg) < pg.total)
  <2>1. pg.pc = "shown" /\ ~(pg.offset + Len(pg.items) < pg.total)
    BY <1>7 DEF Walked, Truncated
  <2>2. Reached(pg) = pg.offset + Len(pg.items) /\ SeenOf(pg, walk) = s
    BY <1>2, <2>1 DEF Reached, SeenOf, Early, Late
  <2>3. QED  BY <1>3, <2>1, <2>2
<1>8. ASSUME Walked, ~walk.torn, ~walk.dropped, walk.through = Present
      PROVE  walk.shown = Ordered
  <2>1. AtRest(pg, walk, S)  BY <1>4, <1>7, <1>8 DEF LInv, Walking
  <2>2. PICK t : t = Sorted(S) /\ t \in Seq(S) /\ Len(t) = Cardinality(S)  BY <1>4, SortedIs
  <2>3. PICK r \in Nat : r = Reached(pg)  BY <1>7, <1>8
  <2>4. PICK N \in Nat : N = Cardinality(S)  BY <1>4, BeforeIs
  <2>5. /\ Len(s) = r /\ r <= N /\ (\A i \in 1 .. r : s[i] = t[i]) /\ pg.total = N
    BY <1>7, <1>8, <2>1, <2>2, <2>3, <2>4 DEF AtRest
  <2>6. r = N  BY <1>7, <1>8, <2>3, <2>5
  <2>7. Len(s) = Len(t) /\ \A i \in 1 .. Len(s) : s[i] = t[i]  BY <2>2, <2>4, <2>5, <2>6
  <2>8. s = t
    <3>1. s = [i \in 1 .. Len(s) |-> s[i]] /\ t = [i \in 1 .. Len(t) |-> t[i]]  BY <2>2
    <3>2. QED  BY <2>7, <3>1
  <2>9. QED  BY <1>2, <1>4, <2>2, <2>8 DEF Ordered
<1>9. ASSUME Walked, ~walk.torn, ~walk.dropped
      PROVE  walk.through \subseteq {walk.shown[i] : i \in DOMAIN walk.shown}
  <2>1. Ahead(pg, walk, S)  BY <1>4, <1>7, <1>9 DEF LInv, Walking
  <2>2. pg.pc \notin Early  BY <1>7, <1>9 DEF Early
  <2>3. \A n \in walk.through : \E i \in 1 .. Len(s) : s[i] = n
    BY <1>7, <1>9, <2>1, <2>2 DEF Ahead
  <2>4. DOMAIN s = 1 .. Len(s)  OBVIOUS
  <2>5. QED  BY <1>2, <2>3, <2>4
<1>10. QED  BY <1>5, <1>6, <1>8, <1>9 DEF WalkExact, CreatesHideNothing

\* In every behaviour of the catalog tools the invariant of the listing holds.
LEMMA ListingHolds == CatalogSpec => []LInv
<1>1. CatalogInit => LInv  BY LInvInit DEF CatalogInit, ListingOff
<1>2. LInv /\ [CatalogNext]_<<part, vars, rVars, cVars>> => LInv'
  BY LInvKept, LInvNext DEF CatalogNext
<1>3. QED  BY <1>1, <1>2, PTL DEF CatalogSpec

\* A walk over a catalog at rest shows every relation exactly once, in order,
\* and stops (Listing.tla).
THEOREM WalksExact == CatalogSpec => []WalkExact
<1>1. LInv => WalkExact  BY WalkedIs
<1>2. QED  BY <1>1, ListingHolds, PTL

\* Relations created during a walk never hide one that was there throughout
\* (Listing.tla).
THEOREM NothingHidden == CatalogSpec => []CreatesHideNothing
<1>1. LInv => CreatesHideNothing  BY WalkedIs
<1>2. QED  BY <1>1, ListingHolds, PTL

\* What a page says about sizes is true as far as one call can tell
\* (Listing.tla).
THEOREM SizesAreTold == CatalogSpec => []SizesTold
<1>1. LInv => SizesTold  BY WalkedIs
<1>2. QED  BY <1>1, ListingHolds, PTL

-----------------------------------------------------------------------------
(* The other tools *)

\* The statements of each body.
Body(t) ==
  CASE t = "describe" -> {"lookup", "columns", "pk", "indexes", "fks", "viewdef", "version",
                          "ht", "dims", "size", "compview", "compset", "policies", "cagg"}
    [] t = "sample"   -> {"lookup", "version", "timedim", "select"}
    [] t = "chunks"   -> {"version", "exists", "chunks"}
    [] t = "objects"  -> {"version", "objects"}
    [] t = "info"     -> {"facts", "exts", "version", "license", "infoview", "counts"}
    [] t = "schemas"  -> {"schemas"}
    [] t = "probe"    -> {"versions"}

\* How a body ends without a failure.
Answers == {"ok", "not_found", "no_timescaledb"}

Jobs == [tool: R!Tools, at: R!Stmts \cup R!Outcomes \cup {"idle"}, tx: BOOLEAN,
         refused: BOOLEAN, moved: BOOLEAN, ran: SUBSET R!Stmts, seen: R!Seen]

\* A body is at one of its own statements, in a usable transaction.
RTypes ==
  /\ cat \in R!Catalog /\ changes \in 1 .. MaxDDL + 1 /\ job \in Jobs
  /\ ~job.refused
  /\ job.at \in R!Stmts => job.tx /\ job.at \in Body(job.tool)

\* What the body of t knows, having learnt k, before it sends s, when the
\* catalog c has not changed under the call.
Sure(t, s, k, c) ==
  /\ t \in {"describe", "sample"} /\ s \in R!Stmts \ {"lookup"} =>
       c.oid # 0 /\ k.oid = c.oid /\ k.kind = c.kind
  /\ s = "viewdef" => c.kind = "view"
  /\ s \in {"ht", "dims", "size", "compview", "compset", "policies", "cagg", "timedim",
            "exists", "chunks", "objects", "license", "infoview", "counts"} => c.ext
  /\ s \in {"dims", "size", "compview", "compset", "policies", "chunks"} => c.hyper
  /\ s = "compset" => c.comp
  /\ s = "counts" => c.views

\* The statements before s in the body of t.
Prior(t, s, c) ==
  LET view == IF c.kind = "view" THEN {"viewdef"} ELSE {}
      comp == IF c.comp THEN {"compset"} ELSE {}
      hyper == IF c.hyper THEN {"dims", "size", "compview", "policies"} \cup comp ELSE {}
      rel == {"lookup", "columns", "pk", "indexes", "fks"} \cup view
      timescale == rel \cup {"version", "ht"}
  IN  CASE t = "describe" ->
             (CASE s = "lookup"   -> {}
                [] s = "columns"  -> {"lookup"}
                [] s = "pk"       -> {"lookup", "columns"}
                [] s = "indexes"  -> {"lookup", "columns", "pk"}
                [] s = "fks"      -> {"lookup", "columns", "pk", "indexes"}
                [] s = "viewdef"  -> {"lookup", "columns", "pk", "indexes", "fks"}
                [] s = "version"  -> rel
                [] s = "ht"       -> rel \cup {"version"}
                [] s = "dims"     -> timescale
                [] s = "size"     -> timescale \cup {"dims"}
                [] s = "compview" -> timescale \cup {"dims", "size"}
                [] s = "compset"  -> timescale \cup {"dims", "size", "compview"}
                [] s = "policies" -> timescale \cup {"dims", "size", "compview"} \cup comp
                [] s = "cagg"     -> timescale \cup hyper)
        [] t = "sample" ->
             (CASE s = "lookup"  -> {}
                [] s = "version" -> {"lookup"}
                [] s = "timedim" -> {"lookup", "version"}
                [] s = "select"  -> {"lookup", "version"}
                                      \cup (IF c.ext THEN {"timedim"} ELSE {}))
        [] t = "chunks" ->
             (CASE s = "version" -> {}
                [] s = "exists"  -> {"version"}
                [] s = "chunks"  -> {"version", "exists"})
        [] t = "objects" ->
             (CASE s = "version" -> {}
                [] s = "objects" -> {"version"})
        [] t = "info" ->
             (CASE s = "facts"    -> {}
                [] s = "exts"     -> {"facts"}
                [] s = "version"  -> {"facts", "exts"}
                [] s = "license"  -> {"facts", "exts", "version"}
                [] s = "infoview" -> {"facts", "exts", "version", "license"}
                [] s = "counts"   -> {"facts", "exts", "version", "license", "infoview"})
        [] OTHER -> {}

\* A body that sends s next, or has ended with s, has asked for what it should.
Course(t, s, k, ran) ==
  /\ Sure(t, s, k, cat)
  /\ s \in R!Stmts => ran = Prior(t, s, cat)
  /\ s \in Answers => <<s, ran>> = R!Expected

\* A call under which the catalog has not changed is on course, and misses only
\* what an extension without its views does not have.
OnCourse ==
  ~job.moved =>
    /\ Course(job.tool, job.at, job.seen, job.ran)
    /\ job.at = "undefined" => cat.ext /\ ~cat.views /\ job.tool # "info"

RInv == RTypes /\ OnCourse

\* What a body learns from the answer of a statement.
LEMMA LearnIs ==
  ASSUME RTypes, NEW s \in R!Stmts, NEW k, k = R!Learn(s)
  PROVE  /\ k \in R!Seen
         /\ s = "lookup" => k.oid = cat.oid /\ k.kind = cat.kind
         /\ s # "lookup" => k.oid = job.seen.oid /\ k.kind = job.seen.kind
         /\ s = "version" => k.ext = cat.ext
         /\ s \in {"ht", "exists"} => k.hyper = cat.hyper
         /\ s = "compview" => k.comp = cat.comp
         /\ s = "infoview" => k.views = cat.views
<1>1. /\ job.seen \in R!Seen /\ cat.oid \in 0 .. MaxDDL + 1 /\ cat.kind \in {"table", "view"}
      /\ cat.hyper \in BOOLEAN /\ cat.ext \in BOOLEAN /\ cat.views \in BOOLEAN
      /\ cat.comp \in BOOLEAN
  BY DEF RTypes, Jobs, R!Catalog
<1>2. PICK j : j = job.seen /\ j \in R!Seen  BY <1>1
<1>3. CASE s = "lookup"
  <2>1. k = [j EXCEPT !.oid = cat.oid, !.kind = cat.kind]  BY <1>2, <1>3, Zenon DEF R!Learn
  <2>2. QED  BY <1>1, <1>2, <1>3, <2>1 DEF R!Seen
<1>4. CASE s = "version"
  <2>1. k = [j EXCEPT !.ext = cat.ext]  BY <1>2, <1>4 DEF R!Learn
  <2>2. QED  BY <1>1, <1>2, <1>4, <2>1 DEF R!Seen
<1>5. CASE s \in {"ht", "exists"}
  <2>1. k = [j EXCEPT !.hyper = cat.hyper]  BY <1>2, <1>5 DEF R!Learn
  <2>2. QED  BY <1>1, <1>2, <1>5, <2>1 DEF R!Seen
<1>6. CASE s = "compview"
  <2>1. k = [j EXCEPT !.comp = cat.comp]  BY <1>2, <1>6 DEF R!Learn
  <2>2. QED  BY <1>1, <1>2, <1>6, <2>1 DEF R!Seen
<1>7. CASE s = "infoview"
  <2>1. k = [j EXCEPT !.views = cat.views]  BY <1>2, <1>7 DEF R!Learn
  <2>2. QED  BY <1>1, <1>2, <1>7, <2>1 DEF R!Seen
<1>8. CASE s \notin {"lookup", "version", "ht", "exists", "compview", "infoview"}
  <2>1. k = j  BY <1>2, <1>8 DEF R!Learn
  <2>2. QED  BY <1>1, <1>2, <1>8, <2>1 DEF R!Seen
<1>9. QED  BY <1>3, <1>4, <1>5, <1>6, <1>7, <1>8

\* DescribeTable keeps to its course.
LEMMA DescribeCourse ==
  ASSUME RTypes, job.tool = "describe", NEW s \in Body("describe"), NEW j,
         Course("describe", s, job.seen, j), NEW k, k = R!Learn(s), NEW a, a = R!DescribeTable(s, k)
  PROVE  Course("describe", a, k, j \cup {s})
<1>1. s \in R!Stmts  BY DEF Body, R!Stmts
<1>2. Sure("describe", s, job.seen, cat) /\ j = Prior("describe", s, cat)  BY <1>1 DEF Course
<1>3. CASE s = "lookup"
  <2>1. k.oid = cat.oid /\ k.kind = cat.kind  BY <1>1, <1>3, LearnIs
  <2>2. CASE cat.oid = 0
    <3>1. a = "not_found"  BY <1>3, <2>1, <2>2, Zenon DEF R!DescribeTable
    <3>2. j = {}  BY <1>2, <1>3, Zenon DEF Prior
    <3>3. R!Expected = <<"not_found", {"lookup"}>>  BY <2>2 DEF R!Expected
    <3>4. QED  BY <1>3, <3>1, <3>2, <3>3 DEF Course, Sure, R!Stmts
  <2>3. CASE cat.oid # 0
    <3>1. a = "columns"  BY <1>3, <2>1, <2>3, Zenon DEF R!DescribeTable
    <3>2. j = {} /\ Prior("describe", "columns", cat) = {"lookup"}  BY <1>2, <1>3, Zenon DEF Prior
    <3>3. QED  BY <1>3, <2>1, <2>3, <3>1, <3>2 DEF Course, Sure, Answers
  <2>4. QED  BY <2>2, <2>3
<1>4. s # "lookup" => cat.oid # 0 /\ k.oid = cat.oid /\ k.kind = cat.kind
  <2>1. s # "lookup" => k.oid = job.seen.oid /\ k.kind = job.seen.kind  BY <1>1, LearnIs
  <2>2. QED  BY <1>1, <1>2, <2>1 DEF Sure
<1>5. /\ cat.kind \in {"table", "view"} /\ cat.hyper \in BOOLEAN
      /\ cat.ext \in BOOLEAN /\ cat.comp \in BOOLEAN
      /\ (cat.hyper => cat.kind = "table" /\ cat.views) /\ (cat.views => cat.ext)
  BY DEF RTypes, R!Catalog
<1>6. CASE s = "columns"
  <2>1. a = "pk"  BY <1>6 DEF R!DescribeTable
  <2>2. QED  BY <1>1, <1>2, <1>4, <1>5, <1>6, <2>1 DEF Course, Sure, Answers, Prior
<1>7. CASE s = "pk"
  <2>1. a = "indexes"  BY <1>7 DEF R!DescribeTable
  <2>2. QED  BY <1>1, <1>2, <1>4, <1>5, <1>7, <2>1 DEF Course, Sure, Answers, Prior
<1>8. CASE s = "indexes"
  <2>1. a = "fks"  BY <1>8 DEF R!DescribeTable
  <2>2. QED  BY <1>1, <1>2, <1>4, <1>5, <1>8, <2>1 DEF Course, Sure, Answers, Prior
<1>9. CASE s = "viewdef"
  <2>1. a = "version"  BY <1>9 DEF R!DescribeTable
  <2>2. QED  BY <1>1, <1>2, <1>4, <1>5, <1>9, <2>1 DEF Course, Sure, Answers, Prior
<1>10. CASE s = "dims"
  <2>1. a = "size"  BY <1>10 DEF R!DescribeTable
  <2>2. QED  BY <1>1, <1>2, <1>4, <1>5, <1>10, <2>1 DEF Course, Sure, Answers, Prior
<1>11. CASE s = "size"
  <2>1. a = "compview"  BY <1>11 DEF R!DescribeTable
  <2>2. QED  BY <1>1, <1>2, <1>4, <1>5, <1>11, <2>1 DEF Course, Sure, Answers, Prior
<1>12. CASE s = "compset"
  <2>1. a = "policies"  BY <1>12 DEF R!DescribeTable
  <2>2. QED  BY <1>1, <1>2, <1>4, <1>5, <1>12, <2>1 DEF Course, Sure, Answers, Prior
<1>13. CASE s = "policies"
  <2>1. a = "cagg"  BY <1>13 DEF R!DescribeTable
  <2>2. QED  BY <1>1, <1>2, <1>4, <1>5, <1>13, <2>1 DEF Course, Sure, Answers, Prior
<1>14. CASE s = "fks"
  <2>1. k.kind = cat.kind  BY <1>1, <1>4, <1>14, LearnIs
  <2>2. a = IF cat.kind = "view" THEN "viewdef" ELSE "version"  BY <1>14, <2>1 DEF R!DescribeTable
  <2>3. CASE cat.kind = "view"
    BY <1>1, <1>2, <1>4, <1>5, <1>14, <2>2, <2>3 DEF Course, Sure, Answers, Prior
  <2>4. CASE cat.kind # "view"
    BY <1>1, <1>2, <1>4, <1>5, <1>14, <2>2, <2>4 DEF Course, Sure, Answers, Prior
  <2>5. QED  BY <2>3, <2>4
<1>15. CASE s = "ht"
  <2>1. k.hyper = cat.hyper  BY <1>1, <1>4, <1>15, LearnIs
  <2>2. a = IF cat.hyper THEN "dims" ELSE "cagg"  BY <1>15, <2>1 DEF R!DescribeTable
  <2>3. CASE cat.hyper
    BY <1>1, <1>2, <1>4, <1>5, <1>15, <2>2, <2>3 DEF Course, Sure, Answers, Prior
  <2>4. CASE ~cat.hyper
    BY <1>1, <1>2, <1>4, <1>5, <1>15, <2>2, <2>4 DEF Course, Sure, Answers, Prior
  <2>5. QED  BY <2>3, <2>4
<1>16. CASE s = "compview"
  <2>1. k.comp = cat.comp  BY <1>1, <1>4, <1>16, LearnIs
  <2>2. a = IF cat.comp THEN "compset" ELSE "policies"  BY <1>16, <2>1 DEF R!DescribeTable
  <2>3. CASE cat.comp  BY <1>1, <1>2, <1>4, <1>5, <1>16, <2>2, <2>3 DEF Course, Sure, Answers, Prior
  <2>4. CASE ~cat.comp
    BY <1>1, <1>2, <1>4, <1>5, <1>16, <2>2, <2>4 DEF Course, Sure, Answers, Prior
  <2>5. QED  BY <2>3, <2>4
<1>17. CASE s = "version"
  <2>1. k.ext = cat.ext  BY <1>1, <1>4, <1>17, LearnIs
  <2>2. a = IF cat.ext THEN "ht" ELSE "ok"  BY <1>17, <2>1 DEF R!DescribeTable
  <2>3. CASE cat.ext  BY <1>1, <1>2, <1>4, <1>5, <1>17, <2>2, <2>3 DEF Course, Sure, Answers, Prior
  <2>4. CASE ~cat.ext
    <3>1. a = "ok"  BY <2>2, <2>4
    <3>2. j \cup {s} = {"lookup", "columns", "pk", "indexes", "fks", "version"}
                       \cup (IF cat.kind = "view" THEN {"viewdef"} ELSE {})
      BY <1>2, <1>17 DEF Prior
    <3>3. R!Expected = <<"ok", j \cup {s}>>  BY <1>4, <1>5, <1>17, <2>4, <3>2 DEF R!Expected
    <3>4. QED  BY <3>1, <3>3 DEF Course, Sure, R!Stmts
  <2>5. QED  BY <2>3, <2>4
<1>18. CASE s = "cagg"
  <2>1. a = "ok"  BY <1>18 DEF R!DescribeTable
  <2>2. cat.ext  BY <1>2, <1>18 DEF Sure
  <2>3. j \cup {s} = {"lookup", "columns", "pk", "indexes", "fks", "version"} \cup {"ht", "cagg"}
             \cup (IF cat.kind = "view" THEN {"viewdef"} ELSE {})
             \cup (IF cat.hyper THEN {"dims", "size", "compview", "policies"} ELSE {})
             \cup (IF cat.hyper /\ cat.comp THEN {"compset"} ELSE {})
    BY <1>2, <1>18 DEF Prior
  <2>4. R!Expected = <<"ok", j \cup {s}>>
    BY <1>4, <1>18, <2>2, <2>3 DEF R!Expected
  <2>5. QED  BY <2>1, <2>4 DEF Course, Sure, R!Stmts
<1>19. QED
  BY <1>3, <1>6, <1>7, <1>8, <1>9, <1>10, <1>11, <1>12, <1>13, <1>14, <1>15,
     <1>16, <1>17, <1>18 DEF Body

\* SampleRows keeps to its course.
LEMMA SampleCourse ==
  ASSUME RTypes, job.tool = "sample", NEW s \in Body("sample"), NEW j,
         Course("sample", s, job.seen, j), NEW k, k = R!Learn(s), NEW a, a = R!SampleRows(s, k)
  PROVE  Course("sample", a, k, j \cup {s})
<1>1. s \in R!Stmts  BY DEF Body, R!Stmts
<1>2. Sure("sample", s, job.seen, cat) /\ j = Prior("sample", s, cat)  BY <1>1 DEF Course
<1>3. /\ cat.ext \in BOOLEAN /\ cat.hyper \in BOOLEAN /\ cat.views \in BOOLEAN
      /\ (cat.views => cat.ext) /\ (cat.hyper => cat.views)
  BY DEF RTypes, R!Catalog
<1>4. s # "lookup" => cat.oid # 0 /\ k.oid = cat.oid /\ k.kind = cat.kind
  <2>1. s # "lookup" => k.oid = job.seen.oid /\ k.kind = job.seen.kind  BY <1>1, LearnIs
  <2>2. QED  BY <1>1, <1>2, <2>1 DEF Sure
<1>5. CASE s = "lookup"
  <2>1. k.oid = cat.oid /\ k.kind = cat.kind  BY <1>1, <1>5, LearnIs
  <2>2. a = IF cat.oid = 0 THEN "not_found" ELSE "version"  BY <1>5, <2>1 DEF R!SampleRows
  <2>3. CASE cat.oid = 0
    <3>1. R!Expected = <<"not_found", j \cup {s}>>  BY <1>2, <1>5, <2>3 DEF R!Expected, Prior
    <3>2. QED  BY <2>2, <2>3, <3>1 DEF Course, Sure, R!Stmts
  <2>4. CASE cat.oid # 0  BY <1>1, <1>2, <1>5, <2>1, <2>2, <2>4 DEF Course, Sure, Answers, Prior
  <2>5. QED  BY <2>3, <2>4
<1>6. CASE s = "version"
  <2>1. k.ext = cat.ext  BY <1>1, <1>6, LearnIs
  <2>2. a = IF cat.ext THEN "timedim" ELSE "select"  BY <1>6, <2>1 DEF R!SampleRows
  <2>3. CASE cat.ext  BY <1>1, <1>2, <1>3, <1>6, <2>2, <2>3, <1>4 DEF Course, Sure, Answers, Prior
  <2>4. CASE ~cat.ext  BY <1>1, <1>2, <1>3, <1>6, <2>2, <2>4, <1>4 DEF Course, Sure, Answers, Prior
  <2>5. QED  BY <2>3, <2>4
<1>7. CASE s = "timedim"
  <2>1. a = "select"  BY <1>7 DEF R!SampleRows
  <2>2. QED  BY <1>1, <1>2, <1>3, <1>7, <2>1, <1>4 DEF Course, Sure, Answers, Prior
<1>8. CASE s = "select"
  <2>1. a = "ok"  BY <1>8 DEF R!SampleRows
  <2>2. R!Expected = <<"ok", j \cup {s}>>  BY <1>2, <1>3, <1>8, <1>4 DEF R!Expected, Prior, Sure
  <2>3. QED  BY <2>1, <2>2 DEF Course, Sure, R!Stmts
<1>9. QED  BY <1>5, <1>6, <1>7, <1>8 DEF Body

\* Chunks keeps to its course.
LEMMA ChunksCourse ==
  ASSUME RTypes, job.tool = "chunks", NEW s \in Body("chunks"), NEW j,
         Course("chunks", s, job.seen, j), NEW k, k = R!Learn(s), NEW a, a = R!Chunks(s, k)
  PROVE  Course("chunks", a, k, j \cup {s})
<1>1. s \in R!Stmts  BY DEF Body, R!Stmts
<1>2. Sure("chunks", s, job.seen, cat) /\ j = Prior("chunks", s, cat)  BY <1>1 DEF Course
<1>3. /\ cat.ext \in BOOLEAN /\ cat.hyper \in BOOLEAN /\ cat.views \in BOOLEAN
      /\ (cat.views => cat.ext) /\ (cat.hyper => cat.views)
  BY DEF RTypes, R!Catalog
<1>4. CASE s = "version"
  <2>1. k.ext = cat.ext  BY <1>1, <1>4, LearnIs
  <2>2. a = IF cat.ext THEN "exists" ELSE "no_timescaledb"  BY <1>4, <2>1 DEF R!Chunks
  <2>3. CASE cat.ext  BY <1>1, <1>2, <1>3, <1>4, <2>2, <2>3 DEF Course, Sure, Answers, Prior
  <2>4. CASE ~cat.ext
    <3>1. a = "no_timescaledb"  BY <2>2, <2>4
    <3>2. R!Expected = <<"no_timescaledb", j \cup {s}>>
      BY <1>2, <1>3, <1>4, <2>4 DEF R!Expected, Prior, Sure
    <3>3. QED  BY <3>1, <3>2 DEF Course, Sure, R!Stmts
  <2>5. QED  BY <2>3, <2>4
<1>5. CASE s = "exists"
  <2>1. k.hyper = cat.hyper  BY <1>1, <1>5, LearnIs
  <2>2. a = IF cat.hyper THEN "chunks" ELSE "not_found"  BY <1>5, <2>1 DEF R!Chunks
  <2>3. CASE cat.hyper  BY <1>1, <1>2, <1>3, <1>5, <2>2, <2>3 DEF Course, Sure, Answers, Prior
  <2>4. CASE ~cat.hyper
    <3>1. a = "not_found"  BY <2>2, <2>4
    <3>2. R!Expected = <<"not_found", j \cup {s}>>
      BY <1>2, <1>3, <1>5, <2>4 DEF R!Expected, Prior, Sure
    <3>3. QED  BY <3>1, <3>2 DEF Course, Sure, R!Stmts
  <2>5. QED  BY <2>3, <2>4
<1>6. CASE s = "chunks"
  <2>1. a = "ok"  BY <1>6 DEF R!Chunks
  <2>2. R!Expected = <<"ok", j \cup {s}>>  BY <1>2, <1>3, <1>6 DEF R!Expected, Prior, Sure
  <2>3. QED  BY <2>1, <2>2 DEF Course, Sure, R!Stmts
<1>7. QED  BY <1>4, <1>5, <1>6 DEF Body

\* ContinuousAggregates and Jobs keep to their course.
LEMMA ObjectsCourse ==
  ASSUME RTypes, job.tool = "objects", NEW s \in Body("objects"), NEW j,
         Course("objects", s, job.seen, j), NEW k, k = R!Learn(s), NEW a, a = R!Objects(s, k)
  PROVE  Course("objects", a, k, j \cup {s})
<1>1. s \in R!Stmts  BY DEF Body, R!Stmts
<1>2. Sure("objects", s, job.seen, cat) /\ j = Prior("objects", s, cat)  BY <1>1 DEF Course
<1>3. /\ cat.ext \in BOOLEAN /\ cat.hyper \in BOOLEAN /\ cat.views \in BOOLEAN
      /\ (cat.views => cat.ext) /\ (cat.hyper => cat.views)
  BY DEF RTypes, R!Catalog
<1>4. CASE s = "version"
  <2>1. k.ext = cat.ext  BY <1>1, <1>4, LearnIs
  <2>2. a = IF cat.ext THEN "objects" ELSE "no_timescaledb"  BY <1>4, <2>1 DEF R!Objects
  <2>3. CASE cat.ext  BY <1>1, <1>2, <1>3, <1>4, <2>2, <2>3 DEF Course, Sure, Answers, Prior
  <2>4. CASE ~cat.ext
    <3>1. a = "no_timescaledb"  BY <2>2, <2>4
    <3>2. R!Expected = <<"no_timescaledb", j \cup {s}>>
      BY <1>2, <1>3, <1>4, <2>4 DEF R!Expected, Prior, Sure
    <3>3. QED  BY <3>1, <3>2 DEF Course, Sure, R!Stmts
  <2>5. QED  BY <2>3, <2>4
<1>5. CASE s = "objects"
  <2>1. a = "ok"  BY <1>5 DEF R!Objects
  <2>2. R!Expected = <<"ok", j \cup {s}>>  BY <1>2, <1>3, <1>5 DEF R!Expected, Prior, Sure
  <2>3. QED  BY <2>1, <2>2 DEF Course, Sure, R!Stmts
<1>6. QED  BY <1>4, <1>5 DEF Body

\* Info keeps to its course.
LEMMA InfoCourse ==
  ASSUME RTypes, job.tool = "info", NEW s \in Body("info"), NEW j,
         Course("info", s, job.seen, j), NEW k, k = R!Learn(s), NEW a, a = R!Info(s, k)
  PROVE  Course("info", a, k, j \cup {s})
<1>1. s \in R!Stmts  BY DEF Body, R!Stmts
<1>2. Sure("info", s, job.seen, cat) /\ j = Prior("info", s, cat)  BY <1>1 DEF Course
<1>3. /\ cat.ext \in BOOLEAN /\ cat.hyper \in BOOLEAN /\ cat.views \in BOOLEAN
      /\ (cat.views => cat.ext) /\ (cat.hyper => cat.views)
  BY DEF RTypes, R!Catalog
<1>4. CASE s = "facts"
  <2>1. a = "exts"  BY <1>4 DEF R!Info
  <2>2. QED  BY <1>1, <1>2, <1>3, <1>4, <2>1 DEF Course, Sure, Answers, Prior
<1>5. CASE s = "exts"
  <2>1. a = "version"  BY <1>5 DEF R!Info
  <2>2. QED  BY <1>1, <1>2, <1>3, <1>5, <2>1 DEF Course, Sure, Answers, Prior
<1>6. CASE s = "version"
  <2>1. k.ext = cat.ext  BY <1>1, <1>6, LearnIs
  <2>2. a = IF cat.ext THEN "license" ELSE "ok"  BY <1>6, <2>1 DEF R!Info
  <2>3. CASE cat.ext  BY <1>1, <1>2, <1>3, <1>6, <2>2, <2>3 DEF Course, Sure, Answers, Prior
  <2>4. CASE ~cat.ext
    <3>1. a = "ok"  BY <2>2, <2>4
    <3>2. R!Expected = <<"ok", j \cup {s}>>  BY <1>2, <1>3, <1>6, <2>4 DEF R!Expected, Prior, Sure
    <3>3. QED  BY <3>1, <3>2 DEF Course, Sure, R!Stmts
  <2>5. QED  BY <2>3, <2>4
<1>7. CASE s = "license"
  <2>1. a = "infoview"  BY <1>7 DEF R!Info
  <2>2. QED  BY <1>1, <1>2, <1>3, <1>7, <2>1 DEF Course, Sure, Answers, Prior
<1>8. CASE s = "infoview"
  <2>1. k.views = cat.views  BY <1>1, <1>8, LearnIs
  <2>2. a = IF cat.views THEN "counts" ELSE "ok"  BY <1>8, <2>1 DEF R!Info
  <2>3. CASE cat.views  BY <1>1, <1>2, <1>3, <1>8, <2>2, <2>3 DEF Course, Sure, Answers, Prior
  <2>4. CASE ~cat.views
    <3>1. a = "ok"  BY <2>2, <2>4
    <3>2. R!Expected = <<"ok", j \cup {s}>>  BY <1>2, <1>3, <1>8, <2>4 DEF R!Expected, Prior, Sure
    <3>3. QED  BY <3>1, <3>2 DEF Course, Sure, R!Stmts
  <2>5. QED  BY <2>3, <2>4
<1>9. CASE s = "counts"
  <2>1. a = "ok"  BY <1>9 DEF R!Info
  <2>2. R!Expected = <<"ok", j \cup {s}>>  BY <1>2, <1>3, <1>9 DEF R!Expected, Prior, Sure
  <2>3. QED  BY <2>1, <2>2 DEF Course, Sure, R!Stmts
<1>10. QED  BY <1>4, <1>5, <1>6, <1>7, <1>8, <1>9 DEF Body

\* The statement after s belongs to the body, or the body ends.
LEMMA AfterIs ==
  ASSUME NEW t \in R!Tools, NEW s \in Body(t), NEW k, NEW a, a = R!After(t, s, k)
  PROVE  a \in Body(t) \cup Answers
<1>1. CASE t = "describe"
  <2>1. a = R!DescribeTable(s, k)  BY <1>1 DEF R!After
  <2>2. QED  BY <1>1, <2>1 DEF R!DescribeTable, Body, Answers
<1>2. CASE t = "sample"
  <2>1. a = R!SampleRows(s, k)  BY <1>2 DEF R!After
  <2>2. QED  BY <1>2, <2>1 DEF R!SampleRows, Body, Answers
<1>3. CASE t = "chunks"
  <2>1. a = R!Chunks(s, k)  BY <1>3 DEF R!After
  <2>2. QED  BY <1>3, <2>1 DEF R!Chunks, Body, Answers
<1>4. CASE t = "objects"
  <2>1. a = R!Objects(s, k)  BY <1>4 DEF R!After
  <2>2. QED  BY <1>4, <2>1 DEF R!Objects, Body, Answers
<1>5. CASE t = "info"
  <2>1. a = R!Info(s, k)  BY <1>5 DEF R!After
  <2>2. QED  BY <1>5, <2>1 DEF R!Info, Body, Answers
<1>6. CASE t \in {"schemas", "probe"}
  <2>1. a = "ok"  BY <1>6 DEF R!After
  <2>2. QED  BY <2>1 DEF Answers
<1>7. QED  BY <1>1, <1>2, <1>3, <1>4, <1>5, <1>6 DEF R!Tools

\* A statement that runs keeps its body on course.
LEMMA CourseKept ==
  ASSUME RTypes, NEW t \in R!Tools, t = job.tool, NEW s \in Body(t), NEW j,
         Course(t, s, job.seen, j), NEW k, k = R!Learn(s), NEW a, a = R!After(t, s, k)
  PROVE  Course(t, a, k, j \cup {s})
<1>1. CASE t = "describe"
  <2>1. a = R!DescribeTable(s, k)  BY <1>1 DEF R!After
  <2>2. QED  BY <1>1, <2>1, DescribeCourse
<1>2. CASE t = "sample"
  <2>1. a = R!SampleRows(s, k)  BY <1>2 DEF R!After
  <2>2. QED  BY <1>2, <2>1, SampleCourse
<1>3. CASE t = "chunks"
  <2>1. a = R!Chunks(s, k)  BY <1>3 DEF R!After
  <2>2. QED  BY <1>3, <2>1, ChunksCourse
<1>4. CASE t = "objects"
  <2>1. a = R!Objects(s, k)  BY <1>4 DEF R!After
  <2>2. QED  BY <1>4, <2>1, ObjectsCourse
<1>5. CASE t = "info"
  <2>1. a = R!Info(s, k)  BY <1>5 DEF R!After
  <2>2. QED  BY <1>5, <2>1, InfoCourse
<1>6. CASE t \in {"schemas", "probe"}
  <2>1. a = "ok"  BY <1>6 DEF R!After
  <2>2. s = (IF t = "schemas" THEN "schemas" ELSE "versions")  BY <1>6 DEF Body
  <2>3. s \in R!Stmts  BY <2>2 DEF R!Stmts
  <2>4. j = {}  BY <1>6, <2>2, <2>3 DEF Course, Prior
  <2>5. R!Expected = <<"ok", j \cup {s}>>  BY <1>6, <2>2, <2>4 DEF R!Expected
  <2>6. QED  BY <1>6, <2>1, <2>5 DEF Course, Sure, R!Stmts
<1>7. QED  BY <1>1, <1>2, <1>3, <1>4, <1>5, <1>6 DEF R!Tools

\* A body stays on course while catalog and tool are the same.
LEMMA CourseSame ==
  ASSUME cat' = cat, job'.tool = job.tool, NEW s, NEW k, NEW ran, Course(job.tool, s, k, ran)
  PROVE  Course(job.tool, s, k, ran)'
<1>1. R!Expected' = R!Expected  BY DEF R!Expected
<1>2. QED  BY <1>1 DEF Course

\* A statement that runs keeps the invariant.
LEMMA StatementKeeps == ASSUME RInv, R!Statement  PROVE  RInv'
<1>1. RTypes /\ OnCourse /\ job \in Jobs  BY DEF RInv, RTypes
<1>2. PICK s : s = job.at  OBVIOUS
<1>3. PICK t \in R!Tools : t = job.tool  BY <1>1 DEF Jobs
<1>4. s \in R!Stmts /\ s \in Body(t) /\ job.tx  BY <1>1, <1>2, <1>3 DEF R!Statement, RTypes
<1>5. PICK k : k = R!Learn(s)  OBVIOUS
<1>6. PICK a : a = R!After(t, s, k)  OBVIOUS
<1>7. PICK ran : ran = job.ran \cup {s}  OBVIOUS
<1>8. cat' = cat /\ changes' = changes /\ job' = [job EXCEPT !.seen = k, !.ran = ran, !.at = a]
  BY <1>2, <1>3, <1>5, <1>6, <1>7 DEF R!Statement
<1>9. k \in R!Seen  BY <1>1, <1>4, <1>5, LearnIs
<1>10. a \in Body(t) \cup Answers  BY <1>4, <1>6, AfterIs
<1>11. Body(t) \subseteq R!Stmts  BY <1>3 DEF Body, R!Stmts, R!Tools
<1>12. ran \in SUBSET R!Stmts  BY <1>1, <1>4, <1>7 DEF Jobs
<1>13. a \in R!Stmts \cup R!Outcomes /\ (a \in R!Stmts => a \in Body(t)) /\ a # "undefined"
  <2>1. /\ Answers \subseteq R!Outcomes /\ Answers \cap R!Stmts = {}
        /\ "undefined" \notin R!Stmts \cup Answers
    BY DEF Answers, R!Outcomes, R!Stmts
  <2>2. QED  BY <1>10, <1>11, <2>1
<1>14. /\ job' \in Jobs /\ job'.tool = t /\ job'.at = a /\ job'.seen = k /\ job'.ran = ran
       /\ job'.tx = job.tx /\ job'.refused = job.refused /\ job'.moved = job.moved
  <2>1. PICK o : o = job /\ o \in Jobs  BY <1>1
  <2>2. PICK q : q = [o EXCEPT !.seen = k, !.ran = ran, !.at = a]  OBVIOUS
  <2>3. /\ q \in Jobs /\ q.tool = o.tool /\ q.at = a /\ q.seen = k /\ q.ran = ran
        /\ q.tx = o.tx /\ q.refused = o.refused /\ q.moved = o.moved
    BY <1>9, <1>12, <1>13, <2>1, <2>2 DEF Jobs
  <2>4. QED  BY <1>3, <1>8, <2>1, <2>2, <2>3
<1>15. RTypes'  BY <1>1, <1>4, <1>8, <1>13, <1>14 DEF RTypes
<1>16. ASSUME ~job'.moved  PROVE  Course(job.tool, a, k, ran)'
  <2>1. Course(t, s, job.seen, job.ran)  BY <1>1, <1>2, <1>3, <1>14, <1>16 DEF OnCourse
  <2>2. Course(t, a, k, ran)  BY <1>1, <1>3, <1>4, <1>5, <1>6, <1>7, <2>1, CourseKept
  <2>3. QED  BY <1>3, <1>8, <1>14, <2>2, CourseSame
<1>17. OnCourse'  BY <1>3, <1>13, <1>14, <1>16 DEF OnCourse
<1>18. QED  BY <1>15, <1>17 DEF RInv

\* In a catalog that has not changed, all a statement names is there, but for
\* the views of an extension that has none.
LEMMA PossibleIs ==
  ASSUME RInv, job.at \in R!Stmts, ~job.moved, ~R!Possible(job.at)
  PROVE  cat.ext /\ ~cat.views /\ job.tool # "info"
<1>1. RTypes /\ job \in Jobs /\ cat \in R!Catalog  BY DEF RInv, RTypes
<1>2. PICK s : s = job.at  OBVIOUS
<1>3. PICK t \in R!Tools : t = job.tool  BY <1>1 DEF Jobs
<1>4. s \in Body(t) /\ s \in R!Stmts  BY <1>1, <1>2, <1>3 DEF RTypes
<1>5. Sure(t, s, job.seen, cat)  BY <1>2, <1>3 DEF RInv, OnCourse, Course
<1>6. PICK o \in R!Needs(s) : ~R!Has(o)  BY <1>2 DEF R!Possible
<1>7. (cat.hyper => cat.oid # 0 /\ cat.views) /\ (cat.comp => cat.views) /\ (cat.views => cat.ext)
  BY <1>1 DEF R!Catalog
<1>8. /\ R!Has("relation") <=> cat.oid # 0
      /\ R!Has("definition") <=> cat.oid = job.seen.oid
      /\ R!Has("ext") <=> cat.ext
      /\ R!Has("views") <=> cat.views
      /\ R!Has("comp") <=> cat.comp
  BY DEF R!Has
<1>9. CASE s \in {"ht", "dims", "policies", "cagg", "timedim", "exists", "objects", "counts"}
  <2>1. o = "views"  BY <1>6, <1>9 DEF R!Needs
  <2>2. ~cat.views  BY <1>6, <1>8, <2>1
  <2>3. cat.ext /\ s # "counts"  BY <1>5, <1>9, <2>2 DEF Sure
  <2>4. t # "info"  BY <1>4, <1>9, <2>3 DEF Body
  <2>5. QED  BY <1>3, <2>2, <2>3, <2>4
<1>10. CASE s = "size"
  <2>1. o \in {"ext", "relation"} /\ cat.hyper  BY <1>5, <1>6, <1>10 DEF R!Needs, Sure
  <2>2. QED  BY <1>6, <1>7, <1>8, <2>1
<1>11. CASE s = "compset"
  <2>1. o \in {"views", "comp", "relation"} /\ cat.hyper /\ cat.comp
    BY <1>5, <1>6, <1>11 DEF R!Needs, Sure
  <2>2. QED  BY <1>6, <1>7, <1>8, <2>1
<1>12. CASE s = "chunks"
  <2>1. o \in {"views", "ext", "relation"} /\ cat.hyper  BY <1>5, <1>6, <1>12 DEF R!Needs, Sure
  <2>2. QED  BY <1>6, <1>7, <1>8, <2>1
<1>13. CASE s = "select"
  <2>1. o = "relation"  BY <1>6, <1>13 DEF R!Needs
  <2>2. t = "sample"  BY <1>4, <1>13 DEF Body, R!Tools
  <2>3. cat.oid # 0  BY <1>4, <1>5, <1>13, <2>2 DEF Sure
  <2>4. QED  BY <1>6, <1>8, <2>1, <2>3
<1>14. CASE s = "viewdef"
  <2>1. o = "definition"  BY <1>6, <1>14 DEF R!Needs
  <2>2. t = "describe"  BY <1>4, <1>14 DEF Body, R!Tools
  <2>3. cat.oid = job.seen.oid  BY <1>4, <1>5, <1>14, <2>2 DEF Sure
  <2>4. QED  BY <1>6, <1>8, <2>1, <2>3
<1>15. CASE s \notin {"ht", "dims", "policies", "cagg", "timedim", "exists", "objects", "counts",
                     "size", "compset", "chunks", "select", "viewdef"}
  BY <1>6, <1>15 DEF R!Needs
<1>16. QED  BY <1>9, <1>10, <1>11, <1>12, <1>13, <1>14, <1>15

\* A failed statement keeps the invariant: it ends the body.
LEMMA FailKeeps == ASSUME RInv, R!Fail  PROVE  RInv'
<1>1. RTypes /\ OnCourse /\ job \in Jobs  BY DEF RInv, RTypes
<1>2. PICK e \in {"err", "undefined"} :
        /\ job' = [job EXCEPT !.tx = FALSE, !.refused = @ \/ ~job.tx, !.at = e]
        /\ e = "undefined" => ~R!Possible(job.at)
  BY DEF R!Fail, R!OnError
<1>3. job.at \in R!Stmts /\ cat' = cat /\ changes' = changes  BY DEF R!Fail
<1>4. job.tx = TRUE /\ job.refused = FALSE  BY <1>1, <1>3 DEF RTypes, Jobs
<1>5. job' = [job EXCEPT !.tx = FALSE, !.refused = FALSE, !.at = e]  BY <1>1, <1>2, <1>4 DEF Jobs
<1>6. /\ job' \in Jobs /\ job'.tool = job.tool /\ job'.at = e /\ job'.refused = FALSE
      /\ job'.moved = job.moved
  BY <1>1, <1>5 DEF Jobs, R!Outcomes
<1>7. e \notin R!Stmts /\ e \notin Answers  BY DEF R!Stmts, Answers
<1>8. RTypes'  BY <1>1, <1>3, <1>6, <1>7 DEF RTypes
<1>9. Course(job.tool, job.at, job.seen, job.ran)'
  BY <1>6, <1>7 DEF Course, Sure, R!Stmts
<1>10. ~job'.moved /\ e = "undefined" => cat.ext /\ ~cat.views /\ job.tool # "info"
  BY <1>2, <1>3, <1>6, PossibleIs
<1>11. OnCourse'  BY <1>3, <1>6, <1>9, <1>10 DEF OnCourse
<1>12. QED  BY <1>8, <1>11 DEF RInv

\* A new call keeps the invariant: it starts with the first statement of its body.
LEMMA BeginKeeps == ASSUME RInv, R!Begin  PROVE  RInv'
<1>1. RTypes  BY DEF RInv
<1>2. PICK k : k = [oid |-> 0, kind |-> "table", hyper |-> FALSE, ext |-> FALSE, views |-> FALSE,
                    comp |-> FALSE]
  OBVIOUS
<1>3. k \in R!Seen  BY <1>2, ListingAssumption DEF R!Seen
<1>4. PICK t \in R!Tools : job' = [tool |-> t, at |-> R!First(t), tx |-> TRUE, refused |-> FALSE,
                                   moved |-> FALSE, ran |-> {}, seen |-> k]
  BY <1>2 DEF R!Begin
<1>5. PICK s : s = R!First(t)  OBVIOUS
<1>6. /\ s \in R!Stmts /\ s \in Body(t)
      /\ s \in {"lookup", "version", "facts", "schemas", "versions"}
      /\ (t \in {"describe", "sample"} => s = "lookup")
  BY <1>5 DEF R!First, R!Stmts, R!Tools, Body
<1>7. Prior(t, s, cat) = {}  BY <1>5 DEF R!First, R!Tools, Prior
<1>8. cat' = cat /\ changes' = changes  BY DEF R!Begin
<1>9. /\ job' \in Jobs /\ job'.tool = t /\ job'.at = s /\ job'.tx = TRUE /\ job'.refused = FALSE
      /\ job'.ran = {} /\ job'.seen = k
  BY <1>3, <1>4, <1>5, <1>6 DEF Jobs
<1>10. RTypes'  BY <1>1, <1>6, <1>8, <1>9 DEF RTypes
<1>11. Course(job.tool, job.at, job.seen, job.ran)'
  BY <1>6, <1>7, <1>8, <1>9 DEF Course, Sure, Answers
<1>12. s # "undefined"  BY <1>6
<1>13. QED  BY <1>9, <1>10, <1>11, <1>12 DEF RInv, OnCourse

\* A change of the catalog keeps the invariant: the call is told apart from then on.
LEMMA ChangeKeeps == ASSUME RInv, R!Change  PROVE  RInv'
<1>1. RTypes /\ job \in Jobs  BY DEF RInv, RTypes
<1>2. job' = [job EXCEPT !.moved = TRUE] /\ cat' \in R!Catalog  BY DEF R!Change
<1>3. /\ job' \in Jobs /\ job'.tool = job.tool /\ job'.at = job.at /\ job'.tx = job.tx
      /\ job'.refused = job.refused /\ job'.moved = TRUE
  BY <1>1, <1>2 DEF Jobs
<1>4. changes' \in 1 .. MaxDDL + 1
  <2>1. changes <= MaxDDL /\ changes' = changes + 1 /\ changes \in 1 .. MaxDDL + 1
    BY <1>1 DEF R!Change, RTypes
  <2>2. QED  BY <2>1, ListingAssumption
<1>5. RTypes'  BY <1>1, <1>2, <1>3, <1>4 DEF RTypes
<1>6. OnCourse'  BY <1>3 DEF OnCourse
<1>7. QED  BY <1>5, <1>6 DEF RInv

\* The invariant of the bodies holds initially.
LEMMA RInvInit == ASSUME R!Init  PROVE  RInv
<1>1. PICK k : k = [oid |-> 0, kind |-> "table", hyper |-> FALSE, ext |-> FALSE, views |-> FALSE,
                    comp |-> FALSE]
  OBVIOUS
<1>2. k \in R!Seen  BY <1>1, ListingAssumption DEF R!Seen
<1>3. job = [tool |-> "info", at |-> "idle", tx |-> TRUE, refused |-> FALSE, moved |-> FALSE,
             ran |-> {}, seen |-> k]
  BY <1>1 DEF R!Init
<1>4. job \in Jobs /\ job.at = "idle" /\ job.refused = FALSE
  BY <1>2, <1>3 DEF Jobs, R!Tools
<1>5. cat \in R!Catalog /\ changes \in 1 .. MaxDDL + 1  BY ListingAssumption DEF R!Init
<1>6. "idle" \notin R!Stmts  BY DEF R!Stmts
<1>7. RTypes  BY <1>4, <1>5, <1>6 DEF RTypes
<1>8. OnCourse  BY <1>4, <1>6 DEF OnCourse, Course, Sure, Answers, R!Stmts
<1>9. QED  BY <1>7, <1>8 DEF RInv

\* A step of the listing leaves the bodies alone.
LEMMA RInvKept == ASSUME RInv, UNCHANGED rVars  PROVE  RInv'
<1>1. cat' = cat /\ changes' = changes /\ job' = job  BY DEF rVars
<1>2. R!Expected' = R!Expected  BY <1>1 DEF R!Expected
<1>3. QED  BY <1>1, <1>2 DEF RInv, RTypes, OnCourse, Course

\* In every behaviour of the catalog tools the invariant of the bodies holds.
LEMMA ReadsHold == CatalogSpec => []RInv
<1>1. CatalogInit => RInv  BY RInvInit DEF CatalogInit, ReadsOff
<1>2. RInv /\ [CatalogNext]_<<part, vars, rVars, cVars>> => RInv'
  BY RInvKept, BeginKeeps, StatementKeeps, FailKeeps, ChangeKeeps DEF CatalogNext, R!Next
<1>3. QED  BY <1>1, <1>2, PTL DEF CatalogSpec

\* Every variable has its type, and no body of a catalog tool sends a statement
\* in a transaction that an earlier failure aborted (MCCatalog.tla).
THEOREM NoneAborted == CatalogSpec => []NothingAborted
<1>1. LInv => TypeOK /\ NeverAborted  BY WalkedIs
<1>2. RInv => R!TypeOK /\ R!NeverAborted  BY DEF RInv, RTypes, Jobs, R!TypeOK, R!NeverAborted
<1>3. LInv /\ RInv => NothingAborted  BY <1>1, <1>2 DEF NothingAborted
<1>4. QED  BY <1>3, ListingHolds, ReadsHold, PTL

\* A tool trips over a missing object only when the catalog changed under it
\* (CatalogReads.tla).
THEOREM NoneMissing == CatalogSpec => []NothingMissing
<1>1. RInv => NothingMissing  BY DEF RInv, OnCourse, NothingMissing, R!NothingMissing
<1>2. QED  BY <1>1, ReadsHold, PTL

\* A call that met no failure and no change has asked for, and answered, exactly
\* what its tool describes (CatalogReads.tla).
THEOREM AllAnswersTrue == CatalogSpec => []AnswersTrue
<1>1. RInv => AnswersTrue
  BY DEF RInv, OnCourse, Course, Answers, AnswersTrue, R!AnswersTrue
<1>2. QED  BY <1>1, ReadsHold, PTL

-----------------------------------------------------------------------------
(* The invariant of the row collector *)


\* The clamped bound, once a body has started.
Clamped == pc # "done" \/ out # "none" => max = C!clampRows(asked)

\* A result is open only while collectRows or Explain reads it.
Streaming == ~clash /\ (open => pc \in {"loop", "close"})

\* Counters follow the stream row by row until the loop ends.
InLoop ==
  /\ streamed <= C!Offered
  /\ pc \in {"declare", "fetch"} => streamed = 0 /\ data = 0
  /\ pc \in {"declare", "fetch", "loop"} => ~truncated /\ ~rowErr
  /\ pc \in {"declare", "fetch", "loop", "close", "resolve"} => out = "none"
  /\ pc = "loop" => data = streamed /\ (mode # "explain" => data <= max)

\* The rows collected are those the answer promises.
Complete ==
  IF mode = "explain" THEN data = total /\ ~truncated
  ELSE /\ data = IF total > max THEN max ELSE total
       /\ truncated <=> total > max

AtEnd ==
  /\ pc = "close" /\ ~rowErr => Complete
  /\ pc = "resolve" \/ out = "ok" => Complete

TypedSoFar ==
  /\ pc \in {"loop", "close", "resolve"} => typed = Cols \ unknown
  /\ pc = "resolve" => mode # "explain"
  /\ out = "ok" /\ mode # "explain" => typed = Cols

CInv == C!TypeOK /\ Clamped /\ Streaming /\ InLoop /\ AtEnd /\ TypedSoFar

-----------------------------------------------------------------------------
\* clampRows yields a usable bound: at least one row, at most the cap, and the
\* requested count whenever it lies between them.
LEMMA ClampBounds ==
  ASSUME NEW n \in Int
  PROVE  /\ C!clampRows(n) \in 1 .. MaxRows /\ C!clampRows(n) \in Nat
         /\ n \in 1 .. MaxRows => C!clampRows(n) = n
BY SizesAssumption DEF C!clampRows

LEMMA OfferedType == C!TypeOK => C!Offered \in Nat /\ C!Offered <= total
BY DEF C!TypeOK, C!Offered

LEMMA RowsInit == C!Init => CInv
<1> SUFFICES ASSUME C!Init PROVE CInv
  OBVIOUS
<1>1. C!TypeOK
  <2>1. unknown \subseteq Cols /\ typed \subseteq Cols
    BY DEF C!Init
  <2>2. 0 \in Int /\ 0 \in Nat
    OBVIOUS
  <2>3. asked \in Int /\ max \in Nat /\ total \in Nat /\ streamed \in Nat /\ data \in Nat
    BY <2>2 DEF C!Init
  <2>4. truncated \in BOOLEAN /\ rowErr \in BOOLEAN /\ open \in BOOLEAN /\ clash \in BOOLEAN
    BY DEF C!Init
  <2>5. mode \in C!Modes
    BY DEF C!Init, C!Modes
  <2>6. /\ pc \in {"done", "declare", "fetch", "loop", "close", "resolve", "undo"}
        /\ out \in {"none", "ok", "err"}
    BY DEF C!Init
  <2> QED BY <2>1, <2>3, <2>4, <2>5, <2>6 DEF C!TypeOK
<1>2. InLoop BY DEF C!Init, InLoop, C!Offered
<1>3. Clamped /\ Streaming BY DEF C!Init, Clamped, Streaming
<1>4. AtEnd /\ TypedSoFar BY DEF C!Init, AtEnd, TypedSoFar
<1> QED BY <1>1, <1>2, <1>3, <1>4 DEF CInv

LEMMA StartKeeps == ASSUME CInv, C!Start PROVE CInv'
<1>1. PICK m \in C!Modes, r \in Requests, n \in Totals, U \in SUBSET Cols :
        /\ mode' = m /\ asked' = r /\ max' = C!clampRows(r) /\ total' = n /\ unknown' = U
        /\ pc' = IF m = "cursor" THEN "declare" ELSE "fetch"
  BY DEF C!Start
<1>2. r \in Int /\ n \in Nat
  BY SizesAssumption
<1>3. C!TypeOK'
  BY <1>1, <1>2, ClampBounds DEF C!Start, C!TypeOK
<1>4. InLoop'
  BY <1>1, <1>2, <1>3, OfferedType, ClampBounds DEF C!Start, InLoop, C!Offered, C!TypeOK
<1> QED BY <1>1, <1>3, <1>4 DEF C!Start, CInv, Clamped, Streaming, AtEnd, TypedSoFar

LEMMA DeclareKeeps == ASSUME CInv, C!Declare PROVE CInv'
<1>1. C!TypeOK' BY DEF CInv, C!Declare, C!TypeOK, C!Sent, C!Return
<1>2. C!Offered' = C!Offered BY DEF C!Declare, C!Offered
<1> QED BY <1>1, <1>2 DEF CInv, C!Declare, C!Sent, C!Return, Clamped, Streaming, InLoop,
          AtEnd, TypedSoFar, C!TypeOK, Complete

LEMMA FetchKeeps == ASSUME CInv, C!Fetch PROVE CInv'
<1>1. C!TypeOK' BY DEF CInv, C!Fetch, C!TypeOK, C!Sent, C!Return
<1>2. C!Offered' = C!Offered BY DEF C!Fetch, C!Offered
<1> QED BY <1>1, <1>2 DEF CInv, C!Fetch, C!Sent, C!Return, Clamped, Streaming, InLoop,
          AtEnd, TypedSoFar, C!TypeOK, Complete

LEMMA StopKeeps == ASSUME CInv, C!Stop PROVE CInv'
<1>1. C!TypeOK' BY DEF CInv, C!Stop, C!TypeOK
<1>2. C!Offered' = C!Offered BY DEF C!Stop, C!Offered
<1>3. data = max /\ total > max
  BY OfferedType DEF CInv, C!Stop, InLoop, C!TypeOK
<1>4. Complete' BY <1>3 DEF CInv, C!Stop, Complete, C!TypeOK
<1>5. InLoop' BY <1>2, OfferedType DEF CInv, C!Stop, InLoop, C!TypeOK
<1> QED BY <1>1, <1>4, <1>5 DEF CInv, C!Stop, Clamped, Streaming, AtEnd, TypedSoFar, InLoop

LEMMA CollectKeeps == ASSUME CInv, C!Collect PROVE CInv'
<1>1. C!TypeOK'
  <2>1. streamed' \in Nat /\ data' \in Nat
    BY DEF CInv, C!Collect, C!TypeOK
  <2>2. open' \in BOOLEAN /\ out' \in {"none", "ok", "err"}
    BY DEF CInv, C!Collect, C!TypeOK, C!Return
  <2>3. pc' \in {"loop", "undo"}
    BY DEF C!Collect, C!Return
  <2> QED BY <2>1, <2>2, <2>3 DEF CInv, C!Collect, C!TypeOK
<1>2. C!Offered' = C!Offered BY DEF C!Collect, C!Offered
<1>3. InLoop' BY <1>2, OfferedType DEF CInv, C!Collect, InLoop, C!TypeOK, C!Return
<1> QED BY <1>1, <1>3 DEF CInv, C!Collect, C!Return, Clamped, Streaming, AtEnd, TypedSoFar, InLoop

LEMMA ExhaustKeeps == ASSUME CInv, C!Exhaust PROVE CInv'
<1>1. C!TypeOK' BY DEF CInv, C!Exhaust, C!TypeOK
<1>2. C!Offered' = C!Offered BY DEF C!Exhaust, C!Offered
<1>3. InLoop' BY <1>2 DEF CInv, C!Exhaust, InLoop
<1>4. ASSUME ~rowErr' PROVE Complete'
  <2>1. data = C!Offered /\ ~truncated /\ (mode # "explain" => data <= max)
    BY <1>4 DEF CInv, C!Exhaust, InLoop
  <2>2. CASE mode = "explain"
    BY <2>1, <2>2 DEF CInv, C!TypeOK, C!Offered, C!Exhaust, Complete
  <2>3. CASE mode # "explain"
    BY <2>1, <2>3 DEF CInv, C!TypeOK, C!Offered, C!Exhaust, Complete
  <2> QED BY <2>2, <2>3
<1> QED BY <1>1, <1>3, <1>4 DEF CInv, C!Exhaust, Clamped, Streaming, AtEnd, TypedSoFar, InLoop

LEMMA CloseKeeps == ASSUME CInv, C!Close PROVE CInv'
<1>1. streamed' \in Nat /\ streamed' <= C!Offered
  BY OfferedType DEF CInv, C!Close, C!TypeOK
<1>2. C!TypeOK' BY <1>1 DEF CInv, C!Close, C!TypeOK, C!Return, C!AfterRows
<1>3. C!Offered' = C!Offered BY DEF C!Close, C!Offered
<1>4. InLoop' BY <1>1, <1>3 DEF CInv, C!Close, InLoop, C!Return, C!AfterRows
<1>5. ASSUME pc' = "resolve" \/ out' = "ok" PROVE Complete'
  BY <1>5 DEF CInv, C!Close, AtEnd, Complete, C!Return, InLoop, C!AfterRows, C!TypeOK
<1>6. TypedSoFar' BY DEF CInv, C!Close, TypedSoFar, C!Return, C!AfterRows, InLoop, C!TypeOK
<1>7. Clamped' /\ Streaming' BY DEF CInv, C!Close, Clamped, Streaming, C!Return, C!AfterRows
<1>8. AtEnd' BY <1>5 DEF CInv, C!Close, AtEnd, C!Return, C!AfterRows
<1> QED BY <1>2, <1>4, <1>6, <1>7, <1>8 DEF CInv

LEMMA ResolveKeeps == ASSUME CInv, C!Resolve PROVE CInv'
<1>1. C!TypeOK' BY DEF CInv, C!Resolve, C!TypeOK, C!Sent, C!Return
<1>2. C!Offered' = C!Offered BY DEF C!Resolve, C!Offered
<1>3. out' = "ok" => typed' = Cols
  BY DEF CInv, C!Resolve, C!Return, TypedSoFar, C!TypeOK
<1> QED BY <1>1, <1>2, <1>3 DEF CInv, C!Resolve, C!Sent, C!Return, Clamped, Streaming, InLoop,
          AtEnd, TypedSoFar, Complete

LEMMA UndoKeeps == ASSUME CInv, C!Undo PROVE CInv'
<1>1. C!TypeOK' BY DEF CInv, C!Undo, C!TypeOK, C!Sent
<1>2. C!Offered' = C!Offered BY DEF C!Undo, C!Offered
<1> QED BY <1>1, <1>2 DEF CInv, C!Undo, C!Sent, Clamped, Streaming, InLoop,
          AtEnd, TypedSoFar, Complete

\* A step of the other parts leaves the row collector alone.
LEMMA RowsKept == ASSUME CInv, UNCHANGED cVars PROVE CInv'
BY DEF cVars, CInv, C!TypeOK, Clamped, Streaming, InLoop, AtEnd, TypedSoFar, Complete, C!Offered

\* Every step of the body keeps the inductive invariant.
THEOREM RowsHold == CatalogSpec => []CInv
<1>1. ASSUME CInv, [CatalogNext]_<<part, vars, rVars, cVars>> PROVE CInv'
  <2>1. CASE UNCHANGED cVars
    BY <1>1, <2>1, RowsKept
  <2>2. CASE C!Next
    BY <1>1, <2>2, StartKeeps, DeclareKeeps, FetchKeeps, StopKeeps, CollectKeeps, ExhaustKeeps,
       CloseKeeps, ResolveKeeps, UndoKeeps DEF C!Next
  <2>3. UNCHANGED cVars \/ C!Next
    BY <1>1 DEF CatalogNext
  <2> QED BY <2>1, <2>2, <2>3
<1>2. CatalogInit => CInv
  BY RowsInit DEF CatalogInit
<1> QED BY <1>1, <1>2, PTL DEF CatalogSpec

\* The state of the body is well typed throughout.
THEOREM RowsTyped == CatalogSpec => []C!TypeOK
<1>1. CInv => C!TypeOK BY DEF CInv
<1> QED BY <1>1, RowsHold, PTL

\* Whatever the row cap, the requested bound and the size of the result, an
\* answer holds exactly the promised rows and says truthfully whether there
\* were more (Query, SampleRows, Explain with collectRows).
THEOREM AnswersExact == CatalogSpec => []Exact
<1>1. CInv => Exact
  <2> SUFFICES ASSUME CInv, out = "ok" PROVE Exact
    BY DEF Exact, C!Exact
  <2>1. Complete /\ max = C!clampRows(asked) /\ asked \in Int
    BY DEF CInv, AtEnd, Clamped, C!TypeOK
  <2> QED BY <2>1, ClampBounds DEF Exact, C!Exact, Complete
<1> QED BY <1>1, RowsHold, PTL

\* At most max_rows+1 rows of a bounded statement leave the server.
THEOREM ServerBounded == CatalogSpec => []ServerBound
<1>1. CInv => ServerBound
  BY DEF CInv, InLoop, C!Offered, ServerBound, C!ServerBound, C!TypeOK
<1> QED BY <1>1, RowsHold, PTL

\* No statement is sent on a connection that still carries a result.
THEOREM ConnectionFree == CatalogSpec => []NeverBusy
<1>1. CInv => NeverBusy BY DEF CInv, Streaming, NeverBusy, C!NeverBusy
<1> QED BY <1>1, RowsHold, PTL

\* Every column of an answer has a type name.
THEOREM ColumnsTyped == CatalogSpec => []C!AllTyped
<1>1. CInv => C!AllTyped BY DEF CInv, TypedSoFar, C!AllTyped
<1> QED BY <1>1, RowsHold, PTL
=============================================================================
