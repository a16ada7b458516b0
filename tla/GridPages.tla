------------------------------ MODULE GridPages ------------------------------
(***************************************************************************)
(* The Data tab's page and its queries (internal/ui/data.go, grid.go). A   *)
(* reload bumps the request number, cancels what the previous reload left  *)
(* running and starts two queries, the page and the count. Their replies   *)
(* land in any order, perhaps long after the view they were for is gone;   *)
(* one is taken only if it is fresh.                                       *)
(*                                                                         *)
(* A page is what was asked for: the session, the relation, the filter,    *)
(* the order and the page number. Columns, values and the scroll window    *)
(* are left out; so is the paging of a query result, which is in memory.   *)
(* risks records what freshness does not see, and what the user did not    *)
(* wait for.                                                               *)
(***************************************************************************)
EXTENDS Integers, FiniteSets

CONSTANTS
  Names,      \* names of connection profiles
  Relations,  \* records of a database and a table
  Filters,    \* WHERE fragments, the empty one included
  Plain,      \* the empty fragment
  RowsIn,     \* rows of a relation behind a filter
  Limit,      \* rows on a page
  None

ASSUME GridAssumption ==
  /\ Plain \in Filters
  /\ RowsIn \in [Relations -> [Filters -> Nat]]
  /\ Limit \in Nat \ {0}
  /\ None \notin Names \cup Relations \cup Nat

VARIABLES
  driver,    \* the number of the live session, 0 for none
  sessions,  \* sessions so far
  active,    \* Model.active, the name of the live connection
  view,      \* Model.grid.data
  inflight,  \* Model.grid.inflight; open is a cancel that is not nil
  flying,    \* queries whose reply is not reduced yet; every context but
             \* that of inflight has been cancelled
  risks      \* "reset": request numbers restarted under replies of the same
             \* connection; "rename": the live connection was renamed under a
             \* view; "early": a selection was anchored while a page loaded;
             \* "blind": a page was turned to without the count of its rows

grid == <<view, inflight, flying>>
session == <<driver, sessions, active>>

NoView ==
  [conn |-> None, rel |-> None, query |-> FALSE, filter |-> Plain, sort |-> FALSE, page |-> 0,
   total |-> None, rows |-> None, row |-> 0, sel |-> None, loading |-> FALSE, err |-> FALSE, req |-> 0]

Opened(rel) == [NoView EXCEPT !.conn = active, !.rel = rel, !.req = view.req]
browsing(v) == v.rel # None
Asked(v) == [session |-> driver, rel |-> v.rel, filter |-> v.filter, sort |-> v.sort, page |-> v.page]

Least(a, b) == IF a < b THEN a ELSE b
Most(a, b) == IF a > b THEN a ELSE b

\* Rows on a page, and the pages a count implies.
RowsOn(p) == IF p = None THEN 0
             ELSE Most(0, Least(Limit, RowsIn[p.rel][p.filter] - p.page * Limit))
pageCount(n) == Most(1, (n + Limit - 1) \div Limit)

Cell == [page |-> view.rows, row |-> view.row]

GridInit ==
  /\ driver = 0
  /\ sessions = 0
  /\ active = None
  /\ view = NoView
  /\ inflight = [req |-> 0, open |-> FALSE, page |-> FALSE, count |-> FALSE]
  /\ flying = {}
  /\ risks = {}

\* clampCursor
Clamped(row, p) == Most(0, Least(row, RowsOn(p) - 1))

\* Plausible bug: the connection is not compared.
FreshAnywhere(q) == q.req = view.req /\ browsing(view) /\ q.asks.rel.table = view.rel.table

\* The database is not compared.
fresh(q) ==
  /\ q.req = view.req
  /\ q.conn = active
  /\ browsing(view) /\ q.asks.rel.table = view.rel.table

-----------------------------------------------------------------------------
(* pageQueries.                                                            *)

Cancelled(qs) == {[q EXCEPT !.stopped = TRUE] : q \in qs}

stopPageQueries ==
  /\ inflight' = [inflight EXCEPT !.open = FALSE, !.page = FALSE, !.count = FALSE]
  /\ flying' = Cancelled(flying)

Query(kind, v) == [kind |-> kind, conn |-> v.conn, req |-> v.req, asks |-> Asked(v), stopped |-> FALSE]

\* done: the context is released once both replies of its request landed.
Landed(q) == [inflight EXCEPT !.page = @ \/ q.kind = "page", !.count = @ \/ q.kind = "count"]

done(q, rest) ==
  IF ~inflight.open \/ q.req # inflight.req THEN inflight' = inflight /\ flying' = rest
  ELSE IF Landed(q).page /\ Landed(q).count
       THEN inflight' = [Landed(q) EXCEPT !.open = FALSE] /\ flying' = Cancelled(rest)
       ELSE inflight' = Landed(q) /\ flying' = rest

-----------------------------------------------------------------------------
(* Loading a page.                                                         *)

Request(v) == [v EXCEPT !.req = @ + 1, !.loading = TRUE, !.err = FALSE, !.sel = None]

\* reloadPage, for the view a key has just made.
Reload(v) ==
  IF driver = 0 \/ ~browsing(v) THEN view' = v /\ UNCHANGED <<inflight, flying>>
  ELSE LET w == Request(v) IN
    /\ view' = w
    /\ inflight' = [req |-> w.req, open |-> TRUE, page |-> FALSE, count |-> FALSE]
    /\ flying' = Cancelled(flying) \cup {Query("page", w), Query("count", w)}

\* openTable: its stopPageQueries is what the reload's start does again, and
\* without a driver there is no tree to open it from.
openTable(rel) == driver # 0 /\ Reload(Opened(rel))

\* openDatabase and resetBrowse forget the request number with the view.
Forget(name) ==
  /\ view' = NoView
  /\ risks' = risks \cup IF \E q \in flying : q.conn = name THEN {"reset"} ELSE {}

setDataFilter(f) ==
  /\ browsing(view) /\ driver # 0
  /\ f # Plain
  /\ Reload([view EXCEPT !.filter = f, !.page = 0, !.row = 0])

clearFilter ==
  /\ browsing(view)
  /\ view.filter # Plain
  /\ Reload([view EXCEPT !.filter = Plain, !.page = 0, !.row = 0])

\* The column under the cursor needs a page to have landed.
toggleSort ==
  /\ browsing(view)
  /\ view.rows # None
  /\ Reload([view EXCEPT !.sort = ~@, !.page = 0, !.row = 0])

LastPage(v) == IF v.total # None THEN (v.page + 1) * Limit >= v.total ELSE RowsOn(v.rows) < Limit

\* To another page, by whatever count the view has.
TurnTo(page, row) ==
  /\ Reload([view EXCEPT !.page = page, !.row = row])
  /\ risks' = risks \cup
       IF view.total = None \/ \E q \in flying : q.kind = "count" /\ fresh(q) THEN {"blind"} ELSE {}

turnPage(delta) ==
  /\ browsing(view)
  /\ view.page + delta >= 0
  /\ delta > 0 => ~LastPage(view)
  /\ TurnTo(view.page + delta, 0)

submitGoToPage(p) ==
  /\ browsing(view)
  /\ view.total # None
  /\ p \in 0..(pageCount(view.total) - 1) \ {view.page}
  /\ TurnTo(p, 0)

OnThisPage(row) ==
  /\ view' = [view EXCEPT !.row = Clamped(row, view.rows)]
  /\ UNCHANGED <<inflight, flying, risks>>

jumpToFirstRow ==
  /\ browsing(view)
  /\ IF view.page = 0 THEN OnThisPage(0) ELSE TurnTo(0, 0)

jumpToLastRow ==
  /\ browsing(view)
  /\ view.total # None
  /\ LET last == pageCount(view.total) - 1
         row == Most(0, Least(Limit, view.total - last * Limit) - 1)
     IN IF view.page = last THEN OnThisPage(row) ELSE TurnTo(last, row)

MoveCursor(row) ==
  /\ browsing(view)
  /\ row \in 0..(RowsOn(view.rows) - 1)
  /\ OnThisPage(row)

toggleSelection ==
  /\ view.sel # None \/ view.row < RowsOn(view.rows)
  /\ view' = [view EXCEPT !.sel = IF @ = None THEN view.rows ELSE None]
  /\ risks' = risks \cup IF view.loading /\ view.sel = None THEN {"early"} ELSE {}
  /\ UNCHANGED <<inflight, flying>>

-----------------------------------------------------------------------------
(* Replies.                                                                *)

\* The query ended before its context was cancelled, or because of it.
Outcomes(q) == {"ok", "failed"} \cup IF q.stopped THEN {"cancelled"} ELSE {}

pageLoaded(q, how) ==
  IF ~fresh(q) THEN view' = view /\ inflight' = inflight /\ flying' = flying \ {q}
  ELSE /\ done(q, flying \ {q})
       /\ view' = IF how = "ok" THEN [view EXCEPT !.loading = FALSE, !.rows = q.asks,
                                                  !.row = Clamped(@, q.asks),
                                                  !.sel = IF RowsOn(q.asks) = 0 THEN None ELSE @]
                  ELSE [view EXCEPT !.loading = FALSE, !.err = how = "failed"]

rowCount(q, how) ==
  IF ~fresh(q) THEN view' = view /\ inflight' = inflight /\ flying' = flying \ {q}
  ELSE /\ done(q, flying \ {q})
       /\ view' = CASE how = "ok" -> [view EXCEPT !.total = RowsIn[q.asks.rel][q.asks.filter]]
                    [] how = "failed" -> [view EXCEPT !.total = None]
                    [] OTHER -> view

Reply(q) ==
  /\ q \in flying
  /\ \E how \in Outcomes(q) : IF q.kind = "page" THEN pageLoaded(q, how) ELSE rowCount(q, how)

=============================================================================
