----------------------------- MODULE BrowseProofs -----------------------------
(***************************************************************************)
(* Theorems about Browse and GridPages for any connections, relations,     *)
(* filters, rows and keys: the page on screen is the one asked for, a key  *)
(* acts on what it was pressed over, and whatever loads is answered.       *)
(***************************************************************************)
EXTENDS Browse, SequenceTheorems, TLAPS

-----------------------------------------------------------------------------
(* The inductive invariant.                                                *)

Tabs == {"data", "structure", "relations"}
Places == [view : Views, tab : Tabs]
Inflights == [req : 0..MaxKeys, open : BOOLEAN, page : BOOLEAN, count : BOOLEAN]
Flying == [kind : {"page", "count"}, conn : Names, req : 1..MaxKeys, asks : Answers, stopped : BOOLEAN]
Metas ==
  [req : 0..MaxKeys, loading : BOOLEAN, loaded : BOOLEAN, err : BOOLEAN,
   of : Relations \cup {None}, after : Cells \cup {None},
   flying : SUBSET [req : 1..MaxKeys, conn : Names, rel : Relations]]
FKKeys == [conn : Names, rel : Relations]
FKTypes ==
  [cache : SUBSET FKKeys, loading : SUBSET FKKeys, after : BOOLEAN,
   flying : SUBSET [session : 1..MaxKeys, key : FKKeys]]

Parked(f) == IF f.after THEN 1 ELSE 0

\* Types, and a key for every request number and session taken.
SessInv ==
  /\ driver \in Nat /\ sessions \in Nat /\ keys \in Nat
  /\ driver <= sessions /\ sessions <= keys /\ keys <= MaxKeys
  /\ active \in Names \cup {None} /\ (active = None <=> driver = 0)
  /\ risks \subseteq {"reset", "rename", "early", "blind"}
  /\ tab \in Tabs

GridTypes == view \in Views /\ inflight \in Inflights /\ flying \subseteq Flying

InRange(v) == v.page = 0 \/ v.page * Limit < RowsIn[v.rel][v.filter]

\* A view the grid may go to, taking the risks rs: it is of the live
\* connection, its rows are of its relation, and its page exists.
Fit(v, rs) ==
  /\ v \in Views /\ browsing(v) /\ v.conn \in Names
  /\ "rename" \notin rs => v.conn = active
  /\ rs \cap {"reset", "rename"} = {} =>
       /\ v.rows # None => v.rows.rel = v.rel /\ v.rows.session = driver
       /\ "blind" \notin rs => InRange(v)

\* The view is such a view, or nothing is open.
OpenInv ==
  /\ browsing(view) => driver # 0 /\ Fit(view, risks) /\ inflight.req = view.req
  /\ ~browsing(view) => view.rows = None /\ view.sel = None /\ ~view.loading

\* A page that is waited for is under way and will be taken.
PageAwaited ==
  "rename" \notin risks /\ view.loading => \E q \in flying : q.kind = "page" /\ fresh(q)

\* A query of the live connection with the number of the view.
Mine(q) == q.conn = active /\ q.req = view.req

\* The queries of the view that is open are the last request's, each once.
QueryInv ==
  Numbered =>
    /\ \A q \in flying : q.conn = active => q.req <= view.req /\ q.asks.session = driver
    /\ browsing(view) => \A q \in flying : Mine(q) =>
         /\ q.asks = Asked(view) /\ ~q.stopped /\ inflight.open
         /\ q.kind = "page" => view.loading /\ ~inflight.page
         /\ q.kind = "count" => ~inflight.count

\* What is shown is what was asked for.
ShownInv ==
  Numbered /\ browsing(view) =>
    /\ ~view.loading /\ ~view.err => view.rows = Asked(view)
    /\ \/ view.total = None
       \/ \E q \in flying : q.kind = "count" /\ Mine(q)
       \/ view.total = RowsIn[view.rel][view.filter]
    /\ "early" \notin risks => /\ view.loading => view.sel = None
                               /\ view.sel # None => view.sel = view.rows

GridInv == GridTypes /\ OpenInv /\ PageAwaited /\ QueryInv /\ ShownInv

\* The views to come back to are of the live session.
HistoryInv ==
  /\ history \in Seq(Places) /\ Len(history) <= MaxHistory
  /\ \A i \in 1 .. Len(history) : Fit(history[i].view, risks)
  /\ history # <<>> => driver # 0

\* Every request number has a key that was pressed for it; a parked key is
\* kept for the jump it will make.
CountInv == view.req + Parked(fk) <= keys /\ meta.req <= keys

\* Metadata and foreign keys that load have a fetch under way.
FetchInv ==
  /\ meta \in Metas /\ fk \in FKTypes
  /\ "rename" \notin risks =>
       /\ meta.loading => \E q \in meta.flying : freshMeta(q)
       /\ \A key \in fk.loading : \E q \in fk.flying : q.key = key /\ key.conn = active

\* A parked delete was asked for in this session and on this relation.
DeedInv ==
  /\ deed = None \/ (deed.asked \in Cells /\ deed.on \in Cells)
  /\ Numbered =>
       /\ meta.after # None =>
            browsing(view) /\ meta.after.page.session = driver /\ meta.after.page.rel = view.rel
       /\ deed # None => /\ deed.asked.page.session = deed.on.page.session
                         /\ deed.asked.page.rel = deed.on.page.rel

BrowseInv == SessInv /\ GridInv /\ HistoryInv /\ CountInv /\ FetchInv /\ DeedInv

-----------------------------------------------------------------------------
(* Rows, pages, requests and queries.                                      *)

\* A page has between no row and Limit of them.
LEMMA RowsOnIs ==
  ASSUME NEW p \in Answers \cup {None}
  PROVE  RowsOn(p) \in 0..Limit /\ (p = None => RowsOn(p) = 0)
<1>1. CASE p = None  BY <1>1, GridAssumption DEF RowsOn
<1>2. CASE p \in Answers
  <2>1. p # None  BY <1>2, BrowseNone
  <2>2. RowsIn[p.rel][p.filter] \in Nat /\ p.page \in Nat
    BY <1>2, GridAssumption DEF Answers
  <2>3. p.page * Limit \in Nat  BY <2>2, GridAssumption
  <2> DEFINE left == RowsIn[p.rel][p.filter] - p.page * Limit
  <2>4. left \in Int  BY <2>2, <2>3
  <2>5. RowsOn(p) = Most(0, Least(Limit, left))  BY <2>1 DEF RowsOn
  <2> HIDE DEF left
  <2> QED  BY <2>1, <2>4, <2>5, GridAssumption DEF Most, Least
<1> QED  BY <1>1, <1>2

\* clampCursor keeps the cursor on a row that a page can have.
LEMMA ClampedIs ==
  ASSUME NEW row \in 0..(Limit - 1), NEW p \in Answers \cup {None}
  PROVE  Clamped(row, p) \in 0..(Limit - 1)
BY RowsOnIs, GridAssumption DEF Clamped, Most, Least

\* A page within the count of its rows has one.
LEMMA PageHasRows ==
  ASSUME NEW p \in Answers, p.page = 0 \/ p.page * Limit < RowsIn[p.rel][p.filter]
  PROVE  p.page = 0 \/ RowsOn(p) > 0
<1>1. p # None  BY BrowseNone
<1>2. RowsIn[p.rel][p.filter] \in Nat /\ p.page \in Nat
  BY GridAssumption DEF Answers
<1>3. p.page * Limit \in Nat  BY <1>2, GridAssumption
<1> DEFINE x == p.page * Limit
<1> DEFINE n == RowsIn[p.rel][p.filter]
<1>4. x \in Nat /\ n \in Nat  BY <1>2, <1>3
<1>5. RowsOn(p) = Most(0, Least(Limit, n - x))  BY <1>1 DEF RowsOn
<1>6. p.page = 0 \/ x < n  OBVIOUS
<1> HIDE DEF x, n
<1> QED  BY <1>4, <1>5, <1>6, GridAssumption DEF Most, Least

\* The pages that a count implies are at least one.
LEMMA PagesAre ==
  ASSUME NEW n \in Nat
  PROVE  pageCount(n) \in Nat \ {0} /\ (n + Limit - 1) \div Limit \in Int
<1>1. (n + Limit - 1) \div Limit \in Int  BY GridAssumption
<1> QED  BY <1>1 DEF pageCount, Most

\* Each of the pages a count implies but the first has a row.
LEMMA PageExists ==
  ASSUME NEW n \in Nat, NEW p \in 0..(pageCount(n) - 1)
  PROVE  p = 0 \/ p * Limit < n
<1> DEFINE d == (n + Limit - 1) \div Limit
<1>1. d \in Int /\ d * Limit <= n + Limit - 1  BY GridAssumption
<1>2. pageCount(n) = Most(1, d)  BY DEF pageCount
<1>3. p \in Nat /\ (p = 0 \/ p + 1 <= d)
  <2> HIDE DEF d
  <2> QED  BY <1>1, <1>2 DEF Most
<1>4. CASE p = 0  BY <1>4
<1>5. CASE p + 1 <= d
  <2> HIDE DEF d
  <2>1. (p + 1) * Limit <= d * Limit  BY <1>1, <1>3, <1>5, GridAssumption
  <2>2. (p + 1) * Limit = p * Limit + Limit  BY <1>3, GridAssumption
  <2>3. p * Limit \in Nat /\ d * Limit \in Int  BY <1>1, <1>3, GridAssumption
  <2> QED  BY <1>1, <2>1, <2>2, <2>3, GridAssumption
<1> QED  BY <1>3, <1>4, <1>5

\* What a request asks for and what it leaves.
LEMMA RequestIs ==
  ASSUME NEW v \in Views, v.req < MaxKeys
  PROVE  /\ Request(v) \in Views /\ Request(v).req = v.req + 1
         /\ Request(v).conn = v.conn /\ Request(v).rel = v.rel /\ Request(v).filter = v.filter
         /\ Request(v).sort = v.sort /\ Request(v).page = v.page /\ Request(v).rows = v.rows
         /\ Request(v).loading /\ ~Request(v).err /\ Request(v).sel = None
<1> DEFINE w == Request(v)
<1>1. /\ w.req = v.req + 1 /\ w.loading = TRUE /\ w.err = FALSE /\ w.sel = None
      /\ w.conn = v.conn /\ w.rel = v.rel /\ w.query = v.query /\ w.filter = v.filter
      /\ w.sort = v.sort /\ w.page = v.page /\ w.total = v.total /\ w.rows = v.rows /\ w.row = v.row
  BY DEF Request, Views
<1>2. v.req + 1 \in 0..MaxKeys  BY BrowseAssumption DEF Views
<1>3. w \in Views  BY <1>2 DEF Request, Views
<1> QED  BY <1>1, <1>3

\* A query asks for the page of its view in the live session.
LEMMA AskedIs ==
  ASSUME NEW v \in Views, browsing(v), SessInv
  PROVE  Asked(v) \in Answers
BY BrowseAssumption DEF Asked, Views, Answers, browsing, SessInv

\* The two queries of a request.
LEMMA QueryIs ==
  ASSUME NEW v \in Views, browsing(v), v.conn \in Names, v.req > 0, SessInv, NEW k \in {"page", "count"}
  PROVE  /\ Query(k, v) \in Flying
         /\ Query(k, v).kind = k /\ Query(k, v).conn = v.conn /\ Query(k, v).req = v.req
         /\ Query(k, v).asks = Asked(v) /\ ~Query(k, v).stopped
<1>1. Asked(v) \in Answers  BY AskedIs
<1>2. v.req \in 1..MaxKeys  BY BrowseAssumption DEF Views
<1> QED  BY <1>1, <1>2 DEF Query, Flying

\* Cancelled queries are the queries, stopped.
LEMMA CancelledIs ==
  ASSUME NEW qs, qs \subseteq Flying
  PROVE  /\ Cancelled(qs) \subseteq Flying
         /\ \A e \in Cancelled(qs) : \E q \in qs :
              e.kind = q.kind /\ e.conn = q.conn /\ e.req = q.req /\ e.asks = q.asks
         /\ \A q \in qs : \E e \in Cancelled(qs) :
              e.kind = q.kind /\ e.conn = q.conn /\ e.req = q.req /\ e.asks = q.asks
<1> DEFINE Stop(q) == [q EXCEPT !.stopped = TRUE]
<1>1. \A q \in Flying : /\ Stop(q) \in Flying /\ Stop(q).kind = q.kind /\ Stop(q).conn = q.conn
                        /\ Stop(q).req = q.req /\ Stop(q).asks = q.asks
  BY DEF Flying
<1>2. Cancelled(qs) = {Stop(q) : q \in qs}  BY DEF Cancelled
<1> HIDE DEF Stop
<1>3. Cancelled(qs) \subseteq Flying  BY <1>1, <1>2
<1>4. \A e \in Cancelled(qs) : \E q \in qs : e = Stop(q)  BY <1>2
<1>5. \A q \in qs : Stop(q) \in Cancelled(qs)  BY <1>2
<1> QED  BY <1>1, <1>3, <1>4, <1>5

\* Of the queries of a view there is one of each kind.
LEMMA OneOfAKind ==
  ASSUME GridInv, Numbered, browsing(view),
         NEW q \in flying, NEW c \in flying, Mine(q), Mine(c), q.kind = c.kind
  PROVE  q = c
<1>1. q.asks = c.asks /\ q.conn = c.conn /\ q.req = c.req /\ ~q.stopped /\ ~c.stopped
  BY DEF GridInv, QueryInv, Mine
<1>2. q \in Flying /\ c \in Flying  BY DEF GridInv, GridTypes
<1> QED  BY <1>1, <1>2 DEF Flying

\* A fresh reply is one of the view's, and the other way round.
LEMMA FreshIsMine ==
  ASSUME GridInv, Numbered, browsing(view), NEW q \in flying
  PROVE  fresh(q) <=> Mine(q)
BY DEF GridInv, QueryInv, Mine, fresh, Asked
-----------------------------------------------------------------------------
(* What a step does to the grid.                                           *)

\* A reload asks for a view that fits, and forgets what it asked before.
LEMMA Reloaded ==
  ASSUME SessInv, GridInv, UNCHANGED session, risks \subseteq risks', driver # 0,
         NEW v, Fit(v, risks'), v.req = view.req, view.req < MaxKeys, Reload(v)
  PROVE  GridInv' /\ browsing(view') /\ view'.req = view.req + 1 /\ view'.rel = v.rel
<1> DEFINE w == Request(v)
<1>1. v \in Views /\ browsing(v) /\ v.conn \in Names  BY DEF Fit
<1>2. /\ w \in Views /\ w.req = view.req + 1 /\ w.conn = v.conn /\ w.rel = v.rel
      /\ w.filter = v.filter /\ w.sort = v.sort /\ w.page = v.page /\ w.rows = v.rows
      /\ w.loading /\ ~w.err /\ w.sel = None
  BY <1>1, RequestIs
<1>3. /\ view' = w
      /\ inflight' = [req |-> w.req, open |-> TRUE, page |-> FALSE, count |-> FALSE]
      /\ flying' = Cancelled(flying) \cup {Query("page", w), Query("count", w)}
  BY <1>1 DEF Reload
<1>4. browsing(w) /\ w.conn \in Names  BY <1>1, <1>2 DEF browsing
<1>5. view.req \in 0..MaxKeys /\ flying \subseteq Flying
  BY DEF GridInv, GridTypes, Views
<1>6. w.req > 0 /\ w.req \in 0..MaxKeys  BY <1>2, <1>5, BrowseAssumption
<1>7. /\ Query("page", w) \in Flying /\ Query("count", w) \in Flying
      /\ Query("page", w).kind = "page" /\ Query("count", w).kind = "count"
      /\ \A q \in {Query("page", w), Query("count", w)} :
           q.conn = w.conn /\ q.req = w.req /\ q.asks = Asked(w) /\ ~q.stopped
  BY <1>2, <1>4, <1>6, QueryIs
<1> HIDE DEF w
<1>8. GridTypes'
  <2>1. inflight' \in Inflights  BY <1>3, <1>6 DEF Inflights
  <2>2. flying' \subseteq Flying  BY <1>3, <1>5, <1>7, CancelledIs
  <2> QED  BY <1>2, <1>3, <2>1, <2>2 DEF GridTypes
<1>9. Fit(view, risks)'
  <2>1. w.rows = v.rows /\ w.rel = v.rel /\ w.page = v.page /\ w.filter = v.filter  BY <1>2
  <2>2. active' = active /\ driver' = driver  BY DEF session
  <2>3. InRange(v) => InRange(w)  BY <2>1 DEF InRange
  <2> QED  BY <1>2, <1>3, <1>4, <2>1, <2>2, <2>3 DEF Fit, InRange
<1>10. OpenInv'
  <2>1. driver' # 0 /\ inflight'.req = view'.req  BY <1>3 DEF session
  <2>2. browsing(view)'  BY <1>3, <1>4 DEF browsing
  <2> QED  BY <1>9, <2>1, <2>2 DEF OpenInv
<1>11. Asked(w)' = Asked(w)  BY <1>3 DEF Asked, session
<1>12. active' = active  BY DEF session
<1>13. PageAwaited'
  <2> SUFFICES ASSUME "rename" \notin risks'
               PROVE  \E q \in flying' : q.kind = "page" /\ fresh(q)'
    BY DEF PageAwaited
  <2> PICK q \in flying' : q.kind = "page" /\ q.conn = w.conn /\ q.req = w.req /\ q.asks = Asked(w)
    BY <1>3, <1>7
  <2>1. w.conn = active  BY <1>2 DEF Fit
  <2>2. q.asks.rel = w.rel  BY DEF Asked
  <2> QED  BY <1>3, <1>4, <1>12, <2>1, <2>2 DEF fresh
<1>14. QueryInv'
  <2> SUFFICES ASSUME Numbered'
               PROVE  /\ \A q \in flying' : q.conn = active => q.req <= w.req /\ q.asks.session = driver
                      /\ \A q \in flying' : q.conn = active /\ q.req = w.req =>
                           q \in {Query("page", w), Query("count", w)}
    BY <1>2, <1>3, <1>7, <1>11, <1>12 DEF QueryInv, Mine, Asked, session
  <2>1. Numbered  BY DEF Numbered
  <2>2. \A q \in flying : q.conn = active => q.req <= view.req /\ q.asks.session = driver
    BY <2>1 DEF GridInv, QueryInv
  <2>3. \A e \in Cancelled(flying) : e.conn = active => e.req <= view.req /\ e.asks.session = driver
    BY <1>5, <2>2, CancelledIs
  <2>4. \A e \in Cancelled(flying) : e.req \in Nat
    BY <1>5, CancelledIs DEF Flying
  <2>5. \A q \in {Query("page", w), Query("count", w)} : q.req = w.req /\ q.asks.session = driver
    BY <1>7 DEF Asked
  <2>6. \A e \in Cancelled(flying) : e.conn = active => e.req < w.req
    BY <1>2, <1>5, <2>3, <2>4
  <2> QED  BY <1>3, <1>6, <2>3, <2>4, <2>5, <2>6
<1>15. ShownInv'
  <2> SUFFICES ASSUME Numbered'
               PROVE  \E q \in flying' : q.kind = "count" /\ Mine(q)'
    BY <1>2, <1>3 DEF ShownInv
  <2> PICK q \in flying' : q.kind = "count" /\ q.conn = w.conn /\ q.req = w.req
    BY <1>3, <1>7
  <2>1. w.conn = active  BY <1>2 DEF Fit, Numbered
  <2> QED  BY <1>3, <1>12, <2>1 DEF Mine
<1> QED
  BY <1>2, <1>3, <1>4, <1>8, <1>10, <1>13, <1>14, <1>15 DEF GridInv

\* The cursor moves on its page, or a selection is made or dropped.
LEMMA Stayed ==
  ASSUME SessInv, GridInv, UNCHANGED <<session, inflight, flying>>, risks \subseteq risks',
         \/ \E row \in 0..(Limit - 1) : view' = [view EXCEPT !.row = row] /\ risks' = risks
         \/ toggleSelection
  PROVE  GridInv' /\ (browsing(view') <=> browsing(view)) /\ view'.req = view.req /\ view'.rel = view.rel
<1>1. view \in Views /\ inflight \in Inflights /\ flying \subseteq Flying  BY DEF GridInv, GridTypes
<1>2. active' = active /\ driver' = driver /\ inflight' = inflight /\ flying' = flying
  BY DEF session
<1>3. /\ view' \in Views
      /\ view'.conn = view.conn /\ view'.rel = view.rel /\ view'.filter = view.filter
      /\ view'.sort = view.sort /\ view'.page = view.page /\ view'.rows = view.rows
      /\ view'.total = view.total /\ view'.loading = view.loading /\ view'.err = view.err
      /\ view'.req = view.req
  <2>1. CASE \E row \in 0..(Limit - 1) : view' = [view EXCEPT !.row = row]
    BY <1>1, <2>1 DEF Views
  <2>2. CASE toggleSelection
    BY <1>1, <2>2 DEF toggleSelection, Views
  <2> QED  BY <2>1, <2>2
<1>4. browsing(view') <=> browsing(view)  BY <1>3 DEF browsing
<1>5. GridTypes'  BY <1>1, <1>2, <1>3 DEF GridTypes
<1>6. InRange(view)' <=> InRange(view)  BY <1>3 DEF InRange
<1>7. OpenInv'
  <2>1. CASE browsing(view)
    <3>1. Fit(view, risks) /\ driver # 0 /\ inflight.req = view.req
      BY <2>1 DEF GridInv, OpenInv
    <3>2. Fit(view, risks)'
      BY <1>2, <1>3, <1>4, <1>6, <2>1, <3>1 DEF Fit
    <3> QED  BY <1>2, <1>3, <1>4, <2>1, <3>1, <3>2 DEF OpenInv
  <2>2. CASE ~browsing(view)
    <3>1. view.rows = None /\ view.sel = None /\ ~view.loading  BY <2>2 DEF GridInv, OpenInv
    <3>2. RowsOn(None) = 0  BY RowsOnIs
    <3>3. ~(view.row < 0)  BY <1>1, GridAssumption DEF Views
    <3>4. ~toggleSelection  BY <3>1, <3>2, <3>3 DEF toggleSelection
    <3>5. view'.sel = None  BY <1>1, <3>1, <3>4 DEF Views
    <3> QED  BY <1>3, <1>4, <2>2, <3>1, <3>5 DEF OpenInv
  <2> QED  BY <2>1, <2>2
<1>8. \A q \in flying : (fresh(q)' <=> fresh(q)) /\ (Mine(q)' <=> Mine(q))
  BY <1>2, <1>3, <1>4 DEF fresh, Mine
<1>9. PageAwaited'  BY <1>2, <1>3, <1>8 DEF GridInv, PageAwaited
<1>10. Asked(view)' = Asked(view)  BY <1>2, <1>3 DEF Asked
<1>11. QueryInv'
  BY <1>2, <1>3, <1>4, <1>8, <1>10 DEF GridInv, QueryInv, Numbered
<1>12. ShownInv'
  <2> SUFFICES ASSUME Numbered', browsing(view)'
               PROVE  "early" \notin risks' => /\ view.loading => view'.sel = None
                                               /\ view'.sel # None => view'.sel = view.rows
    BY <1>2, <1>3, <1>4, <1>8, <1>10 DEF GridInv, ShownInv, Numbered
  <2>1. Numbered /\ browsing(view)  BY <1>4 DEF Numbered
  <2>2. "early" \notin risks => /\ view.loading => view.sel = None
                                /\ view.sel # None => view.sel = view.rows
    BY <2>1 DEF GridInv, ShownInv
  <2>3. CASE \E row \in 0..(Limit - 1) : view' = [view EXCEPT !.row = row]
    <3>1. view'.sel = view.sel  BY <1>1, <2>3 DEF Views
    <3> QED  BY <2>2, <3>1
  <2>4. CASE toggleSelection
    <3>1. view'.sel = IF view.sel = None THEN view.rows ELSE None
      BY <1>1, <2>4 DEF toggleSelection, Views
    <3>2. view.loading /\ view.sel = None => "early" \in risks'
      BY <2>4 DEF toggleSelection
    <3> QED  BY <2>2, <3>1, <3>2
  <2> QED  BY <2>3, <2>4
<1> QED  BY <1>3, <1>4, <1>5, <1>7, <1>9, <1>11, <1>12 DEF GridInv
\* The reply of a query lets go of its context once both have landed; the
\* other query of the view, if it has not, is as it was.
LEMMA DoneIs ==
  ASSUME SessInv, GridInv, browsing(view), NEW q \in flying, fresh(q), done(q, flying \ {q})
  PROVE  /\ inflight' \in Inflights /\ inflight'.req = inflight.req /\ flying' \subseteq Flying
         /\ \A e \in flying' : \E c \in flying \ {q} :
              e.kind = c.kind /\ e.conn = c.conn /\ e.req = c.req /\ e.asks = c.asks
         /\ \A c \in flying \ {q} : \E e \in flying' :
              e.kind = c.kind /\ e.conn = c.conn /\ e.req = c.req /\ e.asks = c.asks
         /\ Numbered => \A e \in flying' : Mine(e) =>
              /\ e \in flying /\ e.kind # q.kind /\ inflight'.open
              /\ e.kind = "page" => ~inflight'.page
              /\ e.kind = "count" => ~inflight'.count
<1> DEFINE rest == flying \ {q}
<1>1. inflight \in Inflights /\ flying \subseteq Flying /\ inflight.req = view.req
  BY DEF GridInv, GridTypes, OpenInv
<1>2. rest \subseteq Flying /\ rest \subseteq flying /\ q \notin rest  BY <1>1
<1>3. q \in Flying /\ q.kind \in {"page", "count"}  BY <1>1 DEF Flying
<1>4. \A e \in rest : e.kind \in {"page", "count"}  BY <1>2 DEF Flying
<1>5. /\ Landed(q) \in Inflights /\ Landed(q).req = inflight.req /\ Landed(q).open = inflight.open
      /\ Landed(q).page <=> inflight.page \/ q.kind = "page"
      /\ Landed(q).count <=> inflight.count \/ q.kind = "count"
  BY <1>1 DEF Landed, Inflights
<1>6. ASSUME Numbered, NEW e \in rest, Mine(e)
      PROVE  /\ e.kind # q.kind /\ inflight.open
             /\ e.kind = "page" => ~inflight.page
             /\ e.kind = "count" => ~inflight.count
  <2>1. e \in flying  BY <1>2
  <2>2. Mine(q)  BY <1>6, FreshIsMine
  <2>3. e.kind # q.kind  BY <1>2, <1>6, <2>1, <2>2, OneOfAKind
  <2> QED  BY <1>6, <2>1, <2>3 DEF GridInv, QueryInv
<1> HIDE DEF rest
<1>7. CASE ~inflight.open \/ q.req # inflight.req
  <2>1. inflight' = inflight /\ flying' = rest  BY <1>7 DEF done, rest
  <2> QED  BY <1>1, <1>2, <1>6, <2>1 DEF rest
<1>8. CASE inflight.open /\ q.req = inflight.req /\ Landed(q).page /\ Landed(q).count
  <2>1. inflight' = [Landed(q) EXCEPT !.open = FALSE] /\ flying' = Cancelled(rest)
    BY <1>8 DEF done, rest
  <2>2. inflight' \in Inflights /\ inflight'.req = inflight.req  BY <1>5, <2>1 DEF Inflights
  <2>3. ASSUME Numbered PROVE \A e \in rest : ~Mine(e)
    BY <1>3, <1>4, <1>5, <1>6, <1>8, <2>3
  <2>4. /\ flying' \subseteq Flying
        /\ \A e \in flying' : \E c \in rest :
             e.kind = c.kind /\ e.conn = c.conn /\ e.req = c.req /\ e.asks = c.asks
        /\ \A c \in rest : \E e \in flying' :
             e.kind = c.kind /\ e.conn = c.conn /\ e.req = c.req /\ e.asks = c.asks
    BY <1>2, <2>1, CancelledIs
  <2>5. ASSUME Numbered PROVE \A e \in flying' : ~Mine(e)
    BY <2>3, <2>4, <2>5 DEF Mine
  <2> QED  BY <2>2, <2>4, <2>5 DEF rest
<1>9. CASE inflight.open /\ q.req = inflight.req /\ ~(Landed(q).page /\ Landed(q).count)
  <2>1. inflight' = Landed(q) /\ flying' = rest  BY <1>9 DEF done, rest
  <2>2. ASSUME Numbered PROVE \A e \in flying' : Mine(e) =>
              /\ e \in flying /\ e.kind # q.kind /\ inflight'.open
              /\ e.kind = "page" => ~inflight'.page
              /\ e.kind = "count" => ~inflight'.count
    BY <1>2, <1>5, <1>6, <2>1, <2>2
  <2> QED  BY <1>2, <1>5, <2>1, <2>2 DEF rest
<1> QED  BY <1>7, <1>8, <1>9

\* A reply that is not fresh changes nothing but what is in flight.
LEMMA StaleReplied ==
  ASSUME SessInv, GridInv, UNCHANGED <<session, risks, view, inflight>>,
         NEW q \in flying, ~fresh(q), flying' = flying \ {q}
  PROVE  GridInv'
<1>1. active' = active /\ driver' = driver /\ view' = view /\ inflight' = inflight /\ risks' = risks
  BY DEF session
<1>2. GridTypes'  BY <1>1 DEF GridInv, GridTypes
<1>3. OpenInv'  BY <1>1 DEF GridInv, OpenInv, Fit, InRange, browsing
<1>4. \A c : (fresh(c)' <=> fresh(c)) /\ (Mine(c)' <=> Mine(c))
  BY <1>1 DEF fresh, Mine, browsing
<1>5. PageAwaited'  BY <1>1, <1>4 DEF GridInv, PageAwaited
<1>6. Asked(view)' = Asked(view) /\ (Numbered' <=> Numbered) /\ (browsing(view)' <=> browsing(view))
  BY <1>1 DEF Asked, Numbered, browsing
<1>7. QueryInv'  BY <1>1, <1>4, <1>6 DEF GridInv, QueryInv
<1>8. ShownInv'
  <2>1. Numbered /\ browsing(view) => ~Mine(q)  BY FreshIsMine
  <2> QED  BY <1>1, <1>4, <1>6, <2>1 DEF GridInv, ShownInv
<1> QED  BY <1>2, <1>3, <1>5, <1>7, <1>8 DEF GridInv
\* A fresh page is the page the view waits for.
LEMMA PageLanded ==
  ASSUME SessInv, GridInv, UNCHANGED <<session, risks>>,
         NEW q \in flying, fresh(q), q.kind = "page", NEW how \in Outcomes(q), pageLoaded(q, how)
  PROVE  GridInv' /\ browsing(view') /\ view'.req = view.req /\ view'.rel = view.rel
<1>1. browsing(view) /\ view \in Views /\ q \in Flying /\ done(q, flying \ {q})
  BY DEF fresh, GridInv, GridTypes, pageLoaded
<1>2. active' = active /\ driver' = driver /\ risks' = risks  BY DEF session
<1>3. q.asks \in Answers /\ q.asks # None  BY <1>1, BrowseNone DEF Flying
<1>4. driver # 0 /\ Fit(view, risks) /\ inflight.req = view.req  BY <1>1 DEF GridInv, OpenInv
<1>5. /\ view' \in Views /\ ~view'.loading
      /\ view'.conn = view.conn /\ view'.rel = view.rel /\ view'.filter = view.filter
      /\ view'.sort = view.sort /\ view'.page = view.page /\ view'.total = view.total
      /\ view'.req = view.req
      /\ \/ how = "ok" /\ view'.rows = q.asks /\ view'.err = view.err /\ view'.sel \in {view.sel, None}
         \/ how # "ok" /\ view'.rows = view.rows /\ view'.sel = view.sel /\ (view'.err <=> how = "failed")
  <2>1. CASE how = "ok"
    <3>1. Clamped(view.row, q.asks) \in 0..(Limit - 1)  BY <1>1, <1>3, ClampedIs DEF Views
    <3>2. view' = [view EXCEPT !.loading = FALSE, !.rows = q.asks, !.row = Clamped(@, q.asks),
                               !.sel = IF RowsOn(q.asks) = 0 THEN None ELSE @]
      BY <2>1 DEF pageLoaded
    <3>3. (IF RowsOn(q.asks) = 0 THEN None ELSE view.sel) \in {view.sel, None}  OBVIOUS
    <3> HIDE DEF Clamped, RowsOn
    <3>4. view' \in Views  BY <1>1, <1>3, <3>1, <3>2 DEF Views
    <3>5. /\ view'.loading = FALSE /\ view'.err = view.err
          /\ view'.conn = view.conn /\ view'.rel = view.rel /\ view'.filter = view.filter
          /\ view'.sort = view.sort /\ view'.page = view.page /\ view'.total = view.total
          /\ view'.req = view.req /\ view'.rows = q.asks
          /\ view'.sel = IF RowsOn(q.asks) = 0 THEN None ELSE view.sel
      BY <1>1, <3>2 DEF Views
    <3> QED  BY <2>1, <3>3, <3>4, <3>5
  <2>2. CASE how # "ok"
    <3>1. view' = [view EXCEPT !.loading = FALSE, !.err = (how = "failed")]
      BY <2>2 DEF pageLoaded
    <3>2. view' \in Views  BY <1>1, <3>1 DEF Views
    <3>3. /\ view'.loading = FALSE /\ view'.err = (how = "failed")
          /\ view'.conn = view.conn /\ view'.rel = view.rel /\ view'.filter = view.filter
          /\ view'.sort = view.sort /\ view'.page = view.page /\ view'.total = view.total
          /\ view'.req = view.req /\ view'.rows = view.rows /\ view'.sel = view.sel
      BY <1>1, <3>1 DEF Views
    <3> QED  BY <2>2, <3>2, <3>3
  <2> QED  BY <2>1, <2>2
<1>6. browsing(view')  BY <1>1, <1>5 DEF browsing
<1>7. /\ inflight' \in Inflights /\ inflight'.req = inflight.req /\ flying' \subseteq Flying
      /\ \A c \in flying \ {q} : \E e \in flying' :
           e.kind = c.kind /\ e.conn = c.conn /\ e.req = c.req /\ e.asks = c.asks
      /\ \A e \in flying' : \E c \in flying :
           e.kind = c.kind /\ e.conn = c.conn /\ e.req = c.req /\ e.asks = c.asks
      /\ Numbered => \A e \in flying' : Mine(e) =>
           e \in flying /\ e.kind # "page" /\ inflight'.open /\ (e.kind = "count" => ~inflight'.count)
  BY <1>1, DoneIs
<1>8. ASSUME Numbered PROVE q.asks = Asked(view) /\ ~q.stopped /\ view.loading
  BY <1>1, <1>8, FreshIsMine DEF GridInv, QueryInv
<1>9. GridTypes'  BY <1>5, <1>7 DEF GridTypes
<1>10. OpenInv'
  <2>1. view'.rows # None /\ Numbered => view'.rows.rel = view.rel /\ view'.rows.session = driver
    <3> HAVE view'.rows # None /\ Numbered
    <3>1. CASE view'.rows = q.asks  BY <1>8, <3>1 DEF Asked
    <3>2. CASE view'.rows = view.rows  BY <1>4, <3>2 DEF Fit, Numbered
    <3> QED  BY <1>5, <3>1, <3>2
  <2>2. InRange(view)' <=> InRange(view)  BY <1>5 DEF InRange
  <2>3. Fit(view, risks)'
    BY <1>2, <1>4, <1>5, <1>6, <2>1, <2>2 DEF Fit, Numbered
  <2> QED  BY <1>2, <1>4, <1>5, <1>6, <1>7, <2>3 DEF OpenInv
<1>11. PageAwaited'  BY <1>5 DEF PageAwaited
<1>12. \A e : Mine(e)' <=> Mine(e)  BY <1>2, <1>5 DEF Mine
<1>13. Asked(view)' = Asked(view) /\ (Numbered' <=> Numbered)  BY <1>2, <1>5 DEF Asked, Numbered
<1>14. QueryInv'
  <2> SUFFICES ASSUME Numbered
               PROVE  /\ \A e \in flying' : e.conn = active => e.req <= view.req /\ e.asks.session = driver
                      /\ \A e \in flying' : Mine(e) => e.asks = Asked(view) /\ ~e.stopped
    BY <1>2, <1>5, <1>7, <1>12, <1>13 DEF QueryInv
  <2>1. \A c \in flying : c.conn = active => c.req <= view.req /\ c.asks.session = driver
    BY DEF GridInv, QueryInv
  <2>2. \A c \in flying : Mine(c) => c.asks = Asked(view) /\ ~c.stopped
    BY <1>1 DEF GridInv, QueryInv
  <2>3. \A e \in flying' : e.conn = active => e.req <= view.req /\ e.asks.session = driver
    <3> TAKE e \in flying'
    <3> PICK c \in flying : e.kind = c.kind /\ e.conn = c.conn /\ e.req = c.req /\ e.asks = c.asks
      BY <1>7
    <3> QED  BY <2>1
  <2> QED  BY <1>7, <2>2, <2>3
<1>15. ShownInv'
  <2> SUFFICES ASSUME Numbered
               PROVE  /\ ~view'.err => view'.rows = Asked(view)
                      /\ \/ view.total = None
                         \/ \E e \in flying' : e.kind = "count" /\ Mine(e)
                         \/ view.total = RowsIn[view.rel][view.filter]
                      /\ "early" \notin risks => view'.sel = None
    BY <1>2, <1>5, <1>12, <1>13 DEF ShownInv
  <2>1. how \in {"ok", "failed"}  BY <1>8 DEF Outcomes
  <2>2. ~view'.err => view'.rows = Asked(view)  BY <1>5, <1>8, <2>1
  <2>3. "early" \notin risks => view.sel = None  BY <1>1, <1>8 DEF GridInv, ShownInv
  <2>4. ASSUME NEW c \in flying, c.kind = "count", Mine(c)
        PROVE  \E e \in flying' : e.kind = "count" /\ Mine(e)
    <3>1. c \in flying \ {q}  BY <2>4
    <3> PICK e \in flying' : e.kind = c.kind /\ e.conn = c.conn /\ e.req = c.req /\ e.asks = c.asks
      BY <1>7, <3>1
    <3> QED  BY <2>4 DEF Mine
  <2>5. \/ view.total = None
        \/ \E c \in flying : c.kind = "count" /\ Mine(c)
        \/ view.total = RowsIn[view.rel][view.filter]
    BY <1>1 DEF GridInv, ShownInv
  <2> QED  BY <1>5, <2>2, <2>3, <2>4, <2>5
<1> QED  BY <1>5, <1>6, <1>9, <1>10, <1>11, <1>14, <1>15 DEF GridInv

\* A fresh count is of the rows the view asks for.
LEMMA CountLanded ==
  ASSUME SessInv, GridInv, UNCHANGED <<session, risks>>,
         NEW q \in flying, fresh(q), q.kind = "count", NEW how \in Outcomes(q), rowCount(q, how)
  PROVE  GridInv' /\ browsing(view') /\ view'.req = view.req /\ view'.rel = view.rel
<1>1. browsing(view) /\ view \in Views /\ q \in Flying /\ done(q, flying \ {q})
  BY DEF fresh, GridInv, GridTypes, rowCount
<1>2. active' = active /\ driver' = driver /\ risks' = risks  BY DEF session
<1>3. RowsIn[q.asks.rel][q.asks.filter] \in Nat  BY <1>1, GridAssumption DEF Flying, Answers
<1>4. driver # 0 /\ Fit(view, risks) /\ inflight.req = view.req  BY <1>1 DEF GridInv, OpenInv
<1>5. /\ view' \in Views /\ view'.loading = view.loading /\ view'.err = view.err
      /\ view'.conn = view.conn /\ view'.rel = view.rel /\ view'.filter = view.filter
      /\ view'.sort = view.sort /\ view'.page = view.page /\ view'.rows = view.rows
      /\ view'.sel = view.sel /\ view'.req = view.req
      /\ \/ how = "ok" /\ view'.total = RowsIn[q.asks.rel][q.asks.filter]
         \/ how = "failed" /\ view'.total = None
         \/ how = "cancelled"
  <2>1. how \in {"ok", "failed", "cancelled"}  BY DEF Outcomes
  <2>2. CASE how = "ok"
    <3>1. view' = [view EXCEPT !.total = RowsIn[q.asks.rel][q.asks.filter]]  BY <2>2 DEF rowCount
    <3> QED  BY <1>1, <1>3, <2>2, <3>1 DEF Views
  <2>3. CASE how = "failed"
    <3>1. view' = [view EXCEPT !.total = None]  BY <2>3 DEF rowCount
    <3> QED  BY <1>1, <2>3, <3>1 DEF Views
  <2>4. CASE how = "cancelled"
    <3>1. view' = view  BY <2>4 DEF rowCount
    <3> QED  BY <1>1, <2>4, <3>1
  <2> QED  BY <2>1, <2>2, <2>3, <2>4
<1>6. browsing(view')  BY <1>1, <1>5 DEF browsing
<1>7. /\ inflight' \in Inflights /\ inflight'.req = inflight.req /\ flying' \subseteq Flying
      /\ \A c \in flying \ {q} : \E e \in flying' :
           e.kind = c.kind /\ e.conn = c.conn /\ e.req = c.req /\ e.asks = c.asks
      /\ \A e \in flying' : \E c \in flying :
           e.kind = c.kind /\ e.conn = c.conn /\ e.req = c.req /\ e.asks = c.asks
      /\ Numbered => \A e \in flying' : Mine(e) =>
           e \in flying /\ e.kind # "count" /\ inflight'.open /\ (e.kind = "page" => ~inflight'.page)
  BY <1>1, DoneIs
<1>8. ASSUME Numbered PROVE q.asks = Asked(view) /\ ~q.stopped
  BY <1>1, <1>8, FreshIsMine DEF GridInv, QueryInv
<1>9. GridTypes'  BY <1>5, <1>7 DEF GridTypes
<1>10. OpenInv'
  <2>1. InRange(view)' <=> InRange(view)  BY <1>5 DEF InRange
  <2>2. Fit(view, risks)'
    BY <1>2, <1>4, <1>5, <1>6, <2>1 DEF Fit
  <2> QED  BY <1>2, <1>4, <1>5, <1>6, <1>7, <2>2 DEF OpenInv
<1>11. PageAwaited'
  <2> SUFFICES ASSUME "rename" \notin risks, view.loading
               PROVE  \E e \in flying' : e.kind = "page" /\ fresh(e)'
    BY <1>2, <1>5 DEF PageAwaited
  <2> PICK c \in flying : c.kind = "page" /\ fresh(c)  BY DEF GridInv, PageAwaited
  <2>1. c \in flying \ {q}  OBVIOUS
  <2> PICK e \in flying' : e.kind = c.kind /\ e.conn = c.conn /\ e.req = c.req /\ e.asks = c.asks
    BY <1>7, <2>1
  <2> QED  BY <1>2, <1>5, <1>6 DEF fresh
<1>12. \A e : Mine(e)' <=> Mine(e)  BY <1>2, <1>5 DEF Mine
<1>13. Asked(view)' = Asked(view) /\ (Numbered' <=> Numbered)  BY <1>2, <1>5 DEF Asked, Numbered
<1>14. QueryInv'
  <2> SUFFICES ASSUME Numbered
               PROVE  /\ \A e \in flying' : e.conn = active => e.req <= view.req /\ e.asks.session = driver
                      /\ \A e \in flying' : Mine(e) => e.asks = Asked(view) /\ ~e.stopped
                                                       /\ (e.kind = "page" => view.loading)
    BY <1>2, <1>5, <1>7, <1>12, <1>13 DEF QueryInv
  <2>1. \A c \in flying : c.conn = active => c.req <= view.req /\ c.asks.session = driver
    BY DEF GridInv, QueryInv
  <2>2. \A c \in flying : Mine(c) => c.asks = Asked(view) /\ ~c.stopped /\ (c.kind = "page" => view.loading)
    BY <1>1 DEF GridInv, QueryInv
  <2>3. \A e \in flying' : e.conn = active => e.req <= view.req /\ e.asks.session = driver
    <3> TAKE e \in flying'
    <3> PICK c \in flying : e.kind = c.kind /\ e.conn = c.conn /\ e.req = c.req /\ e.asks = c.asks
      BY <1>7
    <3> QED  BY <2>1
  <2> QED  BY <1>7, <2>2, <2>3
<1>15. ShownInv'
  <2> SUFFICES ASSUME Numbered
               PROVE  view'.total = None \/ view'.total = RowsIn[view.rel][view.filter]
    BY <1>1, <1>2, <1>5, <1>12, <1>13 DEF GridInv, ShownInv
  <2>1. how \in {"ok", "failed"}  BY <1>8 DEF Outcomes
  <2>2. q.asks.rel = view.rel /\ q.asks.filter = view.filter  BY <1>8 DEF Asked
  <2> QED  BY <1>5, <2>1, <2>2
<1> QED  BY <1>5, <1>6, <1>9, <1>10, <1>11, <1>14, <1>15 DEF GridInv
\* A reply keeps the grid true, whatever it brings.
LEMMA Replied ==
  ASSUME SessInv, GridInv, UNCHANGED <<session, risks>>, NEW q \in flying, Reply(q)
  PROVE  GridInv' /\ (browsing(view') <=> browsing(view)) /\ view'.req = view.req /\ view'.rel = view.rel
<1> PICK how \in Outcomes(q) : IF q.kind = "page" THEN pageLoaded(q, how) ELSE rowCount(q, how)
  BY DEF Reply
<1>1. CASE ~fresh(q)
  <2>1. view' = view /\ inflight' = inflight /\ flying' = flying \ {q}
    BY <1>1 DEF pageLoaded, rowCount
  <2> QED  BY <1>1, <2>1, StaleReplied
<1>2. CASE fresh(q) /\ q.kind = "page"
  <2>1. browsing(view)  BY <1>2 DEF fresh
  <2> QED  BY <1>2, <2>1, PageLanded
<1>3. CASE fresh(q) /\ q.kind # "page"
  <2>1. browsing(view)  BY <1>3 DEF fresh
  <2>2. q.kind = "count"  BY <1>3 DEF GridInv, GridTypes, Flying
  <2> QED  BY <1>3, <2>1, <2>2, CountLanded
<1> QED  BY <1>1, <1>2, <1>3

\* Nothing is open any more: the request number is kept, or was forgotten
\* while nothing of that connection was under way.
LEMMA GridLeft ==
  ASSUME SessInv, GridInv, risks \subseteq risks',
         view' \in Views, ~browsing(view'), view'.rows = None, view'.sel = None, ~view'.loading,
         stopPageQueries \/ UNCHANGED <<inflight, flying>>,
         \/ UNCHANGED session /\ view'.req >= view.req
         \/ \A q \in flying : q.conn = active' => "reset" \in risks'
  PROVE  GridInv'
<1>1. inflight \in Inflights /\ flying \subseteq Flying /\ view \in Views  BY DEF GridInv, GridTypes
<1>2. inflight' \in Inflights
  BY <1>1 DEF stopPageQueries, Inflights
<1>3. /\ flying' \subseteq Flying
      /\ \A e \in flying' : \E c \in flying :
           e.kind = c.kind /\ e.conn = c.conn /\ e.req = c.req /\ e.asks = c.asks
  <2>1. CASE stopPageQueries  BY <1>1, <2>1, CancelledIs DEF stopPageQueries
  <2>2. CASE UNCHANGED <<inflight, flying>>  BY <1>1, <2>2
  <2> QED  BY <2>1, <2>2
<1>4. GridTypes'  BY <1>2, <1>3 DEF GridTypes
<1>5. OpenInv' /\ PageAwaited' /\ ShownInv'
  BY DEF OpenInv, PageAwaited, ShownInv, browsing
<1>6. QueryInv'
  <2> SUFFICES ASSUME Numbered', NEW e \in flying', e.conn = active'
               PROVE  e.req <= view'.req /\ e.asks.session = driver'
    BY DEF QueryInv, browsing
  <2> PICK c \in flying : e.kind = c.kind /\ e.conn = c.conn /\ e.req = c.req /\ e.asks = c.asks
    BY <1>3
  <2>1. Numbered /\ "reset" \notin risks'  BY DEF Numbered
  <2>2. UNCHANGED session /\ view'.req >= view.req  BY <2>1
  <2>3. c.req <= view.req /\ c.asks.session = driver
    BY <2>1, <2>2 DEF GridInv, QueryInv, session
  <2>4. c.req \in Nat /\ view.req \in Nat /\ view'.req \in Nat  BY <1>1 DEF Flying, Views
  <2> QED  BY <2>2, <2>3, <2>4 DEF session
<1> QED  BY <1>4, <1>5, <1>6 DEF GridInv

\* The live connection has another name: what was asked under the old one is
\* dropped from then on.
LEMMA GridRenamed ==
  ASSUME SessInv, GridInv, UNCHANGED <<driver, view, inflight, flying>>, risks' = risks \cup {"rename"}
  PROVE  GridInv'
<1>1. GridTypes'  BY DEF GridInv, GridTypes
<1>2. ~Numbered' /\ "rename" \in risks'  BY DEF Numbered
<1>3. OpenInv'  BY <1>2 DEF GridInv, OpenInv, Fit, browsing
<1>4. PageAwaited' /\ QueryInv' /\ ShownInv'  BY <1>2 DEF PageAwaited, QueryInv, ShownInv
<1> QED  BY <1>1, <1>3, <1>4 DEF GridInv
-----------------------------------------------------------------------------
(* Metadata, foreign keys and the views to come back to.                   *)

\* A fetch of metadata counts on and has its answer under way.
LEMMA MetaStarts ==
  ASSUME SessInv, NEW m \in Metas, m.req < MaxKeys, driver # 0, NEW v, v.rel \in Relations
  PROVE  LET e == startMetaLoad(m, v) IN
         /\ e \in Metas /\ e.req = m.req + 1 /\ e.loading /\ ~e.loaded /\ e.after = m.after
         /\ \E q \in e.flying : q.req = e.req /\ q.conn = active /\ q.rel = v.rel
<1> DEFINE q == [req |-> m.req + 1, conn |-> active, rel |-> v.rel]
<1>1. active \in Names  BY DEF SessInv
<1>2. m.req + 1 \in 1..MaxKeys  BY BrowseAssumption DEF Metas
<1>3. q \in [req : 1..MaxKeys, conn : Names, rel : Relations]  BY <1>1, <1>2
<1>4. q.req = m.req + 1 /\ q.conn = active /\ q.rel = v.rel  OBVIOUS
<1> DEFINE e == startMetaLoad(m, v)
<1> HIDE DEF q
<1>5. e = [m EXCEPT !.req = @ + 1, !.loading = TRUE, !.loaded = FALSE, !.err = FALSE,
                    !.flying = @ \cup {q}]
  BY DEF startMetaLoad, q
<1>6. m.flying \cup {q} \in SUBSET [req : 1..MaxKeys, conn : Names, rel : Relations]
  BY <1>3 DEF Metas
<1> HIDE DEF e
<1>7. m.req + 1 \in 0..MaxKeys  BY <1>2
<1>8. e \in Metas  BY <1>5, <1>6, <1>7 DEF Metas
<1>9. /\ e.req = m.req + 1 /\ e.loading = TRUE /\ e.loaded = FALSE /\ e.after = m.after
      /\ e.flying = m.flying \cup {q}
  BY <1>5 DEF Metas
<1> QED  BY <1>4, <1>8, <1>9 DEF e

\* Metadata that is dropped waits for nothing, and nothing waits for it.
LEMMA MetaReset ==
  ASSUME meta \in Metas
  PROVE  /\ resetMeta \in Metas /\ resetMeta.req = meta.req
         /\ resetMeta.after = None /\ ~resetMeta.loading
<1>1. NoMeta \in Metas  BY BrowseAssumption DEF NoMeta, Metas
<1>2. NoMeta.after = None /\ NoMeta.loading = FALSE  BY DEF NoMeta
<1> DEFINE e == [NoMeta EXCEPT !.req = meta.req, !.flying = meta.flying]
<1>3. e \in Metas /\ e.req = meta.req /\ e.after = NoMeta.after /\ e.loading = NoMeta.loading
  BY ONLY <1>1, meta \in Metas DEF Metas
<1> QED  BY <1>2, <1>3 DEF resetMeta

\* ensureMeta starts a fetch or leaves the metadata as it is.
LEMMA MetaEnsured ==
  ASSUME SessInv, NEW m \in Metas, NEW v \in Views, NEW t, t # "data" => m.req < MaxKeys
  PROVE  LET e == ensureMeta(m, v, t) IN
         /\ e \in Metas /\ e.after = m.after
         /\ e = m \/ /\ e.req = m.req + 1 /\ t # "data" /\ browsing(v)
                     /\ \E q \in e.flying : q.req = e.req /\ q.conn = active /\ q.rel = v.rel
<1> DEFINE e == ensureMeta(m, v, t)
<1>1. CASE t # "data" /\ driver # 0 /\ browsing(v) /\ ~m.loaded /\ ~m.loading
  <2>1. e = startMetaLoad(m, v)  BY <1>1 DEF ensureMeta
  <2>2. v.rel \in Relations  BY <1>1 DEF Views, browsing
  <2> HIDE DEF e
  <2>3. /\ e \in Metas /\ e.req = m.req + 1 /\ e.after = m.after
        /\ \E q \in e.flying : q.req = e.req /\ q.conn = active /\ q.rel = v.rel
    BY <1>1, <2>1, <2>2, MetaStarts
  <2> QED  BY <1>1, <2>3 DEF e
<1>2. CASE ~(t # "data" /\ driver # 0 /\ browsing(v) /\ ~m.loaded /\ ~m.loading)
  <2>1. e = m  BY <1>2 DEF ensureMeta
  <2> QED  BY <2>1
<1> QED  BY <1>1, <1>2

\* Every key that loads has a fetch under way, and is of the live connection.
Fetched(f) == \A key \in f.loading : \E q \in f.flying : q.key = key /\ key.conn = active

\* ensureFKs starts a fetch or leaves the foreign keys as they are.
LEMMA FKsEnsured ==
  ASSUME SessInv, NEW f \in FKTypes, NEW v \in Views
  PROVE  LET g == ensureFKs(f, v) IN g \in FKTypes /\ g.after = f.after /\ (Fetched(f) => Fetched(g))
<1> DEFINE g == ensureFKs(f, v)
<1> DEFINE q == [session |-> driver, key |-> fkKey(v)]
<1>1. CASE driver # 0 /\ browsing(v) /\ fkKey(v) \notin f.cache \cup f.loading
  <2>1. fkKey(v) \in FKKeys /\ fkKey(v).conn = active
    BY <1>1 DEF SessInv, Views, browsing, fkKey, FKKeys
  <2>2. driver \in 1..MaxKeys  BY <1>1, BrowseAssumption DEF SessInv
  <2>3. q \in [session : 1..MaxKeys, key : FKKeys] /\ q.key = fkKey(v)  BY <2>1, <2>2
  <2>4. g = [f EXCEPT !.loading = @ \cup {fkKey(v)}, !.flying = @ \cup {q}]
    BY <1>1 DEF ensureFKs
  <2> HIDE DEF q, g
  <2>5. f.loading \cup {fkKey(v)} \in SUBSET FKKeys  BY <2>1 DEF FKTypes
  <2>6. f.flying \cup {q} \in SUBSET [session : 1..MaxKeys, key : FKKeys]  BY <2>3 DEF FKTypes
  <2> HIDE DEF fkKey
  <2>7. g \in FKTypes  BY <2>4, <2>5, <2>6 DEF FKTypes
  <2>8. g.after = f.after /\ g.loading = f.loading \cup {fkKey(v)} /\ g.flying = f.flying \cup {q}
    BY <2>4 DEF FKTypes
  <2>9. Fetched(f) => Fetched(g)  BY <2>1, <2>3, <2>8 DEF Fetched
  <2> QED  BY <2>7, <2>8, <2>9 DEF g
<1>2. CASE ~(driver # 0 /\ browsing(v) /\ fkKey(v) \notin f.cache \cup f.loading)
  <2>1. g = f  BY <1>2 DEF ensureFKs
  <2> QED  BY <2>1
<1> QED  BY <1>1, <1>2

\* A view that fits still fits when more risks are taken.
LEMMA FitGrows ==
  ASSUME NEW v, NEW rs, NEW ts, rs \subseteq ts, Fit(v, rs)
  PROVE  Fit(v, ts)
BY DEF Fit

\* The views to come back to still fit, as does the one left behind.
LEMMA HistoryKept ==
  ASSUME GridInv, HistoryInv, UNCHANGED session, risks \subseteq risks',
         history' \in Seq(Places), Len(history') <= MaxHistory,
         history' # <<>> => driver # 0,
         \A i \in 1..Len(history') :
           \/ \E j \in 1..Len(history) : history'[i] = history[j]
           \/ history'[i].view = view /\ browsing(view)
  PROVE  HistoryInv'
<1>1. active' = active /\ driver' = driver  BY DEF session
<1>2. ASSUME NEW i \in 1..Len(history')
      PROVE  Fit(history'[i].view, risks')
  <2>1. CASE \E j \in 1..Len(history) : history'[i] = history[j]
    <3> PICK j \in 1..Len(history) : history'[i] = history[j]  BY <2>1
    <3>1. Fit(history'[i].view, risks)  BY DEF HistoryInv
    <3> QED  BY <3>1, FitGrows
  <2>2. CASE history'[i].view = view /\ browsing(view)
    <3>1. Fit(history'[i].view, risks)  BY <2>2 DEF GridInv, OpenInv
    <3> QED  BY <3>1, FitGrows
  <2> QED  BY <1>2, <2>1, <2>2
<1>3. \A i \in 1..Len(history') : Fit(history[i].view, risks)'
  BY <1>1, <1>2 DEF Fit, browsing, InRange
<1> QED  BY <1>1, <1>3 DEF HistoryInv

\* A jump leaves the view on top of the others, the oldest of too many goes.
LEMMA PushedIs ==
  ASSUME SessInv, GridInv, HistoryInv, browsing(view)
  PROVE  /\ Pushed \in Seq(Places) /\ Len(Pushed) <= MaxHistory
         /\ \A i \in 1..Len(Pushed) :
              \/ \E j \in 1..Len(history) : Pushed[i] = history[j]
              \/ Pushed[i].view = view /\ browsing(view)
<1> DEFINE e == [view |-> view, tab |-> tab]
<1> DEFINE h == Append(history, e)
<1>1. e \in Places /\ e.view = view  BY DEF SessInv, GridInv, GridTypes, Places
<1>2. history \in Seq(Places) /\ Len(history) \in Nat /\ Len(history) <= MaxHistory
  BY DEF HistoryInv
<1> HIDE DEF e
<1>3. /\ h \in Seq(Places) /\ Len(h) = Len(history) + 1
      /\ \A i \in 1..Len(history) : h[i] = history[i]
      /\ h[Len(history) + 1] = e
  BY <1>1, <1>2, AppendProperties
<1>4. \A i \in 1..Len(h) : (\E j \in 1..Len(history) : h[i] = history[j]) \/ h[i].view = view
  <2> TAKE i \in 1..Len(h)
  <2>1. i \in 1..Len(history) \/ i = Len(history) + 1  BY <1>2, <1>3
  <2> QED  BY <1>1, <1>3, <2>1
<1>5. Pushed = IF Len(h) > MaxHistory THEN Tail(h) ELSE h  BY DEF Pushed, e
<1> HIDE DEF h
<1>6. CASE Len(h) > MaxHistory
  <2>1. h # <<>>  BY <1>2, <1>3
  <2>2. /\ Tail(h) \in Seq(Places) /\ Len(Tail(h)) = Len(h) - 1
        /\ \A i \in 1..Len(Tail(h)) : Tail(h)[i] = h[i + 1]
    BY <1>3, <2>1, HeadTailProperties
  <2>3. \A i \in 1..Len(Tail(h)) : i + 1 \in 1..Len(h)  BY <1>2, <1>3, <2>2
  <2>4. \A i \in 1..Len(Tail(h)) :
          (\E j \in 1..Len(history) : Tail(h)[i] = history[j]) \/ Tail(h)[i].view = view
    BY <1>4, <2>2, <2>3
  <2> QED  BY <1>2, <1>3, <1>5, <1>6, <2>2, <2>4
<1>7. CASE ~(Len(h) > MaxHistory)
  <2>1. Len(h) <= MaxHistory  BY <1>2, <1>3, <1>7, BrowseAssumption
  <2> QED  BY <1>3, <1>4, <1>5, <1>7, <2>1
<1> QED  BY <1>6, <1>7
-----------------------------------------------------------------------------
(* What a step does to the whole.                                          *)

AllRisks == {"reset", "rename", "early", "blind"}

\* Keys and sessions are counted, and a risk stays one.
LEMMA SessKept ==
  ASSUME SessInv, UNCHANGED session, keys' \in Nat, keys <= keys', keys' <= MaxKeys,
         risks' \subseteq AllRisks, tab' \in Tabs
  PROVE  SessInv'
BY DEF SessInv, session, AllRisks

\* A key counts.
LEMMA KeyCounts ==
  ASSUME SessInv, Key
  PROVE  keys' = keys + 1 /\ keys' \in Nat /\ keys <= keys' /\ keys' <= MaxKeys
BY BrowseAssumption DEF SessInv, Key

\* Nothing open is a view.
LEMMA NoViewIs ==
  /\ NoView \in Views /\ ~browsing(NoView) /\ NoView.page = 0 /\ NoView.rows = None
  /\ NoView.sel = None /\ ~NoView.loading /\ NoView.req = 0
<1>1. 0 \in 0..(Limit - 1) /\ 0 \in 0..MaxKeys  BY GridAssumption, BrowseAssumption
<1>2. NoView \in Views  BY <1>1, GridAssumption DEF NoView, Views
<1>3. /\ NoView.rel = None /\ NoView.page = 0 /\ NoView.rows = None /\ NoView.sel = None
      /\ NoView.loading = FALSE /\ NoView.req = 0
  BY DEF NoView
<1> QED  BY <1>2, <1>3 DEF browsing

\* A relation that is opened fits, with whatever filter.
LEMMA OpenedFits ==
  ASSUME SessInv, GridInv, driver # 0, NEW rel \in Relations, NEW w \in Filters, NEW rs,
         NEW v, v = Opened(rel) \/ v = [Opened(rel) EXCEPT !.filter = w]
  PROVE  Fit(v, rs) /\ v.req = view.req /\ v.rel = rel
<1>1. active \in Names /\ rel # None  BY GridAssumption DEF SessInv
<1>2. view.req \in 0..MaxKeys  BY DEF GridInv, GridTypes, Views
<1>3. NoView \in Views /\ NoView.page = 0 /\ NoView.rows = None
  BY NoViewIs
<1> DEFINE o == [NoView EXCEPT !.conn = active, !.rel = rel, !.req = view.req]
<1>4. o = Opened(rel)  BY DEF Opened
<1>5. /\ o \in Views /\ o.conn = active /\ o.rel = rel /\ o.page = 0 /\ o.rows = None
      /\ o.req = view.req
  BY ONLY <1>1, <1>2, <1>3, rel \in Relations DEF Views
<1>6. v = o \/ v = [o EXCEPT !.filter = w]  BY <1>4
<1> HIDE DEF o
<1>7. /\ v \in Views /\ v.conn = active /\ v.rel = rel /\ v.page = 0 /\ v.rows = None
      /\ v.req = view.req
  BY ONLY <1>5, <1>6, w \in Filters DEF Views
<1> QED  BY <1>1, <1>7 DEF Fit, browsing, InRange

\* The open view with another page, filter or order fits, if there is such a
\* page.
LEMMA ChangedFits ==
  ASSUME GridInv, browsing(view), NEW rs, risks \subseteq rs,
         NEW v \in Views, v.rel = view.rel, v.conn = view.conn, v.rows = view.rows,
         rs \cap {"reset", "rename", "blind"} = {} => InRange(v)
  PROVE  Fit(v, rs)
<1>1. Fit(view, risks)  BY DEF GridInv, OpenInv
<1> QED  BY <1>1 DEF Fit, browsing

\* The grid alone changes.
LEMMA GridAlone ==
  ASSUME BrowseInv, GridInv', UNCHANGED <<session, tab, meta, fk, history, deed>>,
         risks \subseteq risks', risks' \subseteq AllRisks,
         view'.rel = view.rel, keys' \in Nat, keys <= keys', keys' <= MaxKeys,
         view'.req = view.req \/ (view'.req = view.req + 1 /\ keys' = keys + 1)
  PROVE  BrowseInv'
<1>1. active' = active /\ driver' = driver  BY DEF session
<1>2. SessInv'  BY SessKept DEF BrowseInv, SessInv
<1>3. HistoryInv'
  BY HistoryKept DEF BrowseInv, HistoryInv
<1>4. view.req \in Nat /\ meta.req \in Nat /\ Parked(fk) \in Nat /\ Parked(fk)' = Parked(fk)
  BY DEF BrowseInv, GridInv, GridTypes, Views, FetchInv, Metas, Parked
<1>5. CountInv'  BY <1>4 DEF BrowseInv, CountInv, SessInv
<1>6. \A q : freshMeta(q)' <=> freshMeta(q)  BY <1>1 DEF freshMeta, browsing
<1>7. FetchInv'  BY <1>1, <1>6 DEF BrowseInv, FetchInv
<1>8. DeedInv'  BY <1>1 DEF BrowseInv, DeedInv, Numbered, browsing
<1> QED  BY <1>2, <1>3, <1>5, <1>7, <1>8 DEF BrowseInv

\* Another view is opened: its page, its metadata where it is shown, and its
\* foreign keys are asked for.
LEMMA Gone ==
  ASSUME BrowseInv, UNCHANGED <<session, deed>>, driver # 0,
         risks \subseteq risks', risks' \subseteq AllRisks, tab' \in Tabs,
         NEW v, Fit(v, risks'), v.req = view.req, Reload(v),
         NEW t \in Tabs, NEW f \in FKTypes, "rename" \notin risks => Fetched(f),
         meta' = ensureMeta(resetMeta, view', t), fk' = ensureFKs(f, view'),
         HistoryInv',
         keys' \in Nat, keys <= keys', keys' <= MaxKeys, t # "data" => keys' = keys + 1,
         view.req + 1 + Parked(f) <= keys'
  PROVE  BrowseInv'
<1>1. active' = active /\ driver' = driver  BY DEF session
<1>2. view.req \in Nat /\ Parked(f) \in Nat  BY DEF BrowseInv, GridInv, GridTypes, Views, Parked
<1>3. meta \in Metas /\ meta.req \in Nat /\ meta.req <= keys
  BY DEF BrowseInv, FetchInv, Metas, CountInv
<1>4. keys \in Nat /\ MaxKeys \in Nat  BY BrowseAssumption DEF BrowseInv, SessInv
<1>5. view.req < MaxKeys  BY <1>2, <1>4
<1>6. GridInv' /\ browsing(view') /\ view'.req = view.req + 1
  BY <1>5, Reloaded DEF BrowseInv
<1>7. SessInv'  BY SessKept DEF BrowseInv
<1>8. view' \in Views  BY <1>6 DEF GridInv, GridTypes
<1>9. resetMeta \in Metas /\ resetMeta.req = meta.req /\ resetMeta.after = None /\ ~resetMeta.loading
  BY <1>3, MetaReset
<1>10. t # "data" => resetMeta.req < MaxKeys  BY <1>3, <1>4, <1>9
<1>11. /\ meta' \in Metas /\ meta'.after = None
       /\ \/ meta' = resetMeta
          \/ /\ meta'.req = meta.req + 1 /\ t # "data"
             /\ \E q \in meta'.flying : q.req = meta'.req /\ q.conn = active /\ q.rel = view'.rel
  BY <1>8, <1>9, <1>10, MetaEnsured DEF BrowseInv
<1>12. fk' \in FKTypes /\ fk'.after = f.after /\ ("rename" \notin risks => Fetched(fk'))
  BY <1>8, FKsEnsured DEF BrowseInv
<1>13. FetchInv'
  <2>1. meta'.loading => \E q \in meta'.flying : freshMeta(q)'
    <3>1. CASE meta' = resetMeta  BY <1>9, <3>1
    <3>2. CASE \E q \in meta'.flying : q.req = meta'.req /\ q.conn = active /\ q.rel = view'.rel
      BY <1>1, <1>6, <3>2 DEF freshMeta
    <3> QED  BY <1>11, <3>1, <3>2
  <2> QED  BY <1>1, <1>11, <1>12, <2>1 DEF FetchInv, Fetched
<1>14. CountInv'
  <2>1. Parked(fk') = Parked(f)  BY <1>12 DEF Parked
  <2>2. meta'.req <= keys'  BY <1>3, <1>4, <1>9, <1>11
  <2>3. view'.req + Parked(fk') <= keys'  BY <1>2, <1>6, <2>1
  <2> QED  BY <2>2, <2>3 DEF CountInv, Parked
<1>15. DeedInv'
  BY <1>11 DEF BrowseInv, DeedInv, Numbered
<1> QED  BY <1>6, <1>7, <1>13, <1>14, <1>15 DEF BrowseInv
-----------------------------------------------------------------------------
(* Every step keeps the invariant: opening, jumping and coming back.       *)

\* Without a view to come back to there is nothing to keep.
LEMMA NoHistory ==
  ASSUME history' = <<>>
  PROVE  HistoryInv'
<1>1. <<>> \in Seq(Places) /\ Len(<<>>) = 0  BY EmptySeq
<1> QED  BY <1>1, BrowseAssumption DEF HistoryInv

\* A key that is not parked any more owes no jump.
LEMMA UnparkedIs ==
  ASSUME NEW f \in FKTypes
  PROVE  /\ Unparked(f) \in FKTypes /\ Parked(Unparked(f)) = 0 /\ (Fetched(f) => Fetched(Unparked(f)))
<1>1. /\ Unparked(f) \in FKTypes /\ Unparked(f).after = FALSE
      /\ Unparked(f).loading = f.loading /\ Unparked(f).flying = f.flying
  BY DEF Unparked, FKTypes
<1> QED  BY <1>1 DEF Parked, Fetched

\* What every step may use of the invariant.
LEMMA InvFacts ==
  ASSUME BrowseInv
  PROVE  /\ SessInv /\ GridInv /\ HistoryInv /\ view \in Views
         /\ keys \in Nat /\ view.req \in Nat /\ meta.req \in Nat /\ meta.req <= keys
         /\ Parked(fk) \in Nat /\ view.req + Parked(fk) <= keys
         /\ risks \subseteq AllRisks /\ tab \in Tabs
         /\ meta \in Metas /\ fk \in FKTypes /\ ("rename" \notin risks => Fetched(fk))
BY DEF BrowseInv, SessInv, GridInv, GridTypes, Views, FetchInv, Metas, CountInv, Parked, Fetched, AllRisks

\* OpenObject keeps the invariant.
LEMMA OpenKept ==
  ASSUME BrowseInv, NEW rel \in Relations, OpenObject(rel)
  PROVE  BrowseInv'
<1> DEFINE v == Opened(rel)
<1> DEFINE f == Unparked(fk)
<1>1. driver # 0 /\ Reload(v) /\ meta' = ensureMeta(resetMeta, view', tab) /\ fk' = ensureFKs(f, view')
  BY DEF OpenObject, openTable
<1>2. Key /\ history' = <<>> /\ UNCHANGED <<session, risks, tab, deed>>  BY DEF OpenObject
<1>3. Fit(v, risks') /\ v.req = view.req  BY <1>1, InvFacts, OpenedFits, GridAssumption
<1>4. f \in FKTypes /\ Parked(f) = 0 /\ ("rename" \notin risks => Fetched(f))
  BY InvFacts, UnparkedIs
<1>5. HistoryInv'  BY <1>2, NoHistory
<1>6. keys' = keys + 1 /\ keys' \in Nat /\ keys <= keys' /\ keys' <= MaxKeys
  BY <1>2, InvFacts, KeyCounts
<1>7. view.req + 1 + Parked(f) <= keys'  BY <1>4, <1>6, InvFacts
<1> HIDE DEF v, f
<1> QED  BY <1>1, <1>2, <1>3, <1>4, <1>5, <1>6, <1>7, InvFacts, Gone

\* A jump keeps the invariant, whether a key or a reply makes it.
LEMMA JumpKept ==
  ASSUME BrowseInv, UNCHANGED deed, driver # 0, browsing(view), NEW rel \in Relations,
         NEW f \in FKTypes, "rename" \notin risks => Fetched(f), jumpTo(rel, f),
         keys' \in Nat, keys <= keys', keys' <= MaxKeys, view.req + 1 + Parked(f) <= keys'
  PROVE  BrowseInv'
<1> PICK w \in Filters \ {Plain} : Go([Opened(rel) EXCEPT !.filter = w], "data", f)
  BY DEF jumpTo
<1> DEFINE v == [Opened(rel) EXCEPT !.filter = w]
<1>1. /\ Reload(v) /\ tab' = "data" /\ meta' = ensureMeta(resetMeta, view', "data")
      /\ fk' = ensureFKs(f, view') /\ UNCHANGED <<session, risks>>
  BY DEF Go
<1>2. Fit(v, risks') /\ v.req = view.req  BY InvFacts, OpenedFits
<1>3. history' = Pushed  BY DEF jumpTo
<1>4. HistoryInv'  BY <1>1, <1>3, InvFacts, PushedIs, HistoryKept
<1> HIDE DEF v
<1> QED  BY <1>1, <1>2, <1>4, InvFacts, Gone DEF Tabs

\* walkRelation keeps the invariant.
LEMMA WalkKept ==
  ASSUME BrowseInv, NEW rel \in Relations, walkRelation(rel)
  PROVE  BrowseInv'
<1> DEFINE v == Opened(rel)
<1>1. /\ Reload(v) /\ tab' = "relations" /\ meta' = ensureMeta(resetMeta, view', "relations")
      /\ fk' = ensureFKs(fk, view') /\ UNCHANGED <<session, risks, deed>>
  BY DEF walkRelation, Go
<1>2. Key /\ browsing(view) /\ driver # 0 /\ history' = Pushed  BY DEF walkRelation
<1>3. Fit(v, risks') /\ v.req = view.req  BY <1>2, InvFacts, OpenedFits, GridAssumption
<1>4. HistoryInv'  BY <1>1, <1>2, InvFacts, PushedIs, HistoryKept
<1>5. keys' = keys + 1 /\ keys' \in Nat /\ keys <= keys' /\ keys' <= MaxKeys
  BY <1>2, InvFacts, KeyCounts
<1>6. view.req + 1 + Parked(fk) <= keys'  BY <1>5, InvFacts
<1> HIDE DEF v
<1> QED  BY <1>1, <1>2, <1>3, <1>4, <1>5, <1>6, InvFacts, Gone DEF Tabs

\* browseBack keeps the invariant.
LEMMA BackKept ==
  ASSUME BrowseInv, browseBack
  PROVE  BrowseInv'
<1> DEFINE n == Len(history)
<1> DEFINE st == history[n]
<1> DEFINE v == [st.view EXCEPT !.req = view.req, !.loading = FALSE, !.err = FALSE]
<1>1. /\ Reload(v) /\ tab' = st.tab /\ meta' = ensureMeta(resetMeta, view', st.tab)
      /\ fk' = ensureFKs(fk, view') /\ UNCHANGED <<session, risks, deed>>
  BY DEF browseBack, Go
<1>2. Key /\ history # <<>> /\ history' = SubSeq(history, 1, n - 1)  BY DEF browseBack
<1>3. /\ history \in Seq(Places) /\ n \in Nat /\ n <= MaxHistory /\ driver # 0
      /\ \A i \in 1..n : Fit(history[i].view, risks)
  BY <1>2, InvFacts DEF HistoryInv
<1>4. n >= 1  BY <1>2, <1>3, EmptySeq
<1>5. st \in Places /\ Fit(st.view, risks)  BY <1>3, <1>4, ElementOfSeq
<1>6. st.tab \in Tabs /\ st.view \in Views  BY <1>5 DEF Places
<1>7. Fit(v, risks') /\ v.req = view.req
  <2> DEFINE u == st.view
  <2>1. u \in Views /\ Fit(u, risks)  BY <1>5, <1>6
  <2>2. view.req \in 0..MaxKeys  BY InvFacts DEF Views
  <2> HIDE DEF u, st
  <2>3. v = [u EXCEPT !.req = view.req, !.loading = FALSE, !.err = FALSE]  BY DEF u
  <2> HIDE DEF v
  <2>4. /\ v \in Views /\ v.rel = u.rel /\ v.conn = u.conn /\ v.rows = u.rows /\ v.page = u.page
        /\ v.filter = u.filter /\ v.req = view.req
    BY ONLY <2>1, <2>2, <2>3 DEF Views
  <2>5. risks' = risks  BY <1>1
  <2> QED  BY <2>1, <2>4, <2>5 DEF Fit, browsing, InRange
<1>8. HistoryInv'
  <2>1. 1 <= n /\ n - 1 <= n /\ n - 1 \in Nat  BY <1>3, <1>4
  <2> DEFINE k == n - 1
  <2>0. k \in Int /\ \A i \in 1..k : history[i] \in Places
    BY <1>3, <2>1, ElementOfSeq
  <2>a. history' = SubSeq(history, 1, k)  BY <1>2
  <2>n. n \in Nat  BY <1>3
  <2> HIDE DEF n
  <2>b. k - 1 + 1 = k /\ (1 <= k \/ k = 0)  BY <2>n, <2>1
  <2> HIDE DEF k
  <2>c. /\ history' \in Seq(Places) /\ Len(history') = IF 1 <= k THEN k - 1 + 1 ELSE 0
        /\ \A i \in 1..(k - 1 + 1) : history'[i] = history[1 + i - 1]
    BY <2>0, <2>a, SubSeqProperties
  <2>d. \A i \in 1..k : 1 + i - 1 = i  BY <2>0
  <2>e. history' \in Seq(Places) /\ Len(history') = k /\ \A i \in 1..k : history'[i] = history[i]
    BY <2>b, <2>c, <2>d
  <2>2. /\ history' \in Seq(Places) /\ Len(history') = n - 1
        /\ \A i \in 1..(n - 1) : history'[i] = history[i]
    BY <2>e DEF k
  <2>3. \A i \in 1..Len(history') : \E j \in 1..n : history'[i] = history[j]
    BY <1>3, <2>1, <2>2
  <2>4. Len(history') <= MaxHistory  BY <1>3, <2>1, <2>2, BrowseAssumption
  <2>5. \A i \in 1..Len(history') : \E j \in 1..Len(history) : history'[i] = history[j]
    BY <2>3 DEF n
  <2>6. GridInv /\ HistoryInv /\ risks \subseteq risks' /\ UNCHANGED session
    BY <1>1, InvFacts
  <2>7. history' \in Seq(Places) /\ driver # 0  BY <1>3, <2>2
  <2> QED  BY <2>4, <2>5, <2>6, <2>7, HistoryKept
<1>9. keys' = keys + 1 /\ keys' \in Nat /\ keys <= keys' /\ keys' <= MaxKeys
  BY <1>2, InvFacts, KeyCounts
<1>10. view.req + 1 + Parked(fk) <= keys'  BY <1>9, InvFacts
<1> HIDE DEF v, st
<1> QED  BY <1>1, <1>3, <1>6, <1>7, <1>8, <1>9, <1>10, InvFacts, Gone
-----------------------------------------------------------------------------
(* Every step keeps the invariant: leaving a view and reading it again.    *)

\* A grid nothing touches is as it was.
LEMMA GridStays ==
  ASSUME GridInv, UNCHANGED <<session, grid, risks>>
  PROVE  GridInv'
BY DEF GridInv, GridTypes, OpenInv, PageAwaited, QueryInv, ShownInv, Fit, InRange, Mine, fresh,
       Asked, Numbered, browsing, grid, session

\* A view that is left waits for nothing.
LEMMA ViewLeft ==
  ASSUME BrowseInv, GridInv', SessInv', HistoryInv', UNCHANGED deed, meta' = resetMeta,
         risks \subseteq risks', fk' \in FKTypes,
         "rename" \notin risks' => Fetched(fk)',
         keys <= keys', view'.req + Parked(fk') <= keys'
  PROVE  BrowseInv'
<1>1. meta \in Metas /\ meta.req \in Nat /\ meta.req <= keys /\ keys \in Nat
  BY DEF BrowseInv, FetchInv, Metas, CountInv, SessInv
<1>2. meta' \in Metas /\ meta'.req = meta.req /\ meta'.after = None /\ ~meta'.loading
  BY <1>1, MetaReset
<1>3. FetchInv'  BY <1>2 DEF FetchInv, Fetched
<1>4. keys' \in Nat  BY DEF SessInv
<1>5. meta'.req <= keys'  BY <1>1, <1>2, <1>4
<1>6. CountInv'  BY <1>5 DEF CountInv, Parked
<1>7. DeedInv'  BY <1>2 DEF BrowseInv, DeedInv, Numbered
<1> QED  BY <1>3, <1>6, <1>7 DEF BrowseInv

\* A step that leaves the grid alone keeps the invariant if what it fetches
\* is fetched and what it stages or parks is right.
LEMMA Beside ==
  ASSUME BrowseInv, UNCHANGED <<session, grid, risks, history>>, tab' \in Tabs,
         keys' \in Nat, keys <= keys', keys' <= MaxKeys,
         meta' \in Metas, meta'.req <= keys',
         "rename" \notin risks /\ meta'.loading =>
           \E q \in meta'.flying : /\ q.req = meta'.req /\ q.conn = active
                                   /\ browsing(view) /\ q.rel.table = view.rel.table,
         fk' \in FKTypes, "rename" \notin risks => Fetched(fk'),
         view.req + Parked(fk') <= keys', DeedInv'
  PROVE  BrowseInv'
<1>1. active' = active /\ driver' = driver /\ view' = view  BY DEF session, grid
<1>2. SessInv'  BY InvFacts, SessKept
<1>3. GridInv'  BY InvFacts, GridStays
<1>4. HistoryInv'  BY <1>1, InvFacts DEF HistoryInv, Fit, browsing, InRange
<1>5. FetchInv'  BY <1>1 DEF FetchInv, Fetched, freshMeta, browsing
<1>6. CountInv'  BY <1>1 DEF CountInv, Parked
<1> QED  BY <1>2, <1>3, <1>4, <1>5, <1>6 DEF BrowseInv

\* showQueryResult keeps the invariant.
LEMMA ResultKept ==
  ASSUME BrowseInv, showQueryResult
  PROVE  BrowseInv'
<1> DEFINE r == view.req + 1
<1>1. /\ Key /\ driver # 0 /\ tab' = "data" /\ meta' = resetMeta
      /\ UNCHANGED <<session, inflight, flying, risks, fk, history, deed>>
      /\ view' = [NoView EXCEPT !.conn = active, !.query = TRUE, !.req = r]
  BY DEF showQueryResult
<1>2. keys' = keys + 1 /\ keys' \in Nat /\ keys <= keys' /\ keys' <= MaxKeys
  BY <1>1, InvFacts, KeyCounts
<1>3. r \in 0..MaxKeys /\ r >= view.req /\ r + Parked(fk) <= keys'
  BY <1>2, InvFacts, BrowseAssumption
<1>4. active \in Names \cup {None}  BY InvFacts DEF SessInv
<1>5. NoView \in Views /\ NoView.rel = None /\ NoView.rows = None /\ NoView.sel = None /\ ~NoView.loading
  BY NoViewIs DEF browsing
<1> HIDE DEF r
<1>6. /\ view' \in Views /\ view'.rel = None /\ view'.rows = None /\ view'.sel = None
      /\ ~view'.loading /\ view'.req = r
  BY ONLY <1>1, <1>3, <1>4, <1>5 DEF Views
<1>7. GridInv'  BY <1>1, <1>3, <1>6, InvFacts, GridLeft DEF browsing
<1>8. SessInv'  BY <1>1, <1>2, InvFacts, SessKept DEF Tabs
<1>9. HistoryInv'  BY <1>1, InvFacts, HistoryKept DEF HistoryInv
<1>10. fk' \in FKTypes /\ view'.req + Parked(fk') <= keys'  BY <1>1, <1>3, <1>6, InvFacts
<1>11. "rename" \notin risks' => Fetched(fk)'  BY <1>1, InvFacts DEF Fetched, session
<1> QED  BY <1>1, <1>2, <1>7, <1>8, <1>9, <1>10, <1>11, ViewLeft

\* afterSchemaCommit keeps the invariant when the relation is gone.
LEMMA CloseKept ==
  ASSUME BrowseInv, Key, closeRelation, UNCHANGED <<session, risks, deed>>
  PROVE  BrowseInv'
<1> DEFINE f == [fk EXCEPT !.cache = {}]
<1>1. /\ stopPageQueries /\ view' = [NoView EXCEPT !.req = view.req] /\ tab' = "data"
      /\ meta' = resetMeta /\ fk' = Unparked(f) /\ history' = <<>>
  BY DEF closeRelation
<1>2. keys' = keys + 1 /\ keys' \in Nat /\ keys <= keys' /\ keys' <= MaxKeys
  BY InvFacts, KeyCounts
<1>3. view.req \in 0..MaxKeys  BY InvFacts DEF Views
<1>4. NoView \in Views /\ NoView.rel = None /\ NoView.rows = None /\ NoView.sel = None /\ ~NoView.loading
  BY NoViewIs DEF browsing
<1>5. /\ view' \in Views /\ view'.rel = None /\ view'.rows = None /\ view'.sel = None
      /\ ~view'.loading /\ view'.req = view.req
  BY ONLY <1>1, <1>3, <1>4 DEF Views
<1>6. GridInv'  BY <1>1, <1>5, InvFacts, GridLeft DEF browsing
<1>7. SessInv'  BY <1>1, <1>2, InvFacts, SessKept DEF Tabs
<1>8. f \in FKTypes /\ (Fetched(fk) => Fetched(f))  BY InvFacts DEF FKTypes, Fetched
<1> HIDE DEF f
<1>9. fk' \in FKTypes /\ Parked(fk') = 0 /\ (Fetched(fk) => Fetched(fk'))  BY <1>1, <1>8, UnparkedIs
<1>10. view'.req + Parked(fk') <= keys'  BY <1>2, <1>5, <1>9, InvFacts
<1>11. "rename" \notin risks' => Fetched(fk)'  BY <1>9, InvFacts DEF Fetched, session
<1> QED  BY <1>1, <1>2, <1>6, <1>7, <1>9, <1>10, <1>11, NoHistory, ViewLeft

\* afterSchemaCommit keeps the invariant.
LEMMA CommitKept ==
  ASSUME BrowseInv, afterSchemaCommit
  PROVE  BrowseInv'
<1>1. Key /\ driver # 0 /\ browsing(view) /\ UNCHANGED <<session, risks, deed>>
  BY DEF afterSchemaCommit
<1>2. CASE SchemaRead
  <2> DEFINE f == [fk EXCEPT !.cache = {}]
  <2>1. /\ Reload(view) /\ meta' = ensureMeta(resetMeta, view', tab) /\ fk' = ensureFKs(f, view')
        /\ UNCHANGED <<tab, history>>
    BY <1>2 DEF SchemaRead
  <2>2. f \in FKTypes /\ Parked(f) = Parked(fk) /\ (Fetched(fk) => Fetched(f))
    BY InvFacts DEF FKTypes, Fetched, Parked
  <2>3. keys' = keys + 1 /\ keys' \in Nat /\ keys <= keys' /\ keys' <= MaxKeys
    BY <1>1, InvFacts, KeyCounts
  <2> HIDE DEF f
  <2>4. Fit(view, risks')  BY <1>1, InvFacts DEF GridInv, OpenInv
  <2>5. HistoryInv'  BY <1>1, <2>1, InvFacts, HistoryKept DEF HistoryInv
  <2>6. view.req + 1 + Parked(f) <= keys'  BY <2>2, <2>3, InvFacts
  <2> QED  BY <1>1, <2>1, <2>2, <2>3, <2>4, <2>5, <2>6, InvFacts, Gone
<1>3. CASE closeRelation  BY <1>1, <1>3, CloseKept
<1> QED  BY <1>2, <1>3 DEF afterSchemaCommit

\* setMainTab keeps the invariant.
LEMMA TabKept ==
  ASSUME BrowseInv, NEW t \in Tabs, setMainTab(t)
  PROVE  BrowseInv'
<1>1. /\ Key /\ browsing(view) /\ tab' = t /\ meta' = ensureMeta(meta, view, t)
      /\ UNCHANGED <<session, grid, risks, fk, history, deed>>
  BY DEF setMainTab
<1>2. keys' = keys + 1 /\ keys' \in Nat /\ keys <= keys' /\ keys' <= MaxKeys
  BY <1>1, InvFacts, KeyCounts
<1>3. meta.req < MaxKeys  BY <1>2, InvFacts, BrowseAssumption
<1>4. /\ meta' \in Metas /\ meta'.after = meta.after
      /\ meta' = meta \/ (meta'.req = meta.req + 1 /\
           \E q \in meta'.flying : q.req = meta'.req /\ q.conn = active /\ q.rel = view.rel)
  BY <1>1, <1>3, InvFacts, MetaEnsured
<1>5. meta'.req <= keys'  BY <1>2, <1>4, InvFacts
<1>6. "rename" \notin risks /\ meta'.loading =>
        \E q \in meta'.flying : /\ q.req = meta'.req /\ q.conn = active
                                /\ browsing(view) /\ q.rel.table = view.rel.table
  BY <1>1, <1>4 DEF BrowseInv, FetchInv, freshMeta
<1>7. view.req + Parked(fk') <= keys'  BY <1>1, <1>2, InvFacts
<1>8. DeedInv'  BY <1>1, <1>4 DEF BrowseInv, DeedInv, Numbered, session, grid, browsing
<1> QED  BY <1>1, <1>2, <1>4, <1>5, <1>6, <1>7, <1>8, InvFacts, Beside
-----------------------------------------------------------------------------
(* Every step keeps the invariant: the keys of the page and their replies. *)

\* The grid changes, and what is fetched of the foreign keys.
LEMMA GridMoved ==
  ASSUME BrowseInv, GridInv', UNCHANGED <<session, tab, meta, history, deed>>,
         risks \subseteq risks', risks' \subseteq AllRisks, view'.rel = view.rel,
         keys' \in Nat, keys <= keys', keys' <= MaxKeys,
         fk' \in FKTypes, "rename" \notin risks => Fetched(fk'),
         view'.req + Parked(fk') <= keys'
  PROVE  BrowseInv'
<1>1. active' = active /\ driver' = driver  BY DEF session
<1>2. SessInv'  BY InvFacts, SessKept
<1>3. HistoryInv'  BY InvFacts, HistoryKept DEF HistoryInv
<1>4. meta'.req <= keys'  BY InvFacts
<1>5. CountInv'  BY <1>4 DEF CountInv, Parked
<1>6. \A q : freshMeta(q)' <=> freshMeta(q)  BY <1>1 DEF freshMeta, browsing
<1>7. FetchInv'  BY <1>1, <1>6 DEF BrowseInv, FetchInv, Fetched
<1>8. DeedInv'  BY <1>1 DEF BrowseInv, DeedInv, Numbered, browsing
<1> QED  BY <1>2, <1>3, <1>5, <1>7, <1>8 DEF BrowseInv

\* A key that asks for a page of the open relation keeps the invariant.
LEMMA AskKept ==
  ASSUME BrowseInv, Key, browsing(view), UNCHANGED <<session, tab, meta, fk, history, deed>>,
         risks \subseteq risks', risks' \subseteq AllRisks,
         NEW v \in Views, v.rel = view.rel, v.conn = view.conn, v.rows = view.rows,
         v.req = view.req, Reload(v),
         risks' \cap {"reset", "rename", "blind"} = {} => InRange(v)
  PROVE  BrowseInv'
<1>1. driver # 0  BY InvFacts DEF GridInv, OpenInv
<1>2. Fit(v, risks')  BY InvFacts, ChangedFits
<1>3. keys' = keys + 1 /\ keys' \in Nat /\ keys <= keys' /\ keys' <= MaxKeys
  BY InvFacts, KeyCounts
<1>4. view.req < MaxKeys  BY <1>3, InvFacts, BrowseAssumption
<1>5. GridInv' /\ view'.req = view.req + 1 /\ view'.rel = v.rel
  BY <1>1, <1>2, <1>4, InvFacts, Reloaded
<1>6. view'.req + Parked(fk') <= keys'  BY <1>3, <1>5, InvFacts
<1> QED  BY <1>3, <1>5, <1>6, InvFacts, GridMoved

\* A key that stays on the page keeps the invariant.
LEMMA StayKept ==
  ASSUME BrowseInv, Key, UNCHANGED <<session, tab, meta, fk, history, deed>>,
         \/ \E row \in 0..(Limit - 1) : OnThisPage(row)
         \/ toggleSelection
  PROVE  BrowseInv'
<1>1. UNCHANGED <<inflight, flying>> /\ risks \subseteq risks' /\ risks' \subseteq AllRisks
  BY InvFacts DEF OnThisPage, toggleSelection, AllRisks
<1>2. view.rows \in Answers \cup {None}  BY InvFacts DEF Views
<1>3. \/ \E row \in 0..(Limit - 1) : view' = [view EXCEPT !.row = row] /\ risks' = risks
      \/ toggleSelection
  BY <1>2, ClampedIs DEF OnThisPage
<1>4. GridInv' /\ view'.req = view.req /\ view'.rel = view.rel  BY <1>1, <1>3, InvFacts, Stayed
<1>5. keys' = keys + 1 /\ keys' \in Nat /\ keys <= keys' /\ keys' <= MaxKeys
  BY InvFacts, KeyCounts
<1>6. view'.req + Parked(fk') <= keys'  BY <1>4, <1>5, InvFacts
<1> QED  BY <1>1, <1>4, <1>5, <1>6, InvFacts, GridMoved

\* A page that is turned to with the count of its rows there is one of them.
LEMMA TotalIs ==
  ASSUME GridInv, browsing(view), NEW p, NEW row, TurnTo(p, row),
         risks' \cap {"reset", "rename", "blind"} = {}
  PROVE  /\ view.total \in Nat /\ view.total = RowsIn[view.rel][view.filter]
         /\ InRange(view)
<1>1. /\ view.total # None /\ ~\E q \in flying : q.kind = "count" /\ fresh(q)
      /\ risks \cap {"reset", "rename", "blind"} = {}
  BY DEF TurnTo
<1>2. Numbered  BY <1>1 DEF Numbered
<1>3. ~\E q \in flying : q.kind = "count" /\ Mine(q)  BY <1>1, <1>2, FreshIsMine
<1>4. view.total = RowsIn[view.rel][view.filter]  BY <1>1, <1>2, <1>3 DEF GridInv, ShownInv
<1>5. view.total \in Nat  BY <1>1 DEF GridInv, GridTypes, Views
<1>6. InRange(view)  BY <1>1 DEF GridInv, OpenInv, Fit
<1> QED  BY <1>4, <1>5, <1>6

\* Turning to a page keeps the invariant if the count says there is one.
LEMMA TurnKept ==
  ASSUME BrowseInv, Key, browsing(view), UNCHANGED <<session, tab, meta, fk, history, deed>>,
         NEW p \in Nat, NEW row \in 0..(Limit - 1), TurnTo(p, row),
         view.total \in Nat /\ view.total = RowsIn[view.rel][view.filter] /\ InRange(view) =>
           p = 0 \/ p * Limit < view.total
  PROVE  BrowseInv'
<1> DEFINE v == [view EXCEPT !.page = p, !.row = row]
<1>1. Reload(v) /\ risks \subseteq risks' /\ risks' \subseteq AllRisks
  BY InvFacts DEF TurnTo, AllRisks
<1>2. /\ v \in Views /\ v.rel = view.rel /\ v.conn = view.conn /\ v.rows = view.rows
      /\ v.req = view.req /\ v.page = p /\ v.filter = view.filter
  BY InvFacts DEF Views
<1>3. risks' \cap {"reset", "rename", "blind"} = {} => InRange(v)
  <2> SUFFICES ASSUME risks' \cap {"reset", "rename", "blind"} = {}  PROVE InRange(v)
    OBVIOUS
  <2>1. view.total = RowsIn[view.rel][view.filter] /\ (p = 0 \/ p * Limit < view.total)
    BY InvFacts, TotalIs
  <2> HIDE DEF v
  <2> QED  BY <1>2, <2>1 DEF InRange
<1> HIDE DEF v
<1> QED  BY <1>1, <1>2, <1>3, AskKept

\* A page before one that has rows, or after one that is not the last.
LEMMA NextPageExists ==
  ASSUME NEW page \in Nat, NEW d \in {1, -1}, page + d >= 0, NEW n \in Nat,
         page = 0 \/ page * Limit < n, d > 0 => (page + 1) * Limit < n
  PROVE  page + d \in Nat /\ (page + d = 0 \/ (page + d) * Limit < n)
<1>1. CASE d = 1  BY <1>1
<1>2. CASE d = -1
  <2>1. page # 0 /\ page - 1 \in Nat  BY <1>2
  <2>2. (page - 1) * Limit = page * Limit - Limit  BY <2>1, GridAssumption
  <2>3. page * Limit \in Nat  BY GridAssumption
  <2>4. (page - 1) * Limit < n  BY <2>1, <2>2, <2>3, GridAssumption
  <2>5. page + d = page - 1  BY <1>2
  <2> QED  BY <2>1, <2>4, <2>5
<1> QED  BY <1>1, <1>2

\* The keys of the page keep the invariant.
LEMMA PageKept ==
  ASSUME BrowseInv, PageKey
  PROVE  BrowseInv'
<1>1. Key /\ UNCHANGED <<session, tab, meta, fk, history, deed>>  BY DEF PageKey
<1>2. 0 \in 0..(Limit - 1) /\ view.page \in Nat  BY InvFacts, GridAssumption DEF Views
<1>3. ASSUME NEW d \in {1, -1}, turnPage(d)  PROVE BrowseInv'
  <2>1. browsing(view) /\ view.page + d >= 0 /\ (d > 0 => ~LastPage(view)) /\ TurnTo(view.page + d, 0)
    BY <1>3 DEF turnPage
  <2>2. view.page + d \in Nat  BY <1>2, <2>1
  <2>3. ASSUME view.total \in Nat, view.total = RowsIn[view.rel][view.filter], InRange(view)
        PROVE  view.page + d = 0 \/ (view.page + d) * Limit < view.total
    <3>1. view.page = 0 \/ view.page * Limit < view.total  BY <2>3 DEF InRange
    <3>2. view.total # None  BY <2>3, GridAssumption
    <3>3. (view.page + 1) * Limit \in Nat  BY <1>2, GridAssumption
    <3>4. d > 0 => (view.page + 1) * Limit < view.total
      BY <2>1, <2>3, <3>2, <3>3 DEF LastPage
    <3> QED  BY <1>2, <2>1, <2>3, <3>1, <3>4, NextPageExists
  <2> QED  BY <1>1, <1>2, <2>1, <2>2, <2>3, TurnKept
<1>4. ASSUME NEW p \in Pages, submitGoToPage(p)  PROVE BrowseInv'
  <2>1. browsing(view) /\ view.total # None /\ p \in 0..(pageCount(view.total) - 1) /\ TurnTo(p, 0)
    BY <1>4 DEF submitGoToPage
  <2>2. view.total \in Nat  BY <2>1, InvFacts DEF Views
  <2>3. p = 0 \/ p * Limit < view.total  BY <2>1, <2>2, PageExists
  <2>4. p \in Nat  BY <2>1
  <2> QED  BY <1>1, <1>2, <2>1, <2>3, <2>4, TurnKept
<1>5. CASE jumpToFirstRow
  <2>1. browsing(view) /\ (OnThisPage(0) \/ TurnTo(0, 0))  BY <1>5 DEF jumpToFirstRow
  <2> QED  BY <1>1, <1>2, <2>1, StayKept, TurnKept
<1>6. CASE jumpToLastRow
  <2> DEFINE last == pageCount(view.total) - 1
  <2> DEFINE left == view.total - last * Limit
  <2> DEFINE row == Most(0, Least(Limit, left) - 1)
  <2>1. browsing(view) /\ view.total # None /\ (OnThisPage(row) \/ TurnTo(last, row))
    BY <1>6 DEF jumpToLastRow
  <2>2. view.total \in Nat  BY <2>1, InvFacts DEF Views
  <2>3. last \in Nat /\ last \in 0..(pageCount(view.total) - 1)  BY <2>2, PagesAre
  <2>4. last = 0 \/ last * Limit < view.total  BY <2>2, <2>3, PageExists
  <2> HIDE DEF last
  <2>5. left \in Int  BY <2>2, <2>3, GridAssumption
  <2> HIDE DEF left
  <2>6. row \in 0..(Limit - 1)  BY <2>5, GridAssumption DEF Most, Least
  <2> HIDE DEF row
  <2> QED  BY <1>1, <2>1, <2>3, <2>4, <2>6, StayKept, TurnKept
<1>7. ASSUME NEW r \in 0..(Limit - 1), MoveCursor(r)  PROVE BrowseInv'
  <2>1. OnThisPage(r)  BY <1>7 DEF MoveCursor
  <2> QED  BY <1>1, <2>1, StayKept
<1>8. ASSUME NEW v, v = view \/ v.page = 0, v \in Views, v.rel = view.rel, v.conn = view.conn,
             v.rows = view.rows, v.req = view.req, browsing(view), Reload(v), UNCHANGED risks
      PROVE  BrowseInv'
  <2>1. risks' \cap {"reset", "rename", "blind"} = {} => InRange(v)
    <3>1. CASE v = view  BY <1>8, <3>1, InvFacts DEF GridInv, OpenInv, Fit
    <3>2. CASE v.page = 0  BY <3>2 DEF InRange
    <3> QED  BY <1>8, <3>1, <3>2
  <2> QED  BY <1>1, <1>8, <2>1, InvFacts, AskKept
<1>9. ASSUME NEW f \in Filters, setDataFilter(f), UNCHANGED risks  PROVE BrowseInv'
  <2> DEFINE v == [view EXCEPT !.filter = f, !.page = 0, !.row = 0]
  <2>1. browsing(view) /\ Reload(v)  BY <1>9 DEF setDataFilter
  <2>2. /\ v \in Views /\ v.page = 0 /\ v.rel = view.rel /\ v.conn = view.conn
        /\ v.rows = view.rows /\ v.req = view.req
    BY <1>2, InvFacts DEF Views
  <2> HIDE DEF v
  <2> QED  BY <1>8, <1>9, <2>1, <2>2
<1>10. CASE clearFilter /\ UNCHANGED risks
  <2> DEFINE v == [view EXCEPT !.filter = Plain, !.page = 0, !.row = 0]
  <2>1. browsing(view) /\ Reload(v)  BY <1>10 DEF clearFilter
  <2>2. /\ v \in Views /\ v.page = 0 /\ v.rel = view.rel /\ v.conn = view.conn
        /\ v.rows = view.rows /\ v.req = view.req
    BY <1>2, InvFacts, GridAssumption DEF Views
  <2> HIDE DEF v
  <2> QED  BY <1>8, <1>10, <2>1, <2>2
<1>11. CASE toggleSort /\ UNCHANGED risks
  <2> DEFINE v == [view EXCEPT !.sort = ~@, !.page = 0, !.row = 0]
  <2>1. browsing(view) /\ Reload(v)  BY <1>11 DEF toggleSort
  <2>2. /\ v \in Views /\ v.page = 0 /\ v.rel = view.rel /\ v.conn = view.conn
        /\ v.rows = view.rows /\ v.req = view.req
    BY <1>2, InvFacts DEF Views
  <2> HIDE DEF v
  <2> QED  BY <1>8, <1>11, <2>1, <2>2
<1>12. CASE browsing(view) /\ Reload(view) /\ UNCHANGED risks
  BY <1>8, <1>12, InvFacts
<1> QED  BY <1>3, <1>4, <1>5, <1>6, <1>7, <1>9, <1>10, <1>11, <1>12 DEF PageKey

\* So does the selection.
LEMMA SelectKept ==
  ASSUME BrowseInv, SelectKey
  PROVE  BrowseInv'
BY StayKept DEF SelectKey

\* So does a reply to the page or to the count.
LEMMA PageReplyKept ==
  ASSUME BrowseInv, PageReply
  PROVE  BrowseInv'
<1>1. UNCHANGED <<session, risks, tab, meta, fk, history, deed, keys>>  BY DEF PageReply
<1>2. GridInv' /\ view'.req = view.req /\ view'.rel = view.rel
  BY <1>1, InvFacts, Replied DEF PageReply
<1>3. keys \in Nat /\ keys <= MaxKeys  BY InvFacts DEF SessInv
<1>4. view'.req + Parked(fk') <= keys'  BY <1>1, <1>2, InvFacts
<1> QED  BY <1>1, <1>2, <1>3, <1>4, InvFacts, GridMoved

\* reloadFocused keeps the invariant.
LEMMA ReloadKept ==
  ASSUME BrowseInv, reloadFocused
  PROVE  BrowseInv'
<1>1. Key /\ browsing(view) /\ driver # 0 /\ UNCHANGED <<session, risks, tab, history, deed>>
  BY DEF reloadFocused
<1>2. keys' = keys + 1 /\ keys' \in Nat /\ keys <= keys' /\ keys' <= MaxKeys
  BY <1>1, InvFacts, KeyCounts
<1>3. view.req < MaxKeys /\ meta.req < MaxKeys  BY <1>2, InvFacts, BrowseAssumption
<1>4. CASE tab = "data"
  <2> DEFINE f == [fk EXCEPT !.cache = @ \ {fkKey(view)}]
  <2>1. Reload(view) /\ fk' = ensureFKs(f, view') /\ meta' = meta
    BY <1>4 DEF reloadFocused
  <2>2. f \in FKTypes /\ f.after = fk.after /\ (Fetched(fk) => Fetched(f))
    BY InvFacts DEF FKTypes, Fetched
  <2>3. Fit(view, risks')  BY <1>1, InvFacts DEF GridInv, OpenInv
  <2>4. GridInv' /\ view'.req = view.req + 1 /\ view'.rel = view.rel
    BY <1>1, <1>3, <2>1, <2>3, InvFacts, Reloaded
  <2> HIDE DEF f
  <2>5. view' \in Views  BY <2>4 DEF GridInv, GridTypes
  <2>6. fk' \in FKTypes /\ fk'.after = fk.after /\ (Fetched(fk) => Fetched(fk'))
    BY <2>1, <2>2, <2>5, InvFacts, FKsEnsured
  <2>7. Parked(fk') = Parked(fk)  BY <2>6 DEF Parked
  <2>8. view'.req + Parked(fk') <= keys'  BY <1>2, <2>4, <2>7, InvFacts
  <2> QED  BY <1>1, <1>2, <2>1, <2>4, <2>6, <2>8, InvFacts, GridMoved
<1>5. CASE tab # "data"
  <2>1. meta' = startMetaLoad(meta, view) /\ UNCHANGED <<grid, fk>>  BY <1>5 DEF reloadFocused
  <2>2. view.rel \in Relations  BY <1>1, InvFacts DEF Views, browsing
  <2>3. /\ meta' \in Metas /\ meta'.req = meta.req + 1 /\ meta'.after = meta.after
        /\ \E q \in meta'.flying : q.req = meta'.req /\ q.conn = active /\ q.rel = view.rel
    BY <1>1, <1>3, <2>1, <2>2, InvFacts, MetaStarts
  <2>4. meta'.req <= keys'  BY <1>2, <2>3, InvFacts
  <2>5. \E q \in meta'.flying : /\ q.req = meta'.req /\ q.conn = active
                                /\ browsing(view) /\ q.rel.table = view.rel.table
    BY <1>1, <2>3
  <2>6. view.req + Parked(fk') <= keys'  BY <1>2, <2>1, InvFacts
  <2>7. DeedInv'  BY <1>1, <2>1, <2>3 DEF BrowseInv, DeedInv, Numbered, session, grid, browsing
  <2> QED  BY <1>1, <1>2, <2>1, <2>3, <2>4, <2>5, <2>6, <2>7, InvFacts, Beside
<1> QED  BY <1>4, <1>5
-----------------------------------------------------------------------------
(* Every step keeps the invariant: connections.                            *)

\* Forgetting the view for a connection keeps the grid's part of the
\* invariant: what still flies under its name is a risk.
LEMMA ForgetKept ==
  ASSUME BrowseInv, Forget(active'), stopPageQueries \/ UNCHANGED <<inflight, flying>>
  PROVE  GridInv' /\ view'.req = 0 /\ risks \subseteq risks' /\ risks' \subseteq AllRisks
<1>1. /\ view' = NoView
      /\ risks' = risks \cup IF \E q \in flying : q.conn = active' THEN {"reset"} ELSE {}
  BY DEF Forget
<1>2. risks \subseteq risks' /\ risks' \subseteq AllRisks  BY <1>1, InvFacts DEF AllRisks
<1>3. \A q \in flying : q.conn = active' => "reset" \in risks'  BY <1>1
<1>4. /\ view' \in Views /\ ~browsing(view') /\ view'.rows = None /\ view'.sel = None
      /\ ~view'.loading /\ view'.req = 0
  BY <1>1, NoViewIs
<1> QED  BY <1>2, <1>3, <1>4, InvFacts, GridLeft

\* Another connection, or none, keeps the invariant.
LEMMA BrowseReset ==
  ASSUME BrowseInv, Key, resetBrowse(active'),
         driver' \in Nat, sessions' \in Nat, driver' <= sessions', sessions' <= keys + 1,
         active' \in Names \cup {None}, active' = None <=> driver' = 0
  PROVE  BrowseInv'
<1>1. /\ Forget(active') /\ stopPageQueries /\ tab' = "data" /\ meta' = resetMeta
      /\ fk' = resetFKs /\ history' = <<>> /\ UNCHANGED deed
  BY DEF resetBrowse
<1>2. GridInv' /\ view'.req = 0 /\ risks \subseteq risks' /\ risks' \subseteq AllRisks
  BY <1>1, ForgetKept
<1>3. keys' = keys + 1 /\ keys' \in Nat /\ keys <= keys' /\ keys' <= MaxKeys
  BY InvFacts, KeyCounts
<1>4. SessInv'  BY <1>1, <1>2, <1>3 DEF SessInv, AllRisks, Tabs
<1>5. NoFKs \in FKTypes /\ NoFKs.loading = {} /\ NoFKs.after = FALSE  BY DEF NoFKs, FKTypes
<1>6. fk' \in FKTypes /\ fk'.loading = {} /\ fk'.after = FALSE
  <2>1. fk' = [NoFKs EXCEPT !.flying = fk.flying] /\ fk \in FKTypes
    BY <1>1, InvFacts DEF resetFKs
  <2> QED  BY ONLY <1>5, <2>1 DEF FKTypes
<1>7. view'.req + Parked(fk') <= keys'  BY <1>2, <1>3, <1>6, InvFacts DEF Parked
<1>8. Fetched(fk)'  BY <1>6 DEF Fetched
<1> QED  BY <1>1, <1>2, <1>3, <1>4, <1>6, <1>7, <1>8, NoHistory, ViewLeft

\* Connect and Disconnect keep the invariant.
LEMMA ConnectKept ==
  ASSUME BrowseInv, Disconnect \/ \E n \in Names : Connect(n)
  PROVE  BrowseInv'
<1>0. sessions \in Nat /\ sessions <= keys /\ keys \in Nat  BY InvFacts DEF SessInv
<1>1. CASE Disconnect
  <2>1. driver' = 0 /\ sessions' = sessions /\ active' = None  BY <1>1 DEF Disconnect
  <2>2. Key /\ resetBrowse(active')  BY <1>1 DEF Disconnect
  <2> QED  BY <1>0, <2>1, <2>2, BrowseReset
<1>2. CASE \E n \in Names : Connect(n)
  <2>1. driver' = sessions + 1 /\ sessions' = sessions + 1 /\ active' \in Names
    BY <1>2 DEF Connect
  <2>2. Key /\ resetBrowse(active')  BY <1>2 DEF Connect
  <2>3. active' # None /\ driver' # 0  BY <1>0, <2>1, GridAssumption
  <2> QED  BY <1>0, <2>1, <2>2, <2>3, BrowseReset
<1> QED  BY <1>1, <1>2

\* openDatabase keeps the invariant.
LEMMA DatabaseKept ==
  ASSUME BrowseInv, openDatabase
  PROVE  BrowseInv'
<1>1. /\ Key /\ Forget(active) /\ meta' = resetMeta /\ fk' = Unparked(fk) /\ history' = <<>>
      /\ UNCHANGED <<session, inflight, flying, tab, deed>>
  BY DEF openDatabase
<1>2. active' = active  BY <1>1 DEF session
<1>3. GridInv' /\ view'.req = 0 /\ risks \subseteq risks' /\ risks' \subseteq AllRisks
  BY <1>1, <1>2, ForgetKept
<1>4. keys' = keys + 1 /\ keys' \in Nat /\ keys <= keys' /\ keys' <= MaxKeys
  BY <1>1, InvFacts, KeyCounts
<1>5. SessInv'  BY <1>1, <1>3, <1>4, InvFacts, SessKept
<1>6. fk' \in FKTypes /\ Parked(fk') = 0 /\ (Fetched(fk) => Fetched(fk'))
  BY <1>1, InvFacts, UnparkedIs
<1>7. view'.req + Parked(fk') <= keys'  BY <1>3, <1>4, <1>6
<1>8. "rename" \notin risks' => Fetched(fk)'  BY <1>2, <1>3, <1>6, InvFacts DEF Fetched
<1> QED  BY <1>1, <1>3, <1>4, <1>5, <1>6, <1>7, <1>8, NoHistory, ViewLeft

\* renameConnState keeps the invariant.
LEMMA RenameKept ==
  ASSUME BrowseInv, NEW n \in Names, renameConnState(n)
  PROVE  BrowseInv'
<1>1. /\ Key /\ active # None /\ active' = n /\ risks' = risks \cup {"rename"}
      /\ UNCHANGED <<driver, sessions, grid, tab, meta, fk, history, deed>>
  BY DEF renameConnState
<1>2. keys' = keys + 1 /\ keys' \in Nat /\ keys <= keys' /\ keys' <= MaxKeys
  BY <1>1, InvFacts, KeyCounts
<1>3. n # None  BY GridAssumption
<1>4. SessInv'  BY <1>1, <1>2, <1>3, InvFacts DEF SessInv
<1>5. GridInv'  BY <1>1, InvFacts, GridRenamed DEF grid
<1>6. \A w : Fit(w, risks) => Fit(w, risks)'
  BY <1>1 DEF Fit, browsing
<1>7. HistoryInv'  BY <1>1, <1>6, InvFacts DEF HistoryInv
<1>8. view.req + Parked(fk) <= keys' /\ meta.req <= keys'  BY <1>2, InvFacts
<1>9. CountInv'  BY <1>1, <1>8 DEF CountInv, Parked, grid
<1>10. FetchInv'  BY <1>1, InvFacts DEF FetchInv
<1>11. DeedInv'  BY <1>1 DEF BrowseInv, DeedInv, Numbered
<1> QED  BY <1>4, <1>5, <1>7, <1>9, <1>10, <1>11 DEF BrowseInv
-----------------------------------------------------------------------------
(* Every step keeps the invariant: parked keys and what they wait for.     *)

\* On a row there is a cell, and it is of the session and of the relation.
LEMMA CellIs ==
  ASSUME BrowseInv, OnARow
  PROVE  /\ Cell \in Cells /\ browsing(view) /\ driver # 0 /\ tab = "data"
         /\ Numbered => Cell.page.session = driver /\ Cell.page.rel = view.rel
<1>1. browsing(view) /\ driver # 0 /\ tab = "data" /\ RowsOn(view.rows) > 0  BY DEF OnARow
<1>2. view.rows \in Answers \cup {None} /\ view.row \in 0..(Limit - 1)  BY InvFacts DEF Views
<1>3. view.rows # None  BY <1>1, <1>2, RowsOnIs
<1>4. Cell.page = view.rows /\ Cell \in Cells  BY <1>2, <1>3 DEF Cell, Cells
<1>5. Numbered => view.rows.session = driver /\ view.rows.rel = view.rel
  BY <1>1, <1>3, InvFacts DEF GridInv, OpenInv, Fit, Numbered
<1> QED  BY <1>1, <1>4, <1>5

\* What a delete stages was asked for and is done on cells.
LEMMA DeletedIs ==
  ASSUME NEW asked, BrowseInv, OnARow, asked \in Cells
  PROVE  /\ Deleted(asked).asked = asked /\ Deleted(asked).on = Cell /\ Cell \in Cells
BY CellIs DEF Deleted

\* startDelete keeps the invariant.
LEMMA DeleteKept ==
  ASSUME BrowseInv, startDelete
  PROVE  BrowseInv'
<1>1. Key /\ OnARow /\ UNCHANGED <<session, grid, risks, tab, fk, history>>  BY DEF startDelete
<1>2. keys' = keys + 1 /\ keys' \in Nat /\ keys <= keys' /\ keys' <= MaxKeys
  BY <1>1, InvFacts, KeyCounts
<1>3. view.req + Parked(fk') <= keys' /\ meta.req <= keys'  BY <1>1, <1>2, InvFacts
<1>4. /\ Cell \in Cells /\ browsing(view) /\ driver # 0
      /\ Numbered => Cell.page.session = driver /\ Cell.page.rel = view.rel
  BY <1>1, CellIs
<1>5. driver' = driver /\ view' = view /\ risks' = risks  BY <1>1 DEF session, grid
<1>6. CASE meta.loaded
  <2>1. meta' = meta /\ (deed' = deed \/ deed' = Deleted(Cell))  BY <1>6 DEF startDelete
  <2>2. Deleted(Cell).asked = Cell /\ Deleted(Cell).on = Cell  BY <1>1, <1>4, DeletedIs
  <2>3. DeedInv'
    BY <1>4, <1>5, <2>1, <2>2 DEF BrowseInv, DeedInv, Numbered, browsing
  <2>4. "rename" \notin risks /\ meta'.loading =>
          \E q \in meta'.flying : /\ q.req = meta'.req /\ q.conn = active
                                  /\ browsing(view) /\ q.rel.table = view.rel.table
    BY <2>1 DEF BrowseInv, FetchInv, freshMeta
  <2> QED  BY <1>1, <1>2, <1>3, <2>1, <2>3, <2>4, InvFacts, Beside
<1>7. CASE ~meta.loaded
  <2> DEFINE parked == [meta EXCEPT !.after = Cell]
  <2>1. /\ meta' = IF meta.loading THEN parked ELSE startMetaLoad(parked, view)
        /\ deed' = deed
    BY <1>7 DEF startDelete
  <2>2. /\ parked \in Metas /\ parked.req = meta.req /\ parked.after = Cell
        /\ parked.loading = meta.loading /\ parked.flying = meta.flying
    <3>1. Cell \in Cells /\ meta \in Metas  BY <1>4, InvFacts
    <3> HIDE DEF Cell
    <3> QED  BY <3>1 DEF Metas
  <2> HIDE DEF parked
  <2>3. /\ meta' \in Metas /\ meta'.after = Cell /\ meta'.req <= keys'
        /\ "rename" \notin risks /\ meta'.loading =>
             \E q \in meta'.flying : /\ q.req = meta'.req /\ q.conn = active
                                     /\ browsing(view) /\ q.rel.table = view.rel.table
    <3>1. CASE meta.loading
      <4>1. meta' = parked  BY <2>1, <3>1
      <4>2. "rename" \notin risks =>
              \E q \in meta.flying : /\ q.req = meta.req /\ q.conn = active
                                     /\ browsing(view) /\ q.rel.table = view.rel.table
        BY <3>1 DEF BrowseInv, FetchInv, freshMeta
      <4> QED  BY <1>3, <2>2, <4>1, <4>2
    <3>2. CASE ~meta.loading
      <4>1. meta' = startMetaLoad(parked, view)  BY <2>1, <3>2
      <4>2. view.rel \in Relations  BY <1>4, InvFacts DEF Views, browsing
      <4>3. parked.req < MaxKeys  BY <1>2, <2>2, InvFacts, BrowseAssumption
      <4>4. /\ meta' \in Metas /\ meta'.req = meta.req + 1 /\ meta'.after = Cell
            /\ \E q \in meta'.flying : q.req = meta'.req /\ q.conn = active /\ q.rel = view.rel
        BY <1>4, <2>2, <4>1, <4>2, <4>3, InvFacts, MetaStarts
      <4>5. meta'.req <= keys'  BY <1>2, <4>4, InvFacts
      <4> QED  BY <1>4, <4>4, <4>5
    <3> QED  BY <3>1, <3>2
  <2>4. DeedInv'
    BY <1>4, <1>5, <2>1, <2>3 DEF BrowseInv, DeedInv, Numbered, browsing
  <2> QED  BY <1>1, <1>2, <1>3, <2>3, <2>4, InvFacts, Beside
<1> QED  BY <1>6, <1>7

\* metaLoaded keeps the invariant.
LEMMA MetaLoadedKept ==
  ASSUME BrowseInv, NEW q \in meta.flying, metaLoaded(q)
  PROVE  BrowseInv'
<1>1. UNCHANGED <<session, grid, risks, tab, history, keys>>  BY DEF metaLoaded
<1>2. keys \in Nat /\ keys <= MaxKeys /\ keys' = keys  BY <1>1, InvFacts DEF SessInv
<1>3. driver' = driver /\ view' = view /\ risks' = risks  BY <1>1 DEF session, grid
<1>4. q.rel \in Relations /\ q.conn \in Names  BY InvFacts DEF Metas
<1>5. CASE freshMeta(q) /\ MetaArrived(q)
  <2>1. /\ meta' = Answered(q, FALSE)
        /\ fk' = [fk EXCEPT !.cache = @ \cup {[conn |-> q.conn, rel |-> q.rel]}]
        /\ deed' = IF meta.after # None /\ OnARow THEN Deleted(meta.after) ELSE deed
    BY <1>5 DEF MetaArrived
  <2>2. meta' \in Metas /\ meta'.req = meta.req /\ meta'.after = None /\ ~meta'.loading
    BY <1>4, <2>1, InvFacts DEF Answered, Metas
  <2>3. fk' \in FKTypes /\ fk'.after = fk.after /\ (Fetched(fk) => Fetched(fk'))
    <3>1. [conn |-> q.conn, rel |-> q.rel] \in FKKeys  BY <1>4 DEF FKKeys
    <3> DEFINE k == [conn |-> q.conn, rel |-> q.rel]
    <3>2. k \in FKKeys /\ fk' = [fk EXCEPT !.cache = @ \cup {k}]  BY <2>1, <3>1
    <3> HIDE DEF k
    <3>3. fk.cache \cup {k} \in SUBSET FKKeys  BY <3>2, InvFacts DEF FKTypes
    <3>4. fk \in FKTypes  BY InvFacts
    <3> QED  BY ONLY <3>2, <3>3, <3>4 DEF FKTypes, Fetched
  <2>4. view.req + Parked(fk') <= keys'  BY <1>2, <2>3, InvFacts DEF Parked
  <2>5. DeedInv'
    <3>1. CASE meta.after # None /\ OnARow
      <4>1. meta.after \in Cells  BY <3>1, InvFacts DEF Metas
      <4>2. deed'.asked = meta.after /\ deed'.on = Cell /\ Cell \in Cells
        BY <2>1, <3>1, <4>1, DeletedIs
      <4>3. Numbered => Cell.page.session = driver /\ Cell.page.rel = view.rel
        BY <3>1, CellIs
      <4>4. Numbered => meta.after.page.session = driver /\ meta.after.page.rel = view.rel
        BY <3>1 DEF BrowseInv, DeedInv
      <4> HIDE DEF Cell
      <4> QED  BY <1>3, <2>2, <4>1, <4>2, <4>3, <4>4 DEF DeedInv, Numbered
    <3>2. CASE ~(meta.after # None /\ OnARow)
      <4>1. deed' = deed  BY <2>1, <3>2
      <4> QED  BY <1>3, <2>2, <4>1 DEF BrowseInv, DeedInv, Numbered
    <3> QED  BY <3>1, <3>2
  <2> QED  BY <1>1, <1>2, <2>2, <2>3, <2>4, <2>5, InvFacts, Beside
<1>6. CASE freshMeta(q) /\ meta' = Answered(q, TRUE) /\ UNCHANGED <<fk, deed>>
  <2>1. meta' \in Metas /\ meta'.req = meta.req /\ meta'.after = None /\ ~meta'.loading
    BY <1>4, <1>6, InvFacts DEF Answered, Metas
  <2>2. DeedInv'  BY <1>3, <1>6, <2>1 DEF BrowseInv, DeedInv, Numbered
  <2>3. view.req + Parked(fk') <= keys'  BY <1>2, <1>6, InvFacts
  <2>4. fk' \in FKTypes /\ ("rename" \notin risks => Fetched(fk'))  BY <1>6, InvFacts
  <2>5. meta'.req <= keys'  BY <1>2, <2>1, InvFacts
  <2> QED  BY <1>1, <1>2, <2>1, <2>2, <2>3, <2>4, <2>5, InvFacts, Beside
<1>7. CASE ~freshMeta(q) /\ meta' = [meta EXCEPT !.flying = @ \ {q}] /\ UNCHANGED <<fk, deed>>
  <2>1. /\ meta' \in Metas /\ meta'.req = meta.req /\ meta'.after = meta.after
        /\ meta'.loading = meta.loading /\ meta'.flying = meta.flying \ {q}
    BY <1>7, InvFacts DEF Metas
  <2>2. "rename" \notin risks /\ meta'.loading => \E e \in meta.flying \ {q} : freshMeta(e)
    BY <1>7, <2>1 DEF BrowseInv, FetchInv
  <2>3. "rename" \notin risks /\ meta'.loading =>
          \E e \in meta'.flying : /\ e.req = meta'.req /\ e.conn = active
                                  /\ browsing(view) /\ e.rel.table = view.rel.table
    BY <2>1, <2>2 DEF freshMeta
  <2>4. DeedInv'  BY <1>3, <1>7, <2>1 DEF BrowseInv, DeedInv, Numbered, browsing
  <2>5. view.req + Parked(fk') <= keys'  BY <1>2, <1>7, InvFacts
  <2> QED  BY <1>1, <1>2, <1>7, <2>1, <2>3, <2>4, <2>5, InvFacts, Beside
<1> QED  BY <1>5, <1>6, <1>7 DEF metaLoaded

\* Foreign keys that change while nothing else does.
LEMMA FKsAlone ==
  ASSUME BrowseInv, UNCHANGED <<session, grid, risks, tab, meta, history, deed>>,
         keys' \in Nat, keys <= keys', keys' <= MaxKeys,
         fk' \in FKTypes, "rename" \notin risks => Fetched(fk'), view.req + Parked(fk') <= keys'
  PROVE  BrowseInv'
<1>1. "rename" \notin risks /\ meta'.loading =>
        \E q \in meta'.flying : /\ q.req = meta'.req /\ q.conn = active
                                /\ browsing(view) /\ q.rel.table = view.rel.table
  BY DEF BrowseInv, FetchInv, freshMeta
<1>2. DeedInv'  BY DEF BrowseInv, DeedInv, Numbered, session, grid, browsing
<1>3. meta'.req <= keys'  BY InvFacts
<1> QED  BY <1>1, <1>2, <1>3, InvFacts, Beside

\* Following a key keeps the invariant if a key was kept for the jump.
LEMMA FollowKept ==
  ASSUME BrowseInv, OnARow, NEW f \in FKTypes, "rename" \notin risks => Fetched(f), Follow(f),
         keys' \in Nat, keys <= keys', keys' <= MaxKeys, view.req + 1 + Parked(f) <= keys'
  PROVE  BrowseInv'
<1>1. browsing(view) /\ driver # 0  BY DEF OnARow
<1>2. view.rel \in Relations  BY <1>1, InvFacts DEF Views, browsing
<1>3. CASE (\E rel \in FKs[view.rel] : jumpTo(rel, f)) /\ UNCHANGED deed
  <2> PICK rel \in FKs[view.rel] : jumpTo(rel, f)  BY <1>3
  <2>1. rel \in Relations  BY <1>2, BrowseAssumption
  <2> QED  BY <1>1, <1>3, <2>1, JumpKept
<1>4. CASE fk' = f /\ UNCHANGED <<session, grid, risks, tab, meta, history, deed>>
  <2>1. view.req + Parked(fk') <= keys'
    <3>1. Parked(f) \in Nat  BY DEF Parked
    <3> QED  BY <1>4, <3>1, InvFacts
  <2> QED  BY <1>4, <2>1, FKsAlone
<1> QED  BY <1>3, <1>4 DEF Follow

\* followFK keeps the invariant.
LEMMA FollowKeyKept ==
  ASSUME BrowseInv, followFK
  PROVE  BrowseInv'
<1>1. Key /\ OnARow  BY DEF followFK
<1>2. keys' = keys + 1 /\ keys' \in Nat /\ keys <= keys' /\ keys' <= MaxKeys
  BY <1>1, InvFacts, KeyCounts
<1>3. CASE fkKey(view) \in fk.cache
  <2>1. Follow(fk)  BY <1>3 DEF followFK
  <2>2. view.req + 1 + Parked(fk) <= keys'  BY <1>2, InvFacts
  <2> QED  BY <1>1, <1>2, <2>1, <2>2, InvFacts, FollowKept
<1>4. CASE fkKey(view) \notin fk.cache
  <2> DEFINE f == [fk EXCEPT !.after = TRUE]
  <2>1. fk' = ensureFKs(f, view) /\ UNCHANGED <<session, grid, risks, tab, meta, history, deed>>
    BY <1>4 DEF followFK
  <2>2. f \in FKTypes /\ f.after = TRUE /\ (Fetched(fk) => Fetched(f))
    BY InvFacts DEF FKTypes, Fetched
  <2> HIDE DEF f
  <2>3. fk' \in FKTypes /\ fk'.after = TRUE /\ (Fetched(fk) => Fetched(fk'))
    BY <2>1, <2>2, InvFacts, FKsEnsured
  <2>4. view.req + Parked(fk') <= keys'
    <3>1. Parked(fk') = 1  BY <2>3 DEF Parked
    <3>2. view.req <= keys  BY InvFacts
    <3> QED  BY <1>2, <3>1, <3>2, InvFacts
  <2> QED  BY <1>2, <2>1, <2>3, <2>4, InvFacts, FKsAlone
<1> QED  BY <1>3, <1>4

\* Foreign keys that have landed load no more; the others go on.
LEMMA LandedIs ==
  ASSUME NEW f \in FKTypes, NEW q \in f.flying, NEW c \in SUBSET FKKeys
  PROVE  LET g == [f EXCEPT !.cache = c, !.loading = @ \ {q.key}, !.flying = @ \ {q}]
         IN g \in FKTypes /\ g.after = f.after /\ (Fetched(f) => Fetched(g))
<1> DEFINE l == f.loading \ {q.key}
<1> DEFINE y == f.flying \ {q}
<1>1. l \in SUBSET FKKeys /\ y \in SUBSET [session : 1..MaxKeys, key : FKKeys]
  BY DEF FKTypes
<1>2. Fetched(f) => \A key \in l : \E e \in y : e.key = key /\ key.conn = active
  BY DEF Fetched
<1> HIDE DEF l, y
<1> DEFINE g == [f EXCEPT !.cache = c, !.loading = l, !.flying = y]
<1>3. g \in FKTypes /\ g.after = f.after /\ g.loading = l /\ g.flying = y  BY <1>1 DEF FKTypes
<1> HIDE DEF g
<1>4. Fetched(f) => Fetched(g)  BY <1>2, <1>3 DEF Fetched
<1> QED  BY <1>3, <1>4 DEF g, l, y

\* fksLoaded keeps the invariant.
LEMMA FKsLoadedKept ==
  ASSUME BrowseInv, NEW q \in fk.flying, fksLoaded(q)
  PROVE  BrowseInv'
<1>1. keys' = keys /\ keys \in Nat /\ keys <= MaxKeys  BY InvFacts DEF fksLoaded, SessInv
<1>2. q.key \in FKKeys  BY InvFacts DEF FKTypes
<1> DEFINE cached == [fk EXCEPT !.cache = @ \cup {q.key}, !.loading = @ \ {q.key}, !.flying = @ \ {q}]
<1>3. cached \in FKTypes /\ cached.after = fk.after /\ (Fetched(fk) => Fetched(cached))
  <2> DEFINE c == fk.cache \cup {q.key}
  <2>1. c \in SUBSET FKKeys /\ fk \in FKTypes  BY <1>2, InvFacts DEF FKTypes
  <2>2. cached = [fk EXCEPT !.cache = c, !.loading = @ \ {q.key}, !.flying = @ \ {q}]
    OBVIOUS
  <2> HIDE DEF c, cached
  <2>3. LET g == [fk EXCEPT !.cache = c, !.loading = @ \ {q.key}, !.flying = @ \ {q}]
        IN g \in FKTypes /\ g.after = fk.after /\ (Fetched(fk) => Fetched(g))
    BY ONLY <2>1, q \in fk.flying, LandedIs
  <2> QED  BY <2>2, <2>3
<1>4. CASE FKsArrived(q) /\ fk.after /\ OnARow /\ q.key = fkKey(view)
  <2>1. Follow(Unparked(cached))  BY <1>4 DEF FKsArrived
  <2> HIDE DEF cached
  <2>2. /\ Unparked(cached) \in FKTypes /\ Parked(Unparked(cached)) = 0
        /\ (Fetched(fk) => Fetched(Unparked(cached)))
    BY <1>3, UnparkedIs
  <2>3. Parked(fk) = 1  BY <1>4 DEF Parked
  <2>4. view.req + 1 + Parked(Unparked(cached)) <= keys'  BY <1>1, <2>2, <2>3, InvFacts
  <2> QED  BY <1>1, <1>4, <2>1, <2>2, <2>4, InvFacts, FollowKept
<1>5. CASE FKsArrived(q) /\ ~(fk.after /\ OnARow /\ q.key = fkKey(view))
  <2>1. /\ fk' = [cached EXCEPT !.after = @ /\ q.key # fkKey(view)]
        /\ UNCHANGED <<session, grid, risks, tab, meta, history, deed>>
    BY <1>5 DEF FKsArrived
  <2> HIDE DEF cached
  <2>2. fk' \in FKTypes /\ (fk'.after => fk.after) /\ (Fetched(cached) => Fetched(fk'))
    <3>1. fk'.loading = cached.loading /\ fk'.flying = cached.flying  BY <1>3, <2>1 DEF FKTypes
    <3>2. (cached.after /\ q.key # fkKey(view)) \in BOOLEAN  OBVIOUS
    <3>3. fk' \in FKTypes /\ (fk'.after <=> cached.after /\ q.key # fkKey(view))
      BY <1>3, <2>1, <3>2 DEF FKTypes
    <3> QED  BY <1>3, <3>1, <3>3 DEF Fetched
  <2>3. Parked(fk') <= Parked(fk)  BY <2>2 DEF Parked
  <2>4. Parked(fk') \in Nat  BY DEF Parked
  <2>5. view.req + Parked(fk') <= keys'  BY <1>1, <2>3, <2>4, InvFacts
  <2> QED  BY <1>1, <1>3, <2>1, <2>2, <2>5, InvFacts, FKsAlone
<1>6. CASE FKsFail(q)
  <2>1. /\ fk' = [fk EXCEPT !.loading = @ \ {q.key}, !.flying = @ \ {q}]
        /\ UNCHANGED <<session, grid, risks, tab, meta, history, deed>>
    BY <1>6 DEF FKsFail
  <2>2. fk' \in FKTypes /\ fk'.after = fk.after /\ fk'.loading = fk.loading \ {q.key}
        /\ fk'.flying = fk.flying \ {q}
    BY <2>1, InvFacts DEF FKTypes
  <2>3. Fetched(fk) => Fetched(fk')  BY <2>2 DEF Fetched
  <2>4. view.req + Parked(fk') <= keys'  BY <1>1, <2>2, InvFacts DEF Parked
  <2> QED  BY <1>1, <2>1, <2>2, <2>3, <2>4, InvFacts, FKsAlone
<1>7. CASE q.key.conn # active /\ FKsStale(q)
  <2>1. /\ fk' = [fk EXCEPT !.flying = @ \ {q}]
        /\ UNCHANGED <<session, grid, risks, tab, meta, history, deed>>
    BY <1>7 DEF FKsStale
  <2>2. fk' \in FKTypes /\ fk'.after = fk.after /\ fk'.loading = fk.loading
        /\ fk'.flying = fk.flying \ {q}
    BY <2>1, InvFacts DEF FKTypes
  <2>3. Fetched(fk) => Fetched(fk')  BY <1>7, <2>2 DEF Fetched
  <2>4. view.req + Parked(fk') <= keys'  BY <1>1, <2>2, InvFacts DEF Parked
  <2> QED  BY <1>1, <2>1, <2>2, <2>3, <2>4, InvFacts, FKsAlone
<1> QED  BY <1>4, <1>5, <1>6, <1>7 DEF fksLoaded
-----------------------------------------------------------------------------
(* The theorems.                                                           *)

\* The invariant holds at the start.
LEMMA BrowseStarts == Init => BrowseInv
<1> SUFFICES ASSUME Init PROVE BrowseInv  OBVIOUS
<1>1. /\ driver = 0 /\ sessions = 0 /\ active = None /\ view = NoView /\ flying = {} /\ risks = {}
      /\ inflight = [req |-> 0, open |-> FALSE, page |-> FALSE, count |-> FALSE]
      /\ tab = "data" /\ meta = NoMeta /\ fk = NoFKs /\ history = <<>> /\ deed = None /\ keys = 0
  BY DEF Init, GridInit
<1>2. SessInv  BY <1>1, BrowseAssumption DEF SessInv, Tabs
<1>3. GridInv
  <2>1. 0 \in 0..MaxKeys  BY BrowseAssumption
  <2>2. inflight \in Inflights  BY <1>1, <2>1 DEF Inflights
  <2>3. view \in Views /\ ~browsing(view) /\ view.rows = None /\ view.sel = None /\ ~view.loading
    BY <1>1, NoViewIs
  <2> QED  BY <1>1, <2>2, <2>3 DEF GridInv, GridTypes, OpenInv, PageAwaited, QueryInv, ShownInv
<1>4. HistoryInv
  <2>1. <<>> \in Seq(Places) /\ Len(<<>>) = 0  BY EmptySeq
  <2> QED  BY <1>1, <2>1, BrowseAssumption DEF HistoryInv
<1>5. meta \in Metas /\ meta.req = 0 /\ ~meta.loading /\ meta.after = None
  <2>1. 0 \in 0..MaxKeys  BY BrowseAssumption
  <2> QED  BY <1>1, <2>1 DEF NoMeta, Metas
<1>6. fk \in FKTypes /\ fk.loading = {} /\ Parked(fk) = 0  BY <1>1 DEF NoFKs, FKTypes, Parked
<1>7. CountInv  BY <1>1, <1>5, <1>6, NoViewIs DEF CountInv
<1>8. FetchInv  BY <1>5, <1>6 DEF FetchInv
<1>9. DeedInv  BY <1>1, <1>5 DEF DeedInv
<1> QED  BY <1>2, <1>3, <1>4, <1>7, <1>8, <1>9 DEF BrowseInv

\* Every step keeps it, and so does none.
LEMMA BrowseStep == BrowseInv /\ [Next]_vars => BrowseInv'
<1> SUFFICES ASSUME BrowseInv, [Next]_vars PROVE BrowseInv'  OBVIOUS
<1>1. CASE Keys
  <2>1. ASSUME NEW rel \in Relations, OpenObject(rel)  PROVE BrowseInv'  BY <2>1, OpenKept
  <2>2. ASSUME NEW rel \in Relations, walkRelation(rel)  PROVE BrowseInv'  BY <2>2, WalkKept
  <2>3. ASSUME NEW t \in Tabs, setMainTab(t)  PROVE BrowseInv'  BY <2>3, TabKept
  <2> QED
    BY <1>1, <2>1, <2>2, <2>3, PageKept, SelectKept, DeleteKept, FollowKeyKept, BackKept, ReloadKept
    DEF Keys, Tabs
<1>2. CASE Elsewhere
  <2>1. ASSUME NEW n \in Names, renameConnState(n)  PROVE BrowseInv'  BY <2>1, RenameKept
  <2> QED  BY <1>2, <2>1, ConnectKept, DatabaseKept, ResultKept, CommitKept DEF Elsewhere
<1>3. CASE Replies
  <2>1. ASSUME NEW q \in meta.flying, metaLoaded(q)  PROVE BrowseInv'  BY <2>1, MetaLoadedKept
  <2>2. ASSUME NEW q \in fk.flying, fksLoaded(q)  PROVE BrowseInv'  BY <2>2, FKsLoadedKept
  <2> QED  BY <1>3, <2>1, <2>2, PageReplyKept DEF Replies
<1>4. CASE UNCHANGED vars
  <2>1. /\ UNCHANGED <<session, grid, risks, tab, meta, fk, history, deed, keys>>
    BY <1>4 DEF vars
  <2>2. keys \in Nat /\ keys <= MaxKeys  BY InvFacts DEF SessInv
  <2> QED  BY <2>1, <2>2, InvFacts, FKsAlone
<1> QED  BY <1>1, <1>2, <1>3, <1>4 DEF Next

\* Whatever keys are pressed and in whatever order replies land, the queries
\* under way, the view, the views to come back to, the metadata and the
\* foreign keys belong together (model.go, data.go, meta.go, foreignkey.go).
THEOREM BrowseInvariant == Spec => []BrowseInv
BY BrowseStarts, BrowseStep, PTL DEF Spec

\* A page that has finished loading shows the rows the view asks for, its
\* total counts them, and the page exists (data.go fresh, turnPage): no reply
\* of another relation, filter, order, page or session is taken for it.
THEOREM PagesAreTrue == Spec => []PageTruth
<1>1. BrowseInv => PageTruth
  <2> SUFFICES ASSUME BrowseInv PROVE PageTruth  OBVIOUS
  <2>1. TypeOK
    <3>1. /\ driver \in 0..sessions /\ sessions \in 0..MaxKeys
          /\ active \in Names \cup {None} /\ (active = None) = (driver = 0)
      BY InvFacts, BrowseAssumption DEF SessInv
    <3>2. flying \subseteq [kind : {"page", "count"}, conn : Names \cup {None}, req : 1..MaxKeys,
                            asks : Answers, stopped : BOOLEAN]
      BY InvFacts DEF GridInv, GridTypes, Flying
    <3>3. \A i \in DOMAIN history : history[i].view \in Views
      <4>1. history \in Seq(Places) /\ DOMAIN history = 1..Len(history)
        BY InvFacts DEF HistoryInv
      <4>2. \A i \in DOMAIN history : history[i] \in Places  BY <4>1, ElementOfSeq
      <4> QED  BY <4>2 DEF Places
    <3>4. Len(history) <= MaxHistory  BY InvFacts DEF HistoryInv
    <3>5. risks \subseteq {"reset", "rename", "early", "blind"} /\ tab \in {"data", "structure", "relations"}
      BY InvFacts DEF SessInv, Tabs
    <3>6. inflight \in [req : 0..MaxKeys, open : BOOLEAN, page : BOOLEAN, count : BOOLEAN]
      BY InvFacts DEF GridInv, GridTypes, Inflights
    <3>7. /\ fk.after \in BOOLEAN
          /\ fk.cache \cup fk.loading \subseteq [conn : Names, rel : Relations]
          /\ fk.flying \subseteq [session : 1..MaxKeys, key : [conn : Names, rel : Relations]]
      BY InvFacts DEF FKTypes, FKKeys
    <3>8. meta \in [req : 0..MaxKeys, loading : BOOLEAN, loaded : BOOLEAN, err : BOOLEAN,
               of : Relations \cup {None}, after : Cells \cup {None},
               flying : SUBSET [req : 1..MaxKeys, conn : Names, rel : Relations]]
      BY InvFacts DEF Metas
    <3>9. deed = None \/ (deed.asked \in Cells /\ deed.on \in Cells)  BY DEF BrowseInv, DeedInv
    <3> QED  BY <3>1, <3>2, <3>3, <3>4, <3>5, <3>6, <3>7, <3>8, <3>9, InvFacts DEF TypeOK
  <2>2. ShownIsAsked
    <3> SUFFICES ASSUME browsing(view), ~view.loading, ~view.err, Numbered
                 PROVE  /\ view.rows = Asked(view)
                        /\ \/ view.total = None
                           \/ \E q \in flying : q.kind = "count" /\ fresh(q)
                           \/ view.total = RowsIn[view.rel][view.filter]
      BY DEF ShownIsAsked
    <3>1. \A q \in flying : fresh(q) <=> Mine(q)  BY InvFacts, FreshIsMine
    <3> QED  BY <3>1, InvFacts DEF GridInv, ShownInv
  <2>3. NeverPastTheEnd
    <3> SUFFICES ASSUME browsing(view), ~view.loading, ~view.err, "blind" \notin risks, Numbered
                 PROVE  view.page = 0 \/ RowsOn(view.rows) > 0
      BY DEF NeverPastTheEnd
    <3>1. view.rows = Asked(view)  BY InvFacts DEF GridInv, ShownInv
    <3>2. view.rows \in Answers  BY <3>1, InvFacts, AskedIs
    <3>3. InRange(view)  BY InvFacts DEF GridInv, OpenInv, Fit, Numbered
    <3>4. view.rows.page = view.page /\ view.rows.rel = view.rel /\ view.rows.filter = view.filter
      BY <3>1 DEF Asked
    <3> QED  BY <3>2, <3>3, <3>4, PageHasRows DEF InRange
  <2> QED  BY <2>1, <2>2, <2>3 DEF PageTruth
<1> QED  BY <1>1, BrowseInvariant, PTL

\* A selection is of the rows it was made over, and a parked delete is staged
\* in the session and on the relation it was asked for (data.go
\* clearSelection, meta.go resetMeta and freshMeta).
THEOREM ActsAreSeen == Spec => []ActsWhereSeen
<1>1. BrowseInv => ActsWhereSeen
  <2> SUFFICES ASSUME BrowseInv PROVE ActsWhereSeen  OBVIOUS
  <2>1. SelectionHolds
    <3> SUFFICES ASSUME view.sel # None, "early" \notin risks, Numbered
                 PROVE  view.sel = view.rows
      BY DEF SelectionHolds
    <3>1. browsing(view)  BY InvFacts DEF GridInv, OpenInv
    <3> QED  BY <3>1, InvFacts DEF GridInv, ShownInv
  <2>2. DeletesWhereItWas  BY DEF BrowseInv, DeedInv, DeletesWhereItWas
  <2> QED  BY <2>1, <2>2 DEF ActsWhereSeen
<1> QED  BY <1>1, BrowseInvariant, PTL

\* What says it is loading has an answer under way that will be taken, as
\* long as the live connection keeps its name (model.go: "a cancellation must
\* never leave the grid waiting forever").
THEOREM LoadsAreAwaited == Spec => []Awaited
<1>1. BrowseInv => Awaited
  BY DEF BrowseInv, GridInv, PageAwaited, FetchInv, Awaited
<1> QED  BY <1>1, BrowseInvariant, PTL
=============================================================================
