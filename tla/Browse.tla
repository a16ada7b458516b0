------------------------------- MODULE Browse -------------------------------
(***************************************************************************)
(* Browsing a database (internal/ui: model.go, meta.go, foreignkey.go,     *)
(* relations.go, rowops.go): the page of module GridPages together with    *)
(* the metadata of its relation, the foreign keys, the history of jumps,   *)
(* and the keys that are parked until what they need has been fetched.     *)
(*                                                                         *)
(* The scan of a whole namespace (G, the incoming half of the Relations    *)
(* tab) is left out. Every parked action is a delete, the one whose effect *)
(* on the wrong row matters most; edit, insert, duplicate and the copies   *)
(* of the DDL are parked and run the same way.                             *)
(***************************************************************************)
EXTENDS GridPages, Sequences

CONSTANTS
  FKs,         \* a relation: those its foreign keys point at
  MaxHistory,  \* browseStackMax
  MaxKeys,     \* bound on the keys of a behaviour
  MaxFlying    \* bound on the replies under way when one is pressed

ASSUME BrowseAssumption ==
  /\ FKs \in [Relations -> SUBSET Relations]
  /\ MaxHistory \in Nat \ {0}
  /\ MaxKeys \in Nat
  /\ MaxFlying \in Nat

VARIABLES
  tab,      \* Model.tab
  meta,     \* Model.meta; of is the relation it was read from, after the
            \* cell a parked delete was pressed on, flying the fetches
            \* whose reply is not reduced yet
  fk,       \* the keys of fkCache and fkLoading, whether a `g` is parked,
            \* and the fetches whose reply is not reduced yet
  history,  \* Model.grid.browseStack
  deed,     \* the last delete staged: where it was asked and where done
  keys      \* keys pressed so far

vars == <<session, grid, risks, tab, meta, fk, history, deed, keys>>

NoMeta == [req |-> 0, loading |-> FALSE, loaded |-> FALSE, err |-> FALSE,
           of |-> None, after |-> None, flying |-> {}]
NoFKs == [cache |-> {}, loading |-> {}, after |-> FALSE, flying |-> {}]

Init ==
  /\ GridInit
  /\ tab = "data"
  /\ meta = NoMeta
  /\ fk = NoFKs
  /\ history = <<>>
  /\ deed = None
  /\ keys = 0

\* A key of the user, while few replies are under way.
Key ==
  /\ keys < MaxKeys
  /\ keys' = keys + 1
  /\ Cardinality(flying) + Cardinality(meta.flying) + Cardinality(fk.flying) <= MaxFlying

-----------------------------------------------------------------------------
(* Fetching metadata and foreign keys.                                     *)

\* Plausible bug: what was waiting for the old relation's metadata waits on.
resetMetaKeeps == [NoMeta EXCEPT !.req = meta.req, !.flying = meta.flying, !.after = meta.after]

resetMeta == [NoMeta EXCEPT !.req = meta.req, !.flying = meta.flying]

\* For the view a key has just made.
startMetaLoad(m, v) ==
  [m EXCEPT !.req = @ + 1, !.loading = TRUE, !.loaded = FALSE, !.err = FALSE,
            !.flying = @ \cup {[req |-> m.req + 1, conn |-> active, rel |-> v.rel]}]

ensureMeta(m, v, t) ==
  IF t # "data" /\ driver # 0 /\ browsing(v) /\ ~m.loaded /\ ~m.loading
  THEN startMetaLoad(m, v) ELSE m

fkKey(v) == [conn |-> active, rel |-> v.rel]

ensureFKs(f, v) ==
  IF driver # 0 /\ browsing(v) /\ fkKey(v) \notin f.cache \cup f.loading
  THEN [f EXCEPT !.loading = @ \cup {fkKey(v)},
                 !.flying = @ \cup {[session |-> driver, key |-> fkKey(v)]}]
  ELSE f

\* clearBrowse forgets the history and the key parked on foreign keys.
Unparked(f) == [f EXCEPT !.after = FALSE]

-----------------------------------------------------------------------------
(* Opening, jumping and coming back.                                       *)

OpenObject(rel) ==
  /\ Key
  /\ openTable(rel)
  /\ meta' = ensureMeta(resetMeta, view', tab)
  /\ fk' = ensureFKs(Unparked(fk), view')
  /\ history' = <<>>
  /\ UNCHANGED <<session, risks, tab, deed>>

Pushed == LET h == Append(history, [view |-> view, tab |-> tab])
          IN IF Len(h) > MaxHistory THEN Tail(h) ELSE h

Go(v, t, f) ==
  /\ Reload(v)
  /\ tab' = t
  /\ meta' = ensureMeta(resetMeta, view', t)
  /\ fk' = ensureFKs(f, view')
  /\ UNCHANGED <<session, risks>>

\* The filter picks the row the key points at.
jumpTo(rel, f) ==
  /\ history' = Pushed
  /\ \E w \in Filters \ {Plain} : Go([Opened(rel) EXCEPT !.filter = w], "data", f)

\* enter on the Relations tab.
walkRelation(rel) ==
  /\ Key
  /\ tab = "relations" /\ browsing(view) /\ driver # 0
  /\ meta.loaded /\ ~meta.err /\ rel \in FKs[view.rel]
  /\ history' = Pushed
  /\ Go(Opened(rel), "relations", fk)
  /\ UNCHANGED deed

browseBack ==
  /\ Key
  /\ history # <<>>
  /\ LET st == history[Len(history)]
     IN Go([st.view EXCEPT !.req = view.req, !.loading = FALSE, !.err = FALSE], st.tab, fk)
  /\ history' = SubSeq(history, 1, Len(history) - 1)
  /\ UNCHANGED deed

\* A result of the query editor replaces the view.
showQueryResult ==
  /\ Key
  /\ driver # 0
  /\ view' = [NoView EXCEPT !.conn = active, !.query = TRUE, !.req = view.req + 1]
  /\ tab' = "data"
  /\ meta' = resetMeta
  /\ UNCHANGED <<session, inflight, flying, risks, fk, history, deed>>

setMainTab(t) ==
  /\ Key
  /\ browsing(view)
  /\ tab' = t
  /\ meta' = ensureMeta(meta, view, t)
  /\ UNCHANGED <<session, grid, risks, fk, history, deed>>

\* R: the page and the foreign keys, or the metadata.
reloadFocused ==
  /\ Key
  /\ browsing(view) /\ driver # 0
  /\ IF tab = "data"
     THEN /\ Reload(view)
          /\ fk' = ensureFKs([fk EXCEPT !.cache = @ \ {fkKey(view)}], view')
          /\ meta' = meta
     ELSE meta' = startMetaLoad(meta, view) /\ UNCHANGED <<grid, fk>>
  /\ UNCHANGED <<session, risks, tab, history, deed>>

\* A schema change was committed: the relation is read again or closed.
SchemaRead ==
  /\ browsing(view)
  /\ Reload(view)
  /\ meta' = ensureMeta(resetMeta, view', tab)
  /\ fk' = ensureFKs([fk EXCEPT !.cache = {}], view')
  /\ UNCHANGED <<tab, history>>

closeRelation ==
  /\ stopPageQueries
  /\ view' = [NoView EXCEPT !.req = view.req]
  /\ tab' = "data"
  /\ meta' = resetMeta
  /\ fk' = Unparked([fk EXCEPT !.cache = {}])
  /\ history' = <<>>

afterSchemaCommit ==
  /\ Key
  /\ driver # 0 /\ browsing(view) /\ view.conn = active
  /\ SchemaRead \/ closeRelation
  /\ UNCHANGED <<session, risks, deed>>

\* What the go-to-page prompt takes.
Pages == IF view.total = None THEN {} ELSE 0..(pageCount(view.total) - 1)

\* The keys of GridPages; a commit of row changes reloads the page too.
PageKey ==
  /\ Key
  /\ \/ \E d \in {1, -1} : turnPage(d)
     \/ \E p \in Pages : submitGoToPage(p)
     \/ jumpToFirstRow \/ jumpToLastRow
     \/ \E r \in 0..(Limit - 1) : MoveCursor(r)
     \/ (\E f \in Filters : setDataFilter(f)) /\ UNCHANGED risks
     \/ (clearFilter \/ toggleSort) /\ UNCHANGED risks
     \/ browsing(view) /\ Reload(view) /\ UNCHANGED risks
  /\ UNCHANGED <<session, tab, meta, fk, history, deed>>

SelectKey ==
  /\ Key
  /\ tab = "data"
  /\ toggleSelection
  /\ UNCHANGED <<session, tab, meta, fk, history, deed>>

-----------------------------------------------------------------------------
(* Connections.                                                            *)

\* Plausible bug: fetches of the old connection still count as loading.
ResetFKsKeeps == [fk EXCEPT !.cache = {}, !.after = FALSE]

resetFKs == [NoFKs EXCEPT !.flying = fk.flying]

resetBrowse(name) ==
  /\ Forget(name)
  /\ stopPageQueries
  /\ tab' = "data"
  /\ meta' = resetMeta
  /\ fk' = resetFKs
  /\ history' = <<>>
  /\ UNCHANGED deed

Connect(n) ==
  /\ Key
  /\ driver' = sessions + 1
  /\ sessions' = sessions + 1
  /\ active' = n
  /\ resetBrowse(n)

Disconnect ==
  /\ Key
  /\ driver # 0
  /\ driver' = 0
  /\ sessions' = sessions
  /\ active' = None
  /\ resetBrowse(None)

\* The profile of the live connection is saved under another name.
renameConnState(n) ==
  /\ Key
  /\ active \notin {None, n}
  /\ active' = n
  /\ risks' = risks \cup {"rename"}
  /\ UNCHANGED <<driver, sessions, grid, tab, meta, fk, history, deed>>

\* The namespaces were listed again and there is one: it is opened anew.
openDatabase ==
  /\ Key
  /\ driver # 0
  /\ Forget(active)
  /\ meta' = resetMeta
  /\ fk' = Unparked(fk)
  /\ history' = <<>>
  /\ UNCHANGED <<session, inflight, flying, tab, deed>>

-----------------------------------------------------------------------------
(* Parked keys.                                                            *)

OnARow == browsing(view) /\ driver # 0 /\ tab = "data" /\ RowsOn(view.rows) > 0

Deleted(asked) == [asked |-> asked, on |-> Cell]

\* d: staged at once, or parked until the metadata names the primary key.
startDelete ==
  /\ Key
  /\ OnARow
  /\ IF meta.loaded
     THEN deed' = (IF meta.err THEN deed ELSE Deleted(Cell)) /\ meta' = meta
     ELSE /\ meta' = LET parked == [meta EXCEPT !.after = Cell]
                     IN IF meta.loading THEN parked ELSE startMetaLoad(parked, view)
          /\ deed' = deed
  /\ UNCHANGED <<session, grid, risks, tab, fk, history>>

freshMeta(q) ==
  /\ q.req = meta.req
  /\ q.conn = active
  /\ browsing(view) /\ q.rel.table = view.rel.table

Answered(q, failed) == [meta EXCEPT !.loading = FALSE, !.loaded = TRUE, !.err = failed,
                                    !.of = q.rel, !.after = None, !.flying = @ \ {q}]

\* metaLoadedMsg: what was parked runs where the cursor now is.
MetaArrived(q) ==
  /\ meta' = Answered(q, FALSE)
  /\ fk' = [fk EXCEPT !.cache = @ \cup {[conn |-> q.conn, rel |-> q.rel]}]
  /\ deed' = IF meta.after # None /\ OnARow THEN Deleted(meta.after) ELSE deed

metaLoaded(q) ==
  /\ q \in meta.flying
  /\ \/ freshMeta(q) /\ MetaArrived(q)
     \/ freshMeta(q) /\ meta' = Answered(q, TRUE) /\ UNCHANGED <<fk, deed>>
     \/ ~freshMeta(q) /\ meta' = [meta EXCEPT !.flying = @ \ {q}] /\ UNCHANGED <<fk, deed>>
  /\ UNCHANGED <<session, grid, risks, tab, history, keys>>

\* g with the foreign keys at hand; it stays when the column under the
\* cursor is in none, or its value is NULL.
Follow(f) ==
  \/ (\E rel \in FKs[view.rel] : jumpTo(rel, f)) /\ UNCHANGED deed
  \/ fk' = f /\ UNCHANGED <<session, grid, risks, tab, meta, history, deed>>

followFK ==
  /\ Key
  /\ OnARow
  /\ IF fkKey(view) \in fk.cache THEN Follow(fk)
     ELSE /\ fk' = ensureFKs([fk EXCEPT !.after = TRUE], view)
          /\ UNCHANGED <<session, grid, risks, tab, meta, history, deed>>

\* fksLoadedMsg for the live connection. A failure leaves what is parked
\* where it is.
FKsArrived(q) ==
  LET cached == [fk EXCEPT !.cache = @ \cup {q.key}, !.loading = @ \ {q.key}, !.flying = @ \ {q}]
  IN IF fk.after /\ OnARow /\ q.key = fkKey(view) THEN Follow(Unparked(cached))
     ELSE /\ fk' = [cached EXCEPT !.after = @ /\ q.key # fkKey(view)]
          /\ UNCHANGED <<session, grid, risks, tab, meta, history, deed>>

FKsFail(q) ==
  /\ fk' = [fk EXCEPT !.loading = @ \ {q.key}, !.flying = @ \ {q}]
  /\ UNCHANGED <<session, grid, risks, tab, meta, history, deed>>

FKsStale(q) ==
  /\ fk' = [fk EXCEPT !.flying = @ \ {q}]
  /\ UNCHANGED <<session, grid, risks, tab, meta, history, deed>>

fksLoaded(q) ==
  /\ q \in fk.flying
  /\ IF q.key.conn = active THEN FKsArrived(q) \/ FKsFail(q) ELSE FKsStale(q)
  /\ UNCHANGED keys

PageReply ==
  /\ \E q \in flying : Reply(q)
  /\ UNCHANGED <<session, risks, tab, meta, fk, history, deed, keys>>

-----------------------------------------------------------------------------
Keys ==
  \/ \E rel \in Relations : OpenObject(rel) \/ walkRelation(rel)
  \/ PageKey \/ SelectKey \/ startDelete \/ followFK \/ browseBack
  \/ \E t \in {"data", "structure", "relations"} : setMainTab(t)
  \/ reloadFocused

Elsewhere ==
  \/ \E n \in Names : Connect(n) \/ renameConnState(n)
  \/ Disconnect \/ openDatabase \/ showQueryResult \/ afterSchemaCommit

Replies ==
  \/ PageReply
  \/ \E q \in meta.flying : metaLoaded(q)
  \/ \E q \in fk.flying : fksLoaded(q)

Next == Keys \/ Elsewhere \/ Replies

Spec == Init /\ [][Next]_vars

-----------------------------------------------------------------------------
Answers == [session : 0..MaxKeys, rel : Relations, filter : Filters, sort : BOOLEAN, page : Nat]
ASSUME BrowseNone == None \notin Answers

Cells == [page : Answers, row : 0..(Limit - 1)]
Views == [conn : Names \cup {None}, rel : Relations \cup {None}, query : BOOLEAN, filter : Filters,
          sort : BOOLEAN, page : Nat, total : Nat \cup {None}, rows : Answers \cup {None},
          row : 0..(Limit - 1), sel : Answers \cup {None}, loading : BOOLEAN, err : BOOLEAN,
          req : 0..MaxKeys]

(* Every variable keeps its type; the cursor is always on a row the page   *)
(* can have (data.go clampCursor).                                         *)
TypeOK ==
  /\ driver \in 0..sessions /\ sessions \in 0..MaxKeys
  /\ active \in Names \cup {None} /\ (active = None) = (driver = 0)
  /\ view \in Views
  /\ inflight \in [req : 0..MaxKeys, open : BOOLEAN, page : BOOLEAN, count : BOOLEAN]
  /\ flying \subseteq [kind : {"page", "count"}, conn : Names \cup {None}, req : 1..MaxKeys,
                      asks : Answers, stopped : BOOLEAN]
  /\ risks \subseteq {"reset", "rename", "early", "blind"}
  /\ tab \in {"data", "structure", "relations"}
  /\ meta \in [req : 0..MaxKeys, loading : BOOLEAN, loaded : BOOLEAN, err : BOOLEAN,
               of : Relations \cup {None}, after : Cells \cup {None},
               flying : SUBSET [req : 1..MaxKeys, conn : Names, rel : Relations]]
  /\ fk.after \in BOOLEAN
  /\ fk.cache \cup fk.loading \subseteq [conn : Names, rel : Relations]
  /\ fk.flying \subseteq [session : 1..MaxKeys, key : [conn : Names, rel : Relations]]
  /\ Len(history) <= MaxHistory
  /\ \A i \in DOMAIN history : history[i].view \in Views
  /\ deed = None \/ (deed.asked \in Cells /\ deed.on \in Cells)

\* Request numbers and connection names still tell replies apart.
Numbered == risks \cap {"reset", "rename"} = {}

(* A page that has finished loading without an error shows the rows the    *)
(* view asks for, and its total counts them: no reply of another relation, *)
(* filter, order, page or session is ever taken for it. It rests on the    *)
(* request numbers never restarting under replies in flight (data.go       *)
(* fresh, dataView.req).                                                   *)
ShownIsAsked ==
  browsing(view) /\ ~view.loading /\ ~view.err /\ Numbered =>
    /\ view.rows = Asked(view)
    /\ \/ view.total = None
       \/ \E q \in flying : q.kind = "count" /\ fresh(q)
       \/ view.total = RowsIn[view.rel][view.filter]

(* The rows under a selection are the rows it was made over, unless it was *)
(* made while their replacement was loading, or replies are mistaken (data.go clearSelection: "a    *)
(* selection that survived would stage or copy the wrong ones").           *)
SelectionHolds ==
  view.sel # None /\ "early" \notin risks /\ Numbered => view.sel = view.rows

(* A delete parked until the metadata is there is staged in the session    *)
(* and on the relation it was asked for, or never (meta.go resetMeta,      *)
(* freshMeta).                                                             *)
DeletesWhereItWas ==
  deed # None /\ Numbered =>
    /\ deed.asked.page.session = deed.on.page.session
    /\ deed.asked.page.rel = deed.on.page.rel

(* No key walks off the end of a relation, through filters, sorts, jumps   *)
(* and views come back to, unless a page was turned by a count that was    *)
(* missing or of another filter (data.go turnPage).                        *)
NeverPastTheEnd ==
  browsing(view) /\ ~view.loading /\ ~view.err /\ "blind" \notin risks /\ Numbered =>
    view.page = 0 \/ RowsOn(view.rows) > 0

(* Whatever says it is loading has an answer under way that will be taken: *)
(* no cancellation, no superseded request and no replaced connection       *)
(* leaves the grid, the metadata or the foreign keys waiting for ever, as  *)
(* long as the live connection keeps its name (model.go: "a cancellation   *)
(* must never leave the grid waiting forever").                            *)
Awaited ==
  "rename" \notin risks =>
    /\ view.loading => \E q \in flying : q.kind = "page" /\ fresh(q)
    /\ meta.loading => \E q \in meta.flying : freshMeta(q)
    /\ \A key \in fk.loading : \E q \in fk.flying : q.key = key /\ key.conn = active

(* Metadata that has loaded is the open relation's (meta.go metaView:      *)
(* "Identity of the metadata on screen; replies that do not match belong   *)
(* to a relation the user has already moved past").                        *)
MetaOfItsRelation ==
  meta.loaded => meta.of = view.rel

(* The page on screen is the one asked for, and there is one (data.go).     *)
PageTruth == TypeOK /\ ShownIsAsked /\ NeverPastTheEnd

(* What a key acts on is what it was pressed over (data.go, meta.go).       *)
ActsWhereSeen == SelectionHolds /\ DeletesWhereItWas
=============================================================================
