----------------------------- MODULE ObjectTree -----------------------------
(***************************************************************************)
(* Panel [2] (ui/objtree.go, ui/panel.go, ui/browse.go): the tree of a      *)
(* connection's databases, categories and objects, its lazy listings, and   *)
(* the list it is flattened into, with its cursor and its filter. A listing *)
(* holds what the server had when it was asked and may be answered late, in *)
(* any order, or never; nothing on it says which request it answers.        *)
(***************************************************************************)
EXTENDS Integers, Sequences, FiniteSets, SequencesExt

CONSTANTS
  Databases, \* in the order of the server's list
  Tables,    \* the tables each of them starts with, in order
  Patterns,  \* what is typed into the filter
  MaxAsks,   \* bound on the requests sent
  MaxOpen,   \* bound on the nodes that keys have open
  Droppable  \* the databases whose first table may be dropped

ASSUME TreeConstants == Databases \in Seq(STRING) \ {<<>>} /\ Tables \in Seq(STRING)

Cats == <<"Tables", "Views", "Triggers">>
Relational == {"Tables", "Views"}
DBs == ToSet(Databases)

VARIABLES
  live,     \* a driver is open
  srv,      \* the tables the server has
  asks,     \* the requests in flight
  asked,    \* their count so far
  database, \* m.database
  listed,   \* objectTree.relations: per database its relations, or none
  mirror,   \* m.relations
  roots,    \* the databases of the tree; one of them alone has no row
  open,     \* the expanded nodes
  cat,      \* per category: loading, loaded and its children
  sizes,    \* objectTree.stats: the tables sized
  sized,    \* the table nodes with a size
  changes,  \* the databases whose first table is staged to be dropped
  marks,    \* the nodes that say so
  rows,     \* sidePanel.rows, the flattened tree
  panel,    \* filter, filtering, navigated, cursor
  trigger   \* the definition in the main view

treeVars == <<live, srv, asks, asked, database, listed, mirror, roots, open, cat, sizes,
              sized, changes, marks, rows, panel, trigger>>

Nothing == <<>>
NoDb == ""
NoList == [tables |-> {}, cached |-> FALSE]
NoTrigger == [node |-> Nothing, req |-> 0, ddl |-> Nothing]
Unread == [loading |-> FALSE, loaded |-> FALSE, kids |-> {}]
Idle == [filter |-> "", filtering |-> FALSE, navigated |-> FALSE, cursor |-> 0]

TreeInit ==
  /\ live = FALSE /\ srv = [d \in DBs |-> ToSet(Tables)]
  /\ asks = {} /\ asked = 0
  /\ database = NoDb /\ mirror = {}
  /\ listed = [d \in DBs |-> NoList]
  /\ roots = <<>> /\ open = {} /\ cat = [k \in DBs \X ToSet(Cats) |-> Unread]
  /\ sizes = [d \in DBs |-> {}] /\ sized = {}
  /\ changes = {} /\ marks = {}
  /\ rows = <<>> /\ panel = Idle
  /\ trigger = NoTrigger

-----------------------------------------------------------------------------
(* The tree and its rows. A node is its path.                              *)

Single(rs) == Len(rs) = 1
InTree(d) == d \in ToSet(roots)
Name(n) == n[Len(n)]
leaf(n) == Len(n) = 3

\* All the nodes there can be, in the order of the tree; no view is among them.
Names(c) == CASE c = "Tables" -> Tables [] c = "Views" -> <<>> [] c = "Triggers" -> <<"g">>
Paths == FlattenSeq([i \in DOMAIN Databases |->
           LET d == Databases[i]
           IN <<<<d>>>> \o FlattenSeq([j \in DOMAIN Cats |->
                LET c == Cats[j] IN <<<<d, c>>>> \o [k \in DOMAIN Names(c) |-> <<d, c, Names(c)[k]>>]])])

\* The members of s at the places of T.
Kept(s, T) ==
  LET first[k \in 0 .. Len(s)] ==
        IF k = 0 THEN <<>> ELSE IF k \in T THEN Append(first[k - 1], s[k]) ELSE first[k - 1]
  IN first[Len(s)]

\* A node has a row when those above it are open.
hasRow(n, rs, op, ct) ==
  /\ n[1] \in ToSet(rs)
  /\ Len(n) = 1 => ~Single(rs)
  /\ Len(n) > 1 => Single(rs) \/ <<n[1]>> \in op
  /\ Len(n) = 3 => <<n[1], n[2]>> \in op /\ n[3] \in ct[n[1], n[2]].kids
flatten(rs, op, ct) == Kept(Paths, {i \in DOMAIN Paths : hasRow(Paths[i], rs, op, ct)})

children(n) == IF Len(n) = 1 THEN ToSet(Cats) ELSE cat[n[1], n[2]].kids
parentOf(n) == SubSeq(n, 1, Len(n) - 1)

\* A pattern matches a name; the empty one matches all.
fuzzyMatch(p, name) == p \in {"", name}

\* A row survives when it matches or a row below it does.
treeKeep(rs, matched, i) ==
  \E j \in matched : j >= i /\ \A k \in i + 1 .. j : Len(rs[k]) > Len(rs[i])

items(rs, p) ==
  LET all == [i \in DOMAIN rs |-> i]
      matched == {i \in DOMAIN rs : fuzzyMatch(p, Name(rs[i]))}
  IN IF p = "" THEN all ELSE Kept(all, {i \in DOMAIN rs : treeKeep(rs, matched, i)})
nodeAt(rs, pn, i) == LET it == items(rs, pn.filter) IN IF i \in DOMAIN it THEN rs[it[i]] ELSE Nothing
selectedNode == nodeAt(rows, panel, panel.cursor)

move(rs, pn, delta) ==
  LET n == Len(items(rs, pn.filter))
      to == pn.cursor + delta
  IN [pn EXCEPT !.cursor = IF n = 0 THEN 0 ELSE IF to < 1 THEN 1 ELSE IF to > n THEN n ELSE to]

\* Narrowing a list takes the cursor to its top.
applyFilter(rs, pn) == move(rs, IF pn.filter = "" THEN pn ELSE [pn EXCEPT !.cursor = 1], 0)

\* The row of a node, and of the first node of a name.
selectNode(rs, pn, want) ==
  LET it == items(rs, pn.filter)
      At == {i \in DOMAIN it : rs[it[i]] = want}
  IN IF At = {} THEN move(rs, [pn EXCEPT !.cursor = 1], 0) ELSE [pn EXCEPT !.cursor = CHOOSE i \in At : TRUE]
selectByName(rs, pn, name) ==
  LET it == items(rs, pn.filter)
      At == {i \in DOMAIN it : Name(rs[it[i]]) = name}
  IN IF At = {} THEN move(rs, pn, 0) ELSE [pn EXCEPT !.cursor = CHOOSE i \in At : \A j \in At : i <= j]

setFilter(pn, pattern) ==
  LET p == applyFilter(rows, [pn EXCEPT !.filter = pattern])
  IN IF selectedNode = Nothing THEN p ELSE selectByName(rows, p, Name(selectedNode))

clearFilter(pn) ==
  LET p == [pn EXCEPT !.filtering = FALSE, !.navigated = FALSE]
  IN IF p.filter = "" THEN p ELSE setFilter(p, "")

\* Every repaint marks the nodes a staged change is about.
Nodes(d, c, ct) == {<<d, c, n>> : n \in ct[d, c].kids}
markStagedSchema(rs, ct) == UNION {Nodes(d, "Tables", ct) : d \in ToSet(rs) \cap changes'}

\* Plausible bug: the cursor keeps its number and not its node.
setTreeRowsByIndex(rs, keep, pn) == rows' = rs /\ panel' = applyFilter(rows', pn)

setTreeRows(rs, keep, pn) ==
  /\ rows' = rs
  /\ panel' = selectNode(rows', applyFilter(rows', pn), keep)

\* The cursor's node is followed unless this very step replaced it by a new
\* one of the same name.
refreshTree(fresh, pn) ==
  /\ LET n == selectedNode
     IN setTreeRows(flatten(roots', open', cat'), IF n \in fresh THEN Nothing ELSE n, pn)
  /\ marks' = markStagedSchema(roots', cat')

-----------------------------------------------------------------------------
(* The requests.                                                           *)

\* What one carries is read by the server as it arrives there.
Ask(kind, d) == [kind |-> kind, db |-> d, n |-> asked, tables |-> IF d = NoDb THEN {} ELSE srv[d]]
Send(kinds, d) ==
  /\ asked < MaxAsks /\ asked' = asked + 1
  /\ asks' = asks \cup {Ask(k, d) : k \in kinds}

\* Tables and views come with one listing, and the sizes beside it.
startLoading(d, ct) ==
  [k \in DOMAIN ct |-> IF k[1] = d /\ k[2] \in Relational THEN [ct[k] EXCEPT !.loading = TRUE] ELSE ct[k]]
unload(d, c, ct) ==
  [k \in DOMAIN ct |-> IF k[1] = d /\ (k[2] = c \/ {k[2], c} \subseteq Relational)
                       THEN [ct[k] EXCEPT !.loaded = FALSE] ELSE ct[k]]
loadCategory(d, c, ct) ==
  IF c \in Relational
  THEN /\ cat' = startLoading(d, ct)
       /\ Send({"relations", "sizes"}, d)
  ELSE /\ cat' = [ct EXCEPT ![<<d, c>>].loading = TRUE]
       /\ Send({"triggers"}, d)

NoLoad == UNCHANGED <<asks, asked, cat>>

expandNode(n) ==
  /\ Cardinality(open) < MaxOpen
  /\ open' = open \cup {n}
  /\ IF Len(n) = 2 /\ ~cat[n[1], n[2]].loaded /\ ~cat[n[1], n[2]].loading
     THEN loadCategory(n[1], n[2], cat) ELSE NoLoad

syncRelations(d, ls) == mirror' = IF d = NoDb THEN {} ELSE ls[d].tables

\* A new tree is collapsed, and nothing of it has been read. One database
\* alone is opened at once.
rebuildTree(dbs) ==
  /\ roots' = dbs
  /\ listed' = [d \in DBs |-> NoList] /\ sizes' = [d \in DBs |-> {}] /\ sized' = {}
  /\ LET ct == [k \in DOMAIN cat |-> Unread]
     IN IF Single(dbs) THEN open' = {<<dbs[1], "Tables">>} /\ loadCategory(dbs[1], "Tables", ct)
        ELSE open' = {} /\ cat' = ct /\ UNCHANGED <<asks, asked>>
  /\ refreshTree({selectedNode}, clearFilter(panel))

resetBrowse == trigger' = NoTrigger
openDatabase(dbs) == database' = IF Single(dbs) THEN dbs[1] ELSE NoDb

Lists == {Databases, SubSeq(Databases, 1, 1)}

connected(dbs) ==
  /\ ~live /\ live' = TRUE /\ UNCHANGED changes
  /\ rebuildTree(dbs) /\ openDatabase(dbs) /\ resetBrowse /\ mirror' = {}
  /\ UNCHANGED <<srv>>

disconnectActive ==
  /\ live /\ live' = FALSE /\ changes' = {}
  /\ rebuildTree(<<>>) /\ resetBrowse /\ database' = NoDb /\ mirror' = {}
  /\ UNCHANGED <<srv>>

-----------------------------------------------------------------------------
(* The replies. One of an earlier session of the profile is heard.          *)

Answered(a) == a \in asks /\ asks' = asks \ {a}
Heard(a) == live
Rest == UNCHANGED <<live, srv, asked, changes>>

Dropped(a) ==
  /\ ~Heard(a) /\ Answered(a)
  /\ UNCHANGED <<live, srv, asked, database, listed, mirror, roots, open, cat, sizes, sized,
                 changes, marks, rows, panel, trigger>>

\* The namespaces again: everything read of them is dropped.
databasesLoaded(a, dbs) ==
  /\ Heard(a) /\ a.kind = "databases" /\ UNCHANGED <<live, srv, changes>>
  /\ roots' = dbs
  /\ listed' = [d \in DBs |-> NoList] /\ sizes' = [d \in DBs |-> {}] /\ sized' = {}
  /\ LET ct == [k \in DOMAIN cat |-> Unread]
     IN IF Single(dbs)
        THEN /\ open' = {<<dbs[1], "Tables">>} /\ asked < MaxAsks /\ asked' = asked + 1
             /\ cat' = startLoading(dbs[1], ct)
             /\ asks' = (asks \ {a}) \cup {Ask(k, dbs[1]) : k \in {"relations", "sizes"}}
             /\ database' = dbs[1] /\ resetBrowse
        ELSE /\ open' = {} /\ cat' = ct /\ asks' = asks \ {a}
             /\ UNCHANGED <<asked, database, trigger>>
  /\ refreshTree({selectedNode}, clearFilter(panel))
  /\ syncRelations(database', listed')

attachStats(d, ct, sz) ==
  sized' = {n \in sized : n[1] # d} \cup {n \in Nodes(d, "Tables", ct) : n[3] \in sz[d]}

Filled(kids) == [loading |-> FALSE, loaded |-> TRUE, kids |-> kids]

\* Plausible bug: the views wait for a listing of their own.
applyRelationsTables(a) ==
  /\ listed' = [listed EXCEPT ![a.db] = [tables |-> a.tables, cached |-> TRUE]]
  /\ cat' = IF ~InTree(a.db) THEN cat ELSE [cat EXCEPT ![<<a.db, "Tables">>] = Filled(a.tables)]
  /\ attachStats(a.db, cat', sizes)

applyRelations(a) ==
  /\ listed' = [listed EXCEPT ![a.db] = [tables |-> a.tables, cached |-> TRUE]]
  /\ cat' = IF ~InTree(a.db) THEN cat
            ELSE [cat EXCEPT ![<<a.db, "Tables">>] = Filled(a.tables), ![<<a.db, "Views">>] = Filled({})]
  /\ attachStats(a.db, cat', sizes)

relationsLoaded(a) ==
  /\ Heard(a) /\ a.kind = "relations" /\ Answered(a) /\ Rest
  /\ applyRelations(a)
  /\ syncRelations(database, listed')
  /\ UNCHANGED <<roots, open>>
  /\ refreshTree(Nodes(a.db, "Tables", cat), panel)
  /\ UNCHANGED <<database, sizes, trigger>>

tableStatsLoaded(a) ==
  /\ Heard(a) /\ a.kind = "sizes" /\ Answered(a) /\ Rest
  /\ sizes' = [sizes EXCEPT ![a.db] = a.tables]
  /\ IF InTree(a.db) THEN attachStats(a.db, cat, sizes') ELSE UNCHANGED sized
  /\ UNCHANGED <<roots, open, cat>>
  /\ refreshTree({}, panel)
  /\ UNCHANGED <<database, listed, mirror, trigger>>

triggersLoaded(a) ==
  /\ Heard(a) /\ a.kind = "triggers" /\ Answered(a) /\ Rest
  /\ cat' = IF InTree(a.db) THEN [cat EXCEPT ![<<a.db, "Triggers">>] = Filled({"g"})] ELSE cat
  /\ UNCHANGED <<roots, open>>
  /\ refreshTree(Nodes(a.db, "Triggers", cat), panel)
  /\ UNCHANGED <<database, listed, mirror, sizes, sized, trigger>>

\* A failure keeps what the category had; an engine without such objects is
\* no failure, and has none.
categoryFailed(a, unsupported) ==
  LET cs == IF a.kind = "triggers" THEN {"Triggers"} ELSE Relational
  IN /\ Heard(a) /\ a.kind \in {"relations", "triggers"} /\ (unsupported => a.kind = "triggers") /\ Answered(a) /\ Rest
     /\ cat' = [k \in DOMAIN cat |->
                  IF k[1] # a.db \/ k[2] \notin cs \/ ~InTree(a.db) THEN cat[k]
                  ELSE IF unsupported THEN Filled({})
                  ELSE [cat[k] EXCEPT !.loading = FALSE]]
     /\ UNCHANGED <<roots, open>>
     /\ refreshTree({}, panel)
     /\ UNCHANGED <<database, listed, mirror, sizes, sized, trigger>>

\* A failed list of databases leaves the tree as it was. Failed sizes do as
\* well: they are as good as never answered.
Ignored(a) ==
  /\ Heard(a) /\ a.kind = "databases" /\ Answered(a)
  /\ Rest /\ UNCHANGED <<database, listed, mirror, roots, open, cat, sizes, sized, marks, rows, panel, trigger>>

\* A definition is for the trigger still open.
applyTriggerDDL(a) ==
  /\ Heard(a) /\ a.kind = "ddl" /\ Answered(a)
  /\ trigger' = IF trigger.req = a.n THEN [trigger EXCEPT !.ddl = <<a.db, "Triggers", "g">>] ELSE trigger
  /\ Rest /\ UNCHANGED <<database, listed, mirror, roots, open, cat, sizes, sized, marks, rows, panel>>

-----------------------------------------------------------------------------
(* The keys.                                                               *)

Keys == live /\ ~panel.filtering /\ selectedNode # Nothing
SameTree == UNCHANGED <<live, srv, database, listed, mirror, roots, sizes, sized, changes, trigger>>

\* Enter on a branch, here or out of a filter.
toggleNode(n, pn) ==
  /\ ~leaf(n) /\ SameTree
  /\ IF n \in open THEN open' = open \ {n} /\ NoLoad ELSE expandNode(n)
  /\ refreshTree({}, pn)

\* l opens a branch, or steps into an open one.
expandSelected ==
  /\ Keys /\ SameTree
  /\ LET n == selectedNode
     IN IF n \in open
        THEN /\ children(n) # {}
             /\ panel' = move(rows, panel, 1)
             /\ NoLoad /\ UNCHANGED <<open, rows, marks>>
        ELSE ~leaf(n) /\ expandNode(n) /\ refreshTree({}, panel)

\* h closes one, or steps out.
collapseSelected ==
  /\ Keys /\ SameTree
  /\ LET n == selectedNode
     IN IF n \in open
        THEN open' = open \ {n} /\ NoLoad /\ refreshTree({}, panel)
        ELSE /\ Len(n) > (IF Single(roots) THEN 2 ELSE 1)
             /\ panel' = selectNode(rows, panel, parentOf(n))
             /\ NoLoad /\ UNCHANGED <<open, rows, marks>>

\* R re-reads the level the cursor is on.
reloadNode ==
  /\ live /\ ~panel.filtering /\ SameTree
  /\ LET n == selectedNode
     IN IF Len(n) < 2
        THEN Send({"databases"}, NoDb) /\ UNCHANGED <<cat, open, rows, panel, marks>>
        ELSE /\ loadCategory(n[1], n[2], unload(n[1], n[2], cat))
             /\ UNCHANGED open /\ refreshTree({}, panel)

\* Enter on a relation opens it, in its own database.
openObject(n, pn) ==
  /\ leaf(n) /\ n[2] \in Relational
  /\ database' = n[1] /\ syncRelations(n[1], listed)
  /\ trigger' = NoTrigger /\ panel' = pn
  /\ NoLoad /\ UNCHANGED <<live, srv, listed, roots, open, sizes, sized, changes, marks, rows>>

openTrigger(n, pn) ==
  /\ leaf(n) /\ n[2] = "Triggers"
  /\ trigger' = [node |-> n, req |-> asked, ddl |-> Nothing] /\ panel' = pn
  /\ Send({"ddl"}, n[1])
  /\ UNCHANGED <<live, srv, database, listed, mirror, roots, open, cat, sizes, sized, changes, marks,
                 rows>>

activateSelection(pn) == LET n == selectedNode IN toggleNode(n, pn) \/ openObject(n, pn) \/ openTrigger(n, pn)
Enter == Keys /\ activateSelection(panel)

PanelOnly == UNCHANGED <<live, srv, asks, asked, database, listed, mirror, roots, open, cat, sizes, sized,
                         changes, marks, rows, trigger>>

\* The arrows and the wheel; while a filter is typed they say that its list
\* was walked.
Walk ==
  /\ \E delta \in {-1, 1} : panel' = move(rows, [panel EXCEPT !.navigated = panel.filtering \/ @], delta)
  /\ PanelOnly

startFilter ==
  /\ ~panel.filtering /\ rows # <<>>
  /\ panel' = [panel EXCEPT !.filtering = TRUE, !.navigated = FALSE]
  /\ PanelOnly

TypeFilter ==
  /\ panel.filtering
  /\ \E p \in (Patterns \cup {""}) \ {panel.filter} : panel' = setFilter(panel, p)
  /\ PanelOnly

FilterEsc ==
  /\ panel.filtering \/ panel.filter # ""
  /\ panel' = clearFilter(panel)
  /\ PanelOnly

\* enter confirms the pattern, and after a walk acts on the selection too.
FilterEnter ==
  /\ panel.filtering
  /\ LET p == [panel EXCEPT !.filtering = FALSE, !.navigated = FALSE]
     IN IF panel.navigated /\ selectedNode # Nothing THEN activateSelection(p)
        ELSE panel' = p /\ PanelOnly

\* A foreign-key jump leads to a relation; the tree follows inside the
\* browsed database, as far as it was read, and stays where it is otherwise.
selectObject(d, c, name) ==
  /\ UNCHANGED roots /\ open' = open \cup {<<d, c>>} \cup (IF Single(roots) THEN {} ELSE {<<d>>})
  /\ rows' = flatten(roots, open', cat)
  /\ marks' = markStagedSchema(roots, cat)
  /\ panel' = selectNode(rows', applyFilter(rows', panel), <<d, c, name>>)

jumpTo(d, name) ==
  /\ live /\ UNCHANGED changes
  /\ InTree(d) /\ d = database
  /\ \E c \in Relational : name \in cat[d, c].kids /\ selectObject(d, c, name)
  /\ NoLoad /\ UNCHANGED <<live, srv, database, listed, mirror, sizes, sized, trigger>>

\* The drop of the table under the cursor is staged, and unstaged.
stageSchema(d) ==
  /\ live
  /\ \/ d \in changes /\ changes' = changes \ {d}
     \/ selectedNode = <<d, "Tables", Tables[1]>> /\ d \notin changes /\ changes' = changes \cup {d}
  /\ UNCHANGED <<roots, open>> /\ NoLoad /\ refreshTree({}, panel)
  /\ UNCHANGED <<live, srv, database, listed, mirror, sizes, sized, trigger>>

\* Its commit re-reads a listing the tree has or waits for.
afterSchemaCommit(d) ==
  /\ live /\ d \in changes /\ changes' = changes \ {d}
  /\ srv' = [srv EXCEPT ![d] = @ \ {Tables[1]}]
  /\ IF InTree(d) /\ (listed[d].cached \/ cat[d, "Tables"].loading)
     THEN /\ asked < MaxAsks /\ asked' = asked + 1
          /\ asks' = asks \cup {[Ask(k, d) EXCEPT !.tables = srv'[d]] : k \in {"relations", "sizes"}}
          /\ cat' = startLoading(d, unload(d, "Tables", cat))
     ELSE NoLoad
  /\ UNCHANGED <<roots, open>> /\ refreshTree({}, panel)
  /\ UNCHANGED <<live, database, listed, mirror, sizes, sized, trigger>>

Reply ==
  \E a \in asks :
    \/ Dropped(a) \/ Ignored(a) \/ applyTriggerDDL(a)
    \/ \E dbs \in Lists : databasesLoaded(a, dbs)
    \/ relationsLoaded(a) \/ tableStatsLoaded(a) \/ triggersLoaded(a)
    \/ \E u \in BOOLEAN : categoryFailed(a, u)

TreeNext ==
  \/ \E dbs \in Lists : connected(dbs)
  \/ disconnectActive \/ Reply
  \/ expandSelected \/ collapseSelected \/ reloadNode \/ Enter
  \/ Walk \/ startFilter \/ TypeFilter \/ FilterEsc \/ FilterEnter
  \/ \E d \in DBs, name \in ToSet(Tables) : jumpTo(d, name)
  \/ \E d \in Droppable : stageSchema(d) \/ afterSchemaCommit(d)

TreeSpec == TreeInit /\ [][TreeNext]_treeVars

-----------------------------------------------------------------------------
(* The list is the tree as it is now, the cursor is on a row of it, marks   *)
(* and sizes are of its nodes, and the mirror is of the browsed database.   *)
ListIsTree ==
  /\ rows = flatten(roots, open, cat)
  /\ panel.cursor \in (IF items(rows, panel.filter) = <<>> THEN {0} ELSE DOMAIN items(rows, panel.filter))
  /\ \A d \in ToSet(roots) : \A n \in Nodes(d, "Tables", cat) :
       /\ n \in marks <=> d \in changes
       /\ n \in sized <=> n[3] \in sizes[d]
  /\ mirror = IF database = NoDb THEN {} ELSE listed[database].tables

(* A category that says it is loading waits for a request whose reply will  *)
(* be heard.                                                               *)
LoadingIsAsked ==
  \A d \in DBs, c \in ToSet(Cats) :
    cat[d, c].loading => \E a \in asks : a.db = d /\ a.kind = IF c = "Triggers" THEN "triggers" ELSE "relations"

(* Tables and views of a database are read, and say so, together; the       *)
(* definition in the main view is of the trigger that was opened.           *)
ReadTogether ==
  /\ \A d \in DBs : cat[d, "Tables"].loaded = cat[d, "Views"].loaded /\ cat[d, "Tables"].loading = cat[d, "Views"].loading
  /\ trigger.ddl \in {Nothing, trigger.node}

(* Whatever order its listings, sizes and staged marks come in, the panel   *)
(* shows the tree and the tree tells what is being read (refreshTree,       *)
(* applyRelations, attachStats, markStagedSchema, syncRelations).           *)
TreeTruth == ListIsTree /\ LoadingIsAsked /\ ReadTogether

(* A reply moves the cursor off its node only where it replaces that node   *)
(* or takes it away (selectNode).                                          *)
Replaced(n) == \E a \in asks \ asks' :
  \/ a.kind = "databases"
  \/ leaf(n) /\ a.db = n[1] /\ a.kind = (IF n[2] = "Triggers" THEN "triggers" ELSE "relations")
Listed(rs, pn) == LET it == items(rs, pn.filter) IN {rs[it[i]] : i \in DOMAIN it}
Followed ==
  LET n == selectedNode
  IN asks' # asks /\ asks' \subseteq asks /\ n # Nothing /\ ~Replaced(n)
       => nodeAt(rows', panel', panel'.cursor) = n \/ n \notin Listed(rows', panel')
CursorFollows == [][Followed]_treeVars
=============================================================================
