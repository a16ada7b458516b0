------------------------------ MODULE Changeset ------------------------------
(***************************************************************************)
(* The staged mutations of one table (internal/db/changeset.go) and the    *)
(* grid operations that stage them (internal/ui/edit.go, rowops.go): the   *)
(* ops slice, the index that finds an op by what it targets, the counter   *)
(* that tells inserts apart, and the statements a commit renders.          *)
(*                                                                         *)
(* The table has a primary key column "id", editable like any other, and   *)
(* one more column "v". A row is identified by the key it had when it was  *)
(* fetched, which is what makes the order of the statements matter.        *)
(***************************************************************************)
EXTENDS Integers, Sequences, FiniteSets, SequencesExt

CONSTANTS
  Keys,        \* values of the primary key
  Vals,        \* values of the other column
  Rows,        \* the table at the start: a function from some Keys to Vals
  Schemas,     \* schema changes the user may stage
  Unsupported, \* those among them the engine cannot render
  MaxOps,      \* bound on the changes staged at once
  MaxSteps     \* bound on the operations of a behaviour

ASSUME ChangesetAssumption ==
  /\ Rows \in [DOMAIN Rows -> Vals]
  /\ DOMAIN Rows \subseteq Keys
  /\ IsFiniteSet(DOMAIN Rows)
  /\ Unsupported \subseteq Schemas
  /\ MaxOps \in Nat
  /\ MaxSteps \in Nat

VARIABLES
  ops,    \* Changeset.ops
  index,  \* Changeset.index: from what a change targets to its position
  nextID, \* Changeset.nextID
  table,  \* the rows the database holds and the grid shows
  steps   \* operations so far

changesetVars == <<ops, index, nextID, table, steps>>

Columns == {"id", "v"}

\* f with k mapped to v.
With(f, k, v) == [x \in DOMAIN f \cup {k} |-> IF x = k THEN v ELSE f[x]]

-----------------------------------------------------------------------------
(* The changes.                                                            *)

CellChange(pk, col, old, new) ==
  [kind |-> "cell", pk |-> pk, col |-> col, old |-> old, new |-> new]
RowDelete(pk) == [kind |-> "del", pk |-> pk]
RowInsert(id, row) == [kind |-> "ins", id |-> id, row |-> row]
SchemaChange(s) == [kind |-> "schema", change |-> s]

\* Two changes with one key are the same pending mutation.
key(c) ==
  CASE c.kind = "cell"   -> <<"cell", c.pk, c.col>>
    [] c.kind = "del"    -> <<"del", c.pk>>
    [] c.kind = "ins"    -> <<"ins", c.id>>
    [] c.kind = "schema" -> <<"schema", c.change>>

CellsOf(c, pk) == c.kind = "cell" /\ c.pk = pk

-----------------------------------------------------------------------------
(* The changeset's operations, on its slice and index as one record.       *)

Set == [ops |-> ops, index |-> index]

stage(cs, c) ==
  IF key(c) \in DOMAIN cs.index
  THEN [ops |-> [cs.ops EXCEPT ![cs.index[key(c)]] = c], index |-> cs.index]
  ELSE [ops |-> Append(cs.ops, c), index |-> With(cs.index, key(c), Len(cs.ops) + 1)]

\* Plausible bugs: the index is not repaired, or keeps the dropped change.
RemoveAtStale(cs, i) ==
  [ops |-> RemoveAt(cs.ops, i),
   index |-> [k \in DOMAIN cs.index \ {key(cs.ops[i])} |-> cs.index[k]]]

\* Drops one change and repairs the index of those behind it.
removeAt(cs, i) ==
  LET rest == RemoveAt(cs.ops, i)
      moved == {key(rest[j]) : j \in i..Len(rest)}
  IN [ops |-> rest,
      index |-> [k \in DOMAIN cs.index \ {key(cs.ops[i])} |->
                   IF k \in moved THEN CHOOSE j \in i..Len(rest) : key(rest[j]) = k
                                  ELSE cs.index[k]]]

removeKey(cs, k) == IF k \in DOMAIN cs.index THEN removeAt(cs, cs.index[k]) ELSE cs

\* A replacement keeps the value the first edit found in the database.
Stage(cs, c) ==
  IF key(c) \in DOMAIN cs.index
  THEN stage(cs, [c EXCEPT !.old = cs.ops[cs.index[key(c)]].old])
  ELSE stage(cs, c)

\* Plausible bug: the edits of the row stay.
StageDeleteKeepsEdits(cs, pk) == stage(cs, RowDelete(pk))

dropIfEdit(cs, i, pk) == IF CellsOf(cs.ops[i], pk) THEN removeAt(cs, i) ELSE cs

\* The slice after n steps of the walk from its end that drops a row's edits.
dropEdits(cs, pk) ==
  LET walked[n \in 0..Len(cs.ops)] ==
        IF n = 0 THEN cs ELSE dropIfEdit(walked[n - 1], Len(cs.ops) - n + 1, pk)
  IN walked

StageDelete(cs, pk) ==
  IF <<"del", pk>> \in DOMAIN cs.index THEN cs
  ELSE stage(dropEdits(cs, pk)[Len(cs.ops)], RowDelete(pk))

DeleteStaged(cs, pk) == <<"del", pk>> \in DOMAIN cs.index

\* The staged change of one cell; the caller asks whether there is one.
Lookup(cs, pk, col) == cs.ops[cs.index[<<"cell", pk, col>>]]

-----------------------------------------------------------------------------
(* The statements of a commit.                                             *)

Update(pk, sets) == [do |-> "update", pk |-> pk, sets |-> sets]
Delete(pk) == [do |-> "delete", pk |-> pk]
Insert(row) == [do |-> "insert", row |-> row]
DDL(s) == [do |-> "ddl", change |-> s]

\* One UPDATE with a SET clause per edited column.
MultiUpdate(pk, cells) ==
  Update(pk, [col \in {c.col : c \in cells} |-> (CHOOSE c \in cells : c.col = col).new])

\* Plausible bug: every edit is an UPDATE of its own.
StatementsUnmerged(i) ==
  LET c == ops[i]
  IN CASE c.kind = "cell"   -> <<MultiUpdate(c.pk, {c})>>
       [] c.kind = "del"    -> <<Delete(c.pk)>>
       [] c.kind = "ins"    -> <<Insert(c.row)>>
       [] c.kind = "schema" -> <<DDL(c.change)>>

\* What the change at position i renders to: the edits of a row merge into
\* one UPDATE at the first of them, unless the row is staged for deletion.
StatementsAt(i) ==
  LET c == ops[i]
      ofRow == {d \in {ops[j] : j \in DOMAIN ops} : CellsOf(d, c.pk)}
      deleted == \E j \in DOMAIN ops : ops[j] = RowDelete(c.pk)
      first == \A j \in 1..(i - 1) : ~CellsOf(ops[j], c.pk)
  IN CASE c.kind = "cell" /\ deleted  -> <<MultiUpdate(c.pk, {c})>>
       [] c.kind = "cell" /\ ~deleted -> IF first THEN <<MultiUpdate(c.pk, ofRow)>> ELSE <<>>
       [] c.kind = "del"              -> <<Delete(c.pk)>>
       [] c.kind = "ins"              -> <<Insert(c.row)>>
       [] c.kind = "schema"           -> <<DDL(c.change)>>

\* In commit order, with what each change renders to: one statement or none.
Statements == [i \in DOMAIN ops |-> StatementsAt(i)]

\* One change the engine cannot render fails the whole call.
Renders == \A i \in DOMAIN ops : ops[i].kind = "schema" => ops[i].change \notin Unsupported

-----------------------------------------------------------------------------
(* The database: a statement fails on a duplicate key, and an UPDATE or    *)
(* DELETE that matches no row succeeds.                                    *)

Without(t, pk) == [k \in DOMAIN t \ {pk} |-> t[k]]
ColumnOr(sets, col, else) == IF col \in DOMAIN sets THEN sets[col] ELSE else

Execute(db, st) ==
  LET t == db.rows
      Fail == [ok |-> FALSE, rows |-> t]
      Rows_(r) == [ok |-> TRUE, rows |-> r]
  IN CASE ~db.ok \/ st.do = "ddl" -> db
       [] db.ok /\ st.do = "update" ->
            IF st.pk \notin DOMAIN t THEN db
            ELSE LET id == ColumnOr(st.sets, "id", st.pk)
                     rest == Without(t, st.pk)
                 IN IF id \in DOMAIN rest THEN Fail
                    ELSE Rows_(With(rest, id, ColumnOr(st.sets, "v", t[st.pk])))
       [] db.ok /\ st.do = "delete" -> Rows_(Without(t, st.pk))
       [] db.ok /\ st.do = "insert" ->
            IF st.row.id \in DOMAIN t THEN Fail ELSE Rows_(With(t, st.row.id, st.row.v))

\* ExecTx: all the statements in one transaction. The database after each.
Executed(stmts) ==
  LET after[i \in 0..Len(stmts)] ==
        IF i = 0 THEN [ok |-> TRUE, rows |-> table]
        ELSE IF stmts[i] = <<>> THEN after[i - 1]
        ELSE Execute(after[i - 1], stmts[i][1])
  IN after

ExecTx(stmts) == Executed(stmts)[Len(stmts)]

-----------------------------------------------------------------------------
(* The grid.                                                               *)

Value(pk, col) == IF col = "id" THEN pk ELSE table[pk]
\* What the cell shows: the staged value, if there is one.
Shown(pk, col) ==
  IF <<"cell", pk, col>> \in DOMAIN index THEN Lookup(Set, pk, col).new ELSE Value(pk, col)
ValuesOf(col) == IF col = "id" THEN Keys ELSE Vals

\* The cell edit the modal describes, resumed from a staged one.
EditOf(cs, pk, col, new) ==
  CellChange(pk, col,
             IF <<"cell", pk, col>> \in DOMAIN cs.index THEN Lookup(cs, pk, col).old
                                                       ELSE Value(pk, col),
             new)

\* Restoring the original value unstages instead of staging a no-op.
stageChange(cs, c) == IF c.new = c.old THEN removeKey(cs, key(c)) ELSE Stage(cs, c)

\* The same value staged in one row after another: the changeset after each.
stageValue(pks, col, new) ==
  LET staged[n \in 0..Len(pks)] ==
        IF n = 0 THEN Set
        ELSE stageChange(staged[n - 1], EditOf(staged[n - 1], pks[n], col, new))
  IN staged

-----------------------------------------------------------------------------
ChangesetInit ==
  /\ ops = <<>>
  /\ index = <<>>
  /\ nextID = 0
  /\ table = Rows
  /\ steps = 0

Stepped == steps < MaxSteps /\ steps' = steps + 1

ListBecomes(cs) ==
  /\ Len(cs.ops) <= MaxOps
  /\ ops' = cs.ops
  /\ index' = cs.index

\* e: the row must not be staged for deletion. With a selection up the same
\* value is staged in every selected row, the cursor row first, and the rows
\* staged for deletion drop out.
Edit(cursor, selected, col, new) ==
  LET rest == {pk \in selected \ {cursor} : ~DeleteStaged(Set, pk)}
  IN /\ Stepped
     /\ ~DeleteStaged(Set, cursor)
     /\ \E others \in [1..Cardinality(rest) -> rest] :
          /\ \A i, j \in DOMAIN others : i < j => others[i] < others[j]
          /\ LET pks == <<cursor>> \o others
             IN ListBecomes(stageValue(pks, col, new)[Len(pks)])
     /\ UNCHANGED <<nextID, table>>

\* d
DeleteRow(pk) ==
  /\ Stepped
  /\ ListBecomes(StageDelete(Set, pk))
  /\ UNCHANGED <<nextID, table>>

\* n and D
InsertRow(row) ==
  /\ Stepped
  /\ nextID' = nextID + 1
  /\ ListBecomes(stage(Set, RowInsert(nextID + 1, row)))
  /\ UNCHANGED table

\* u on a phantom row
UnstageInsert(id) ==
  /\ Stepped
  /\ <<"ins", id>> \in DOMAIN index
  /\ ListBecomes(removeKey(Set, <<"ins", id>>))
  /\ UNCHANGED <<nextID, table>>

\* u on a fetched row: its delete if there is one, else the cursor's cell.
UnstageAtCursor(pk, col) ==
  /\ Stepped
  /\ ListBecomes(IF DeleteStaged(Set, pk) THEN removeKey(Set, <<"del", pk>>)
                                      ELSE removeKey(Set, <<"cell", pk, col>>))
  /\ UNCHANGED <<nextID, table>>

\* S
StageSchema(s) ==
  /\ Stepped
  /\ ListBecomes(stage(Set, SchemaChange(s)))
  /\ UNCHANGED <<nextID, table>>

UnstageSchema(s) ==
  /\ Stepped
  /\ <<"schema", s>> \in DOMAIN index
  /\ ListBecomes(removeKey(Set, <<"schema", s>>))
  /\ UNCHANGED <<nextID, table>>

\* U, and R: the insert counter is not reset.
Clear ==
  /\ Stepped
  /\ ops # <<>>
  /\ ops' = <<>>
  /\ index' = <<>>
  /\ UNCHANGED <<nextID, table>>

\* c: an unrenderable change refuses the commit, a failing statement rolls
\* all of them back; either way the changeset is kept.
Commit ==
  /\ Stepped
  /\ ops # <<>>
  /\ Renders
  /\ LET db == ExecTx(Statements)
     IN IF db.ok THEN table' = db.rows /\ ops' = <<>> /\ index' = <<>>
                 ELSE UNCHANGED <<table, ops, index>>
  /\ UNCHANGED nextID

EditAny ==
  \E selected \in SUBSET DOMAIN table : \E cursor \in selected :
    \E col \in Columns : \E new \in ValuesOf(col) : Edit(cursor, selected, col, new)

ChangesetNext ==
  \/ EditAny
  \/ \E pk \in DOMAIN table : DeleteRow(pk)
  \/ \E id \in Keys, v \in Vals : InsertRow([id |-> id, v |-> v])
  \/ \E id \in 1..nextID : UnstageInsert(id)
  \/ \E pk \in DOMAIN table, col \in Columns : UnstageAtCursor(pk, col)
  \/ \E s \in Schemas : StageSchema(s) \/ UnstageSchema(s)
  \/ Clear
  \/ Commit

ChangesetSpec == ChangesetInit /\ [][ChangesetNext]_changesetVars

-----------------------------------------------------------------------------
(* Every variable keeps its type; in particular the index only ever points *)
(* into the slice, which Stage relies on when it replaces in place         *)
(* (changeset.go stage, removeAt).                                         *)
AllChanges(inserts) ==
  {CellChange(pk, "id", old, new) : pk, old, new \in Keys} \cup
  {CellChange(pk, "v", old, new) : pk \in Keys, old, new \in Vals} \cup
  {RowDelete(pk) : pk \in Keys} \cup
  {RowInsert(id, [id |-> k, v |-> v]) : id \in 1..inserts, k \in Keys, v \in Vals} \cup
  {SchemaChange(s) : s \in Schemas}

ChangesetTypeOK ==
  /\ nextID \in 0..MaxSteps
  /\ steps \in 0..MaxSteps
  /\ DOMAIN table \subseteq Keys
  /\ \A k \in DOMAIN table : table[k] \in Vals
  /\ ops \in Seq(AllChanges(nextID))
  /\ \A k \in DOMAIN index : index[k] \in DOMAIN ops

(* Every variable keeps its type, and through any sequence of staging,     *)
(* replacing and unstaging the index finds every change and nothing else,  *)
(* so an unstage removes the change it names and a second edit of a cell   *)
(* replaces the first                                                      *)
(* (changeset.go removeAt: "repairs the index").                           *)
IndexSound ==
  /\ ChangesetTypeOK
  /\ DOMAIN index = {key(ops[i]) : i \in DOMAIN ops}
  /\ \A i \in DOMAIN ops : index[key(ops[i])] = i

(* A staged edit has something to do and somewhere to do it. No row is     *)
(* both edited and staged for deletion, the situation Statements guards    *)
(* against but calls theoretical (changeset.go, "That is always true in    *)
(* practice"). No edit leaves its cell as the database has it: one back to *)
(* the original unstages, also in bulk, also after a commit moved the      *)
(* originals (edit.go stageChange, stageValue).                            *)
EditsStand ==
  \A i \in DOMAIN ops : ops[i].kind = "cell" =>
    /\ ~DeleteStaged(Set, ops[i].pk)
    /\ ops[i].new # ops[i].old
    /\ ops[i].old = Value(ops[i].pk, ops[i].col)

\* The rows the grid previews: the fetched ones with their staged edits,
\* without those staged for deletion, and one per staged insert.
PreviewRows ==
  {[id |-> Shown(pk, "id"), v |-> Shown(pk, "v")] :
     pk \in {k \in DOMAIN table : ~DeleteStaged(Set, k)}} \cup
  {ops[i].row : i \in {j \in DOMAIN ops : ops[j].kind = "ins"}}

(* A commit that succeeds leaves exactly the rows the grid previewed, also *)
(* when primary keys are among the edited values and one row is given the  *)
(* key another gave up: no statement reaches a row another one moved under *)
(* its key (changeset.go Statements).                                      *)
CommitMatchesPreview ==
  LET db == ExecTx(Statements)
  IN db.ok => PreviewRows = {[id |-> k, v |-> db.rows[k]] : k \in DOMAIN db.rows}
=============================================================================
