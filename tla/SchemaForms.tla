----------------------------- MODULE SchemaForms -----------------------------
(***************************************************************************)
(* How a schema change comes to be staged (internal/ui/schemaops.go): the   *)
(* menus, the confirmations, the column and index forms and the draft of a  *)
(* new table. A modal keeps what it was opened about - the table, the       *)
(* column, statements already rendered - and messages go on landing under   *)
(* it: another connection, the outcome of a commit, the metadata a menu     *)
(* waits for. One table is open, and one of its columns is under the        *)
(* cursor; what a change does to the server is in SchemaText.               *)
(***************************************************************************)
EXTENDS Integers, Sequences, FiniteSets, SequencesExt

CONSTANTS
  Conns,        \* connections
  Supported,    \* the operations the engine of each can do
  Frozen,       \* those that are read-only
  Typed,        \* what a user may leave in a column form
  TableColumns, \* columns the table may have, as the engine describes them
  MaxStaged,    \* bound on the staged changes
  MaxDraft,     \* bound on the columns of a draft
  MaxDials      \* bound on the connections that land

\* A column, as a form shows it and as a change defines it: "" is no value.
ColumnDefs ==
  [name : STRING, type : STRING, notnull : BOOLEAN, pk : BOOLEAN, default : STRING, value : {""} \cup STRING]

ASSUME SchemaFormsAssumption ==
  /\ Frozen \subseteq Conns /\ DOMAIN Supported = Conns
  /\ Typed \subseteq ColumnDefs /\ TableColumns \subseteq ColumnDefs
  /\ MaxStaged \in Nat /\ MaxDraft \in Nat /\ MaxDials \in Nat

VARIABLES
  live,   \* the connection of Model.driver
  dials,  \* connections that landed
  meta,   \* Model.meta: no relation is open, "cold", "loaded"
  after,  \* Model.meta.afterLoad: the menu waits for the metadata
  column, \* the column under the cursor
  modal,
  staged, \* the schema changes of Model.grid.changes; by is whose driver rendered them
  commit  \* a commit in flight

formsVars == <<live, dials, meta, after, column, modal, staged, commit>>

NoModal == [kind |-> "none"]
readOnly == live \in Frozen

-----------------------------------------------------------------------------
(* What the driver accepts.                                                *)

GoodType(t) == t \notin {"", "int; drop"}
GoodColumn(c) == c.name # "" /\ GoodType(c.type) /\ c.default # "keep"

Ops(c) ==
  IF c.op # "alter column" THEN {c.op}
  ELSE (IF c.name # c.old.name THEN {"rename column"} ELSE {})
       \cup (IF c.type # c.old.type \/ c.notnull # c.old.notnull \/ c.default # "keep" THEN {"alter column"} ELSE {})

Valid(c) ==
  CASE c.op = "create table" -> c.table # "" /\ c.cols # <<>> /\ (\A i \in DOMAIN c.cols : GoodColumn(c.cols[i]))
                                /\ \A i, j \in DOMAIN c.cols : c.cols[i].name = c.cols[j].name => i = j
    [] c.op = "add column" -> GoodColumn(c.col)
    [] c.op = "alter column" -> c.name # "" /\ (c.type # c.old.type => GoodType(c.type))
    [] c.op = "rename table" -> c.to # ""
    [] c.op = "create index" -> c.cols # {}
    [] OTHER -> TRUE

\* conn.SchemaSQL: rendered first, so that a read-only session can say what
\* it refused.
SchemaSQL(conn, c) ==
  CASE conn \in Frozen -> "read-only"
    [] Ops(c) = {} \/ (c.op = "rename table" /\ c.to = c.table) -> "no change"
    [] ~(Ops(c) \subseteq Supported[conn]) \/ ~Valid(c) -> "refused"
    [] OTHER -> "ok"

-----------------------------------------------------------------------------
(* Staging.                                                                *)

Key(c) == <<c.op, IF c.op \in {"alter column", "drop column"} THEN c.old.name
                  ELSE IF c.op = "add column" THEN c.col.name ELSE "">>

\* A second change of one kind and thing replaces the first.
stageRendered(c, conn) ==
  LET Others == {s \in staged : Key(s.c) # Key(c)}
  IN Cardinality(Others) < MaxStaged /\ staged' = Others \cup {[c |-> c, by |-> conn]}

\* What changes nothing and what a read-only session refuses is only logged.
schemaRefused(c) ==
  /\ modal' = IF SchemaSQL(live, c) = "refused" THEN [kind |-> "refused"] ELSE NoModal
  /\ UNCHANGED staged

stageSchema(c) == IF SchemaSQL(live, c) = "ok" THEN stageRendered(c, live) /\ modal' = NoModal ELSE schemaRefused(c)

\* A form that is refused stays, with the reason.
submitSchema(c) ==
  CASE SchemaSQL(live, c) = "ok" -> stageRendered(c, live) /\ modal' = NoModal
    [] SchemaSQL(live, c) \in {"read-only", "no change"} -> modal' = NoModal /\ UNCHANGED staged
    [] OTHER -> UNCHANGED <<staged, modal>>

\* What it asks about is what enter stages.
confirmSchema(c) ==
  IF SchemaSQL(live, c) = "ok" THEN modal' = [kind |-> "confirm", c |-> c, by |-> live] /\ UNCHANGED staged
  ELSE schemaRefused(c)

Under == UNCHANGED <<live, dials, meta, after, column, commit>>

Confirm == modal.kind = "confirm" /\ stageRendered(modal.c, modal.by) /\ modal' = NoModal /\ Under

\* esc. A column of a draft goes back to it; its name does not.
Escape ==
  /\ modal.kind # "none"
  /\ modal' = IF modal.kind = "draft column" THEN [kind |-> "draft", table |-> modal.table, cols |-> modal.cols] ELSE NoModal
  /\ UNCHANGED staged /\ Under

-----------------------------------------------------------------------------
(* Menus.                                                                  *)

\* An operation the engine lacks explains itself.
schemaEntry(ops, conn, Then) ==
  IF conn \notin Frozen /\ ops \subseteq Supported[conn] THEN Then
  ELSE modal' = [kind |-> "refused"] /\ UNCHANGED staged

alterOps(conn) == IF "alter column" \in Supported[conn] THEN {"alter column"} ELSE {"rename column"}

\* The metadata comes first.
openTableSchemaMenu ==
  /\ modal.kind = "none" /\ meta # "closed" /\ ~readOnly
  /\ IF meta = "loaded" THEN modal' = [kind |-> "table menu", col |-> column, on |-> live] /\ UNCHANGED after
     ELSE after' = TRUE /\ UNCHANGED modal
  /\ UNCHANGED <<live, dials, meta, column, staged, commit>>

openObjectSchemaMenu ==
  /\ modal.kind = "none" /\ ~readOnly
  /\ modal' = [kind |-> "object menu", on |-> live] /\ UNCHANGED staged /\ Under

openStagedSchema ==
  /\ modal.kind \in {"table menu", "object menu"} /\ staged # {}
  /\ modal' = [kind |-> "staged", of |-> staged] /\ UNCHANGED staged /\ Under

\* The list comes up again while any is left.
Unstage(s) ==
  /\ modal.kind = "staged" /\ s \in modal.of
  /\ staged' = {x \in staged : Key(x.c) # Key(s.c)}
  /\ modal' = IF staged' = {} THEN NoModal ELSE [kind |-> "staged", of |-> staged']
  /\ Under

openRenameRelation == modal' = [kind |-> "rename", table |-> "t"] /\ UNCHANGED staged
submitRename(to) == modal.kind = "rename" /\ stageSchema([op |-> "rename table", table |-> modal.table, to |-> to]) /\ Under

\* The index forms: any columns that were known when they opened.
openDropIndex == confirmSchema([op |-> "drop index"])
openCreateIndex == modal' = [kind |-> "index", known |-> {modal.col.name}] /\ UNCHANGED staged
submitIndex(cols) ==
  /\ modal.kind = "index" /\ cols # {} /\ cols \subseteq modal.known
  /\ submitSchema([op |-> "create index", cols |-> cols]) /\ Under

-----------------------------------------------------------------------------
(* Column forms.                                                           *)

HasValue(kind) == kind \in {"text", "expr"}

\* What a form shows at first.
columnFields(c, pk, alter) ==
  [name |-> c.name, type |-> c.type, notnull |-> c.notnull, pk |-> pk /\ c.pk,
   default |-> IF c.default = "keep" /\ ~alter THEN "none" ELSE c.default, value |-> c.value]

\* The value of a kind that has none is not shown, and not read.
columnFromForm(f) == [f EXCEPT !.value = IF HasValue(f.default) THEN @ ELSE ""]

\* A required field or a type that is none keeps the form.
FieldsGood(f) == f.name # "" /\ GoodType(f.type)

openAddColumn == modal' = [kind |-> "add"] /\ UNCHANGED staged
submitAdd(f) ==
  /\ modal.kind = "add" /\ FieldsGood(f) /\ f.default # "keep"
  /\ submitSchema([op |-> "add column", col |-> columnFromForm(f)]) /\ Under

\* As read when the menu opened. Where only a rename is possible the name is
\* all the form has.
openAlterColumn ==
  /\ modal' = [kind |-> "alter", old |-> modal.col, whole |-> live \notin Frozen /\ "alter column" \in Supported[live]]
  /\ UNCHANGED staged

alterOf(old, whole, f) ==
  LET def == columnFromForm(f)
  IN [op |-> "alter column", old |-> old, name |-> f.name, type |-> IF whole THEN def.type ELSE old.type,
      notnull |-> IF whole THEN def.notnull ELSE old.notnull, default |-> IF whole THEN def.default ELSE "keep",
      value |-> IF whole THEN def.value ELSE ""]

submitAlter(f) ==
  /\ modal.kind = "alter" /\ f.name # "" /\ (modal.whole => GoodType(f.type))
  /\ submitSchema(alterOf(modal.old, modal.whole, f)) /\ Under

-----------------------------------------------------------------------------
(* The draft of a table. It lives in its modals.                           *)

\* Plausible bug: the column's own name counts as taken.
checkDraftColumnAny(cols, col, skip) ==
  /\ \A i \in DOMAIN cols : cols[i].name # col.name
  /\ SchemaSQL(live, [op |-> "create table", table |-> "t", cols |-> <<col>>]) = "ok"

\* The other columns' names, and the column as the driver would take it.
checkDraftColumn(cols, col, skip) ==
  /\ \A i \in DOMAIN cols \ {skip} : cols[i].name # col.name
  /\ SchemaSQL(live, [op |-> "create table", table |-> "t", cols |-> <<col>>]) = "ok"

openTableDraft(table, cols) == modal' = [kind |-> "draft", table |-> table, cols |-> cols]

openCreateTable == modal' = [kind |-> "create"] /\ UNCHANGED staged
submitCreate(f) ==
  /\ modal.kind = "create" /\ FieldsGood(f) /\ checkDraftColumn(<<>>, columnFromForm(f), 0)
  /\ openTableDraft("u", <<columnFromForm(f)>>) /\ UNCHANGED staged /\ Under

\* 0 adds one.
openDraftColumn(i) ==
  /\ modal.kind = "draft"
  /\ modal' = [kind |-> "draft column", table |-> modal.table, cols |-> modal.cols, at |-> i]
  /\ UNCHANGED staged /\ Under

submitDraftColumn(f, remove) ==
  /\ modal.kind = "draft column" /\ FieldsGood(f)
  /\ \/ remove /\ modal.at > 0 /\ openTableDraft(modal.table, RemoveAt(modal.cols, modal.at))
     \/ LET c == columnFromForm(f)
        IN /\ ~remove /\ checkDraftColumn(modal.cols, c, modal.at)
           /\ IF modal.at > 0 THEN openTableDraft(modal.table, [modal.cols EXCEPT ![modal.at] = c])
              ELSE Len(modal.cols) < MaxDraft /\ openTableDraft(modal.table, Append(modal.cols, c))
  /\ UNCHANGED staged /\ Under

openDraftName == modal.kind = "draft" /\ modal' = [modal EXCEPT !.kind = "draft name"] /\ UNCHANGED staged /\ Under

\* No name leaves the one it has.
submitDraftName(v) ==
  /\ modal.kind = "draft name"
  /\ openTableDraft(IF v = "" THEN modal.table ELSE v, modal.cols) /\ UNCHANGED staged /\ Under

\* A draft that is refused is not lost.
stageDraft ==
  /\ modal.kind = "draft"
  /\ LET c == [op |-> "create table", table |-> modal.table, cols |-> modal.cols]
     IN IF SchemaSQL(live, c) = "ok" THEN stageRendered(c, live) /\ modal' = NoModal
        ELSE modal' = [modal EXCEPT !.kind = "draft refused"] /\ UNCHANGED staged
  /\ Under

backToDraft == modal.kind = "draft refused" /\ openTableDraft(modal.table, modal.cols) /\ UNCHANGED staged /\ Under

-----------------------------------------------------------------------------
(* Choosing from a menu. What it offers is of the connection it opened on.  *)

ChooseColumnOp ==
  /\ modal.kind = "table menu"
  /\ \/ schemaEntry({"add column"}, modal.on, openAddColumn)
     \/ schemaEntry(alterOps(modal.on), modal.on, openAlterColumn)
     \/ schemaEntry({"drop column"}, modal.on, confirmSchema([op |-> "drop column", old |-> modal.col]))
     \/ schemaEntry({"create index"}, modal.on, openCreateIndex)
     \/ schemaEntry({"drop index"}, modal.on, openDropIndex)
  /\ Under

ChooseTableOp ==
  /\ modal.kind = "object menu"
  /\ \/ schemaEntry({"create table"}, modal.on, openCreateTable)
     \/ schemaEntry({"rename table"}, modal.on, openRenameRelation)
     \/ \E op \in {"truncate table", "drop table"} : schemaEntry({op}, modal.on, confirmSchema([op |-> op]))
  /\ Under

-----------------------------------------------------------------------------
(* What lands meanwhile.                                                   *)

\* A connection that was being dialled. Modals stay.
Connected(conn) ==
  /\ dials < MaxDials /\ dials' = dials + 1
  /\ live' = conn /\ staged' = {} /\ meta' = "closed" /\ after' = FALSE
  /\ UNCHANGED <<column, modal, commit>>

openTable == meta = "closed" /\ modal.kind = "none" /\ meta' = "cold" /\ UNCHANGED <<live, dials, after, column, modal, staged, commit>>

\* The menu that waited opens over whatever is there.
metaLoaded ==
  /\ meta = "cold" /\ meta' = "loaded" /\ column' \in TableColumns
  /\ after' = FALSE
  /\ modal' = IF after /\ ~readOnly THEN [kind |-> "table menu", col |-> column', on |-> live] ELSE modal
  /\ UNCHANGED <<live, dials, staged, commit>>

startCommit ==
  /\ staged # {} /\ modal.kind = "none" /\ ~readOnly /\ ~commit /\ commit' = TRUE
  /\ UNCHANGED <<live, dials, meta, after, column, modal, staged>>

\* One that went through takes all that is staged by then with it, and the
\* metadata is read again.
changesCommitted(ok) ==
  /\ commit /\ commit' = FALSE
  /\ staged' = IF ok THEN {} ELSE staged
  /\ meta' = IF ok /\ meta # "closed" THEN "cold" ELSE meta
  /\ UNCHANGED <<live, dials, after, column, modal>>

FormsInit ==
  /\ live \in Conns /\ dials = 0 /\ meta = "closed" /\ after = FALSE /\ column \in TableColumns
  /\ modal = NoModal /\ staged = {} /\ commit = FALSE

FormsNext ==
  \/ openTableSchemaMenu \/ openObjectSchemaMenu \/ openStagedSchema \/ ChooseColumnOp \/ ChooseTableOp
  \/ \E s \in staged : Unstage(s)
  \/ Confirm \/ Escape
  \/ \E to \in {"", "t", "u"} : submitRename(to)
  \/ \E cols \in SUBSET {c.name : c \in TableColumns} : submitIndex(cols)
  \/ \E f \in Typed : submitAdd(f) \/ submitAlter(f) \/ submitCreate(f) \/ \E r \in BOOLEAN : submitDraftColumn(f, r)
  \/ modal.kind = "draft" /\ \E i \in 0 .. Len(modal.cols) : openDraftColumn(i)
  \/ openDraftName \/ \E v \in {"", "v"} : submitDraftName(v)
  \/ stageDraft \/ backToDraft
  \/ \E c \in Conns : Connected(c)
  \/ openTable \/ metaLoaded \/ startCommit
  \/ \E ok \in BOOLEAN : changesCommitted(ok)

FormsSpec == FormsInit /\ [][FormsNext]_formsVars

-----------------------------------------------------------------------------
(* By whichever of the seven ways, nothing is staged that the driver that   *)
(* rendered it would not run, and no thing has two changes of a kind.       *)
AsAccepted ==
  /\ \A s \in staged : SchemaSQL(s.by, s.c) = "ok"
  /\ \A s, t \in staged : Key(s.c) = Key(t.c) => s = t

(* A column form submitted as it opened changes nothing, and where only the *)
(* name may change nothing else does.                                       *)
OnlyWhatWasEdited ==
  /\ modal.kind = "alter" =>
       LET Prefill == columnFields([modal.old EXCEPT !.default = "keep", !.value = ""], FALSE, TRUE)
       IN /\ Ops(alterOf(modal.old, modal.whole, Prefill)) = {}
          /\ ~modal.whole => \A f \in Typed : Ops(alterOf(modal.old, FALSE, f)) \subseteq {"rename column"}
  /\ modal.kind = "draft column" /\ modal.at > 0 /\ ~readOnly =>
       LET c == columnFromForm(columnFields(modal.cols[modal.at], TRUE, FALSE))
       IN c = modal.cols[modal.at] /\ ("create table" \in Supported[live] => checkDraftColumn(modal.cols, c, modal.at))

(* A draft's columns have names of their own, and no value under a default  *)
(* that has none.                                                           *)
DraftSound ==
  modal.kind \in {"draft", "draft column", "draft name", "draft refused"} =>
    /\ \A i, j \in DOMAIN modal.cols : modal.cols[i].name = modal.cols[j].name => i = j
    /\ \A i \in DOMAIN modal.cols : modal.cols[i].value # "" => HasValue(modal.cols[i].default)

(* What is staged is what was asked for and could be run (stageRendered,    *)
(* submitSchema, columnFromForm, checkDraftColumn).                         *)
FormsTruth == AsAccepted /\ OnlyWhatWasEdited /\ DraftSound
=============================================================================
