------------------------------ MODULE FormsProofs ------------------------------
(***************************************************************************)
(* The forms. What is staged through those of the schema is what was asked *)
(* for and could be run, and the form of a connection saves what it shows, *)
(* whatever the engines are and can do, the tables have, users type and    *)
(* lands while a form is open.                                             *)
(***************************************************************************)
EXTENDS ConnForm, SchemaForms, SequenceTheorems, NaturalsInduction, WellFoundedInduction, TLAPS

(* The forms of the schema.                                                *)

DraftModals == {"draft", "draft column", "draft name", "draft refused"}

\* A column that a draft took: the driver would, and it has no value under a
\* default that has none.
Drafted(c) == c \in ColumnDefs /\ GoodColumn(c) /\ (c.value # "" => HasValue(c.default))

Draft(cols) ==
  /\ cols \in Seq(ColumnDefs)
  /\ \A i \in DOMAIN cols : Drafted(cols[i])
  /\ \A i, j \in DOMAIN cols : cols[i].name = cols[j].name => i = j

\* What a modal keeps of what it was opened about.
Keeps(m) ==
  /\ m.kind = "table menu" => m.col \in TableColumns
  /\ m.kind = "alter" => m.old \in TableColumns
  /\ m.kind = "confirm" => SchemaSQL(m.by, m.c) = "ok"
  /\ m.kind \in DraftModals => Draft(m.cols)
  /\ m.kind = "draft" => m = [kind |-> "draft", table |-> m.table, cols |-> m.cols]
  /\ m.kind = "draft column" => m.at \in 0 .. Len(m.cols)

\* The inductive invariant of the schema forms.
SchemaFormsInv == AsAccepted /\ column \in TableColumns /\ Keeps(modal)

-----------------------------------------------------------------------------
(* Modals.                                                                 *)

\* A modal that was opened about nothing keeps nothing, and a menu and the
\* form of a column keep it.
LEMMA Opened ==
  ASSUME NEW m
  PROVE  /\ m.kind \notin DraftModals \cup {"table menu", "alter", "confirm"} => Keeps(m)
         /\ m.kind = "table menu" /\ m.col \in TableColumns => Keeps(m)
         /\ m.kind = "alter" /\ m.old \in TableColumns => Keeps(m)
BY DEF Keeps, DraftModals

-----------------------------------------------------------------------------
(* Staging.                                                                *)

\* A change that its driver takes is staged in the place of its like.
LEMMA Stages ==
  ASSUME AsAccepted, NEW c, NEW conn, SchemaSQL(conn, c) = "ok", stageRendered(c, conn)
  PROVE  AsAccepted'
<1> DEFINE Others == {s \in staged : Key(s.c) # Key(c)}
           new == [c |-> c, by |-> conn]
<1>1. staged' = Others \cup {new}
  BY DEF stageRendered
<1>2. \A s \in staged' : SchemaSQL(s.by, s.c) = "ok"
  BY <1>1 DEF AsAccepted
<1>3. \A s, t \in staged' : Key(s.c) = Key(t.c) => s = t
  BY <1>1 DEF AsAccepted
<1> QED
  BY <1>2, <1>3 DEF AsAccepted

\* What is refused stages nothing.
LEMMA Refuses ==
  ASSUME NEW c, schemaRefused(c)
  PROVE  staged' = staged /\ Keeps(modal')
BY DEF schemaRefused, Keeps, NoModal, DraftModals

\* A dialog is opened about a change that its driver takes.
LEMMA Asks ==
  ASSUME NEW c, confirmSchema(c)
  PROVE  staged' = staged /\ Keeps(modal')
<1>1. CASE SchemaSQL(live, c) = "ok"
  <2>1. modal' = [kind |-> "confirm", c |-> c, by |-> live] /\ staged' = staged
    BY <1>1 DEF confirmSchema
  <2>2. modal'.kind = "confirm" /\ modal'.by = live /\ modal'.c = c
    BY <2>1
  <2> QED
    BY <1>1, <2>1, <2>2 DEF Keeps, DraftModals
<1>2. CASE SchemaSQL(live, c) # "ok"
  BY <1>2, Refuses DEF confirmSchema
<1> QED
  BY <1>1, <1>2

\* A form stages what its driver takes and closes, or stages nothing.
LEMMA Submits ==
  ASSUME AsAccepted, Keeps(modal), NEW c, submitSchema(c) \/ stageSchema(c)
  PROVE  AsAccepted' /\ Keeps(modal')
<1>1. CASE SchemaSQL(live, c) = "ok"
  <2>1. stageRendered(c, live) /\ modal' = NoModal
    BY <1>1 DEF submitSchema, stageSchema
  <2> QED
    BY <1>1, <2>1, Stages DEF Keeps, NoModal, DraftModals
<1>2. CASE SchemaSQL(live, c) # "ok"
  <2>1. staged' = staged /\ Keeps(modal')
    <3>1. CASE submitSchema(c)
      <4>1. staged' = staged /\ (modal' = NoModal \/ modal' = modal)
        BY <1>2, <3>1 DEF submitSchema
      <4>2. Keeps(NoModal)
        BY DEF Keeps, NoModal, DraftModals
      <4> QED
        BY <4>1, <4>2
    <3>2. CASE stageSchema(c)
      BY <1>2, <3>2, Refuses DEF stageSchema
    <3> QED
      BY <3>1, <3>2
  <2> QED
    BY <2>1 DEF AsAccepted
<1> QED
  BY <1>1, <1>2

-----------------------------------------------------------------------------
(* Drafts.                                                                 *)

\* What is left when the column at k is removed.
LEMMA RemoveAtIs ==
  ASSUME NEW S, NEW l \in Seq(S), NEW k \in 1 .. Len(l)
  PROVE  /\ RemoveAt(l, k) \in Seq(S) /\ Len(RemoveAt(l, k)) = Len(l) - 1
         /\ \A i \in 1 .. Len(l) - 1 : RemoveAt(l, k)[i] = IF i < k THEN l[i] ELSE l[i + 1]
<1> DEFINE a == SubSeq(l, 1, k - 1)
           b == SubSeq(l, k + 1, Len(l))
<1>1. a \in Seq(S) /\ Len(a) = k - 1 /\ \A i \in 1 .. k - 1 : a[i] = l[i]
  BY SubSeqProperties
<1>2. b \in Seq(S) /\ Len(b) = Len(l) - k /\ \A i \in 1 .. Len(l) - k : b[i] = l[k + i]
  BY SubSeqProperties
<1>3. RemoveAt(l, k) = a \o b
  BY DEF RemoveAt
<1> HIDE DEF a, b
<1>4. /\ a \o b \in Seq(S) /\ Len(a \o b) = Len(l) - 1
      /\ \A i \in 1 .. Len(l) - 1 : (a \o b)[i] = IF i <= k - 1 THEN a[i] ELSE b[i - (k - 1)]
  BY <1>1, <1>2, ConcatProperties
<1>5. ASSUME NEW i \in 1 .. Len(l) - 1 PROVE (a \o b)[i] = IF i < k THEN l[i] ELSE l[i + 1]
  <2>1. CASE i < k
    BY <2>1, <1>1, <1>4
  <2>2. CASE ~(i < k)
    <3>1. i - (k - 1) \in 1 .. Len(l) - k /\ k + (i - (k - 1)) = i + 1 /\ ~(i <= k - 1)
      BY <2>2
    <3>2. b[i - (k - 1)] = l[k + (i - (k - 1))]
      BY <3>1, <1>2
    <3> QED
      BY <3>1, <3>2, <2>2, <1>4
  <2> QED
    BY <2>1, <2>2
<1> QED
  BY <1>3, <1>4, <1>5

\* A draft's columns are a sequence.
LEMMA DraftShape ==
  ASSUME NEW cols, Draft(cols)
  PROVE  cols \in Seq(ColumnDefs) /\ DOMAIN cols = 1 .. Len(cols) /\ Len(cols) \in Nat
BY DEF Draft

\* A place in a sequence, or none.
LEMMA Places ==
  ASSUME NEW n \in Nat, NEW k \in 0 .. n
  PROVE  (k > 0 => k \in 1 .. n) /\ (~(k > 0) => k = 0 /\ k \notin 1 .. n)
OBVIOUS

\* A draft may start with no column.
LEMMA NoColumns == <<>> \in Seq(ColumnDefs) /\ 0 \in 0 .. Len(<<>>)
<1>1. <<>> \in Seq(ColumnDefs) /\ Len(<<>>) = 0
  BY EmptySeq
<1>2. 0 \in 0 .. 0
  OBVIOUS
<1> QED
  BY <1>1, <1>2

\* A column without its value is a column.
LEMMA NoValue ==
  ASSUME NEW f \in ColumnDefs
  PROVE  [f EXCEPT !.value = ""] \in ColumnDefs /\ [f EXCEPT !.value = ""].value = ""
BY DEF ColumnDefs

\* A filled-in form is a column.
LEMMA FromForm ==
  ASSUME NEW f \in Typed
  PROVE  /\ columnFromForm(f) \in ColumnDefs
         /\ columnFromForm(f).value # "" => HasValue(columnFromForm(f).default)
<1>1. f \in ColumnDefs
  BY SchemaFormsAssumption
<1>2. CASE HasValue(f.default)
  BY <1>1, <1>2 DEF columnFromForm, ColumnDefs
<1>3. CASE ~HasValue(f.default)
  <2>1. columnFromForm(f) = [f EXCEPT !.value = ""]
    BY <1>3 DEF columnFromForm
  <2> QED
    BY <1>1, <2>1, NoValue
<1> QED
  BY <1>2, <1>3

\* A column that is checked is one that a draft takes, and its name is no
\* other's.
LEMMA Checked ==
  ASSUME NEW f \in Typed, NEW cols \in Seq(ColumnDefs), NEW skip \in 0 .. Len(cols),
         checkDraftColumn(cols, columnFromForm(f), skip)
  PROVE  /\ Drafted(columnFromForm(f))
         /\ \A i \in DOMAIN cols \ {skip} : cols[i].name # columnFromForm(f).name
<1> DEFINE c == columnFromForm(f)
           t == [op |-> "create table", table |-> "t", cols |-> <<c>>]
<1>1. SchemaSQL(live, t) = "ok"
  BY DEF checkDraftColumn
<1>2. Valid(t)
  BY <1>1 DEF SchemaSQL
<1>3. \A i \in DOMAIN t.cols : GoodColumn(t.cols[i])
  BY <1>2 DEF Valid
<1>4. GoodColumn(c)
  BY <1>3
<1> QED
  BY <1>4, FromForm DEF checkDraftColumn, Drafted

\* A draft gives up any column, and takes one that was checked in the place
\* of another.
LEMMA Edits ==
  ASSUME NEW cols, Draft(cols), NEW c, Drafted(c), NEW k \in 1 .. Len(cols)
  PROVE  /\ Draft(RemoveAt(cols, k))
         /\ (\A i \in DOMAIN cols \ {k} : cols[i].name # c.name) => Draft([cols EXCEPT ![k] = c])
<1>1. cols \in Seq(ColumnDefs) /\ c \in ColumnDefs
  BY DEF Draft, Drafted
<1>2. Draft(RemoveAt(cols, k))
  <2> DEFINE r == RemoveAt(cols, k)
  <2>1. /\ r \in Seq(ColumnDefs) /\ Len(r) = Len(cols) - 1
        /\ \A i \in 1 .. Len(cols) - 1 : r[i] = IF i < k THEN cols[i] ELSE cols[i + 1]
    BY <1>1, RemoveAtIs
  <2> HIDE DEF r
  <2> DEFINE from == [i \in DOMAIN r |-> IF i < k THEN i ELSE i + 1]
  <2>2. \A i \in DOMAIN r : from[i] \in DOMAIN cols /\ r[i] = cols[from[i]]
    BY <1>1, <2>1
  <2>3. \A i, j \in DOMAIN r : from[i] = from[j] => i = j
    BY <1>1, <2>1
  <2> HIDE DEF from
  <2> QED
    BY <2>1, <2>2, <2>3 DEF Draft, r
<1>3. ASSUME \A i \in DOMAIN cols \ {k} : cols[i].name # c.name PROVE Draft([cols EXCEPT ![k] = c])
  <2> DEFINE r == [cols EXCEPT ![k] = c]
  <2>1. /\ r \in Seq(ColumnDefs) /\ DOMAIN r = DOMAIN cols
        /\ \A i \in DOMAIN r : r[i] = IF i = k THEN c ELSE cols[i]
    BY <1>1
  <2> HIDE DEF r
  <2> QED
    BY <1>3, <2>1 DEF Draft, r
<1> QED
  BY <1>2, <1>3

\* A draft takes a column with a name of its own as the last.
LEMMA Adds ==
  ASSUME NEW cols, Draft(cols), NEW c, Drafted(c), \A i \in DOMAIN cols : cols[i].name # c.name
  PROVE  Draft(Append(cols, c))
<1> DEFINE r == Append(cols, c)
<1>1. cols \in Seq(ColumnDefs) /\ c \in ColumnDefs
  BY DEF Draft, Drafted
<1>2. /\ r \in Seq(ColumnDefs) /\ Len(r) = Len(cols) + 1
      /\ \A i \in DOMAIN r : (i \in DOMAIN cols /\ r[i] = cols[i]) \/ (i = Len(r) /\ r[i] = c)
  BY <1>1
<1> HIDE DEF r
<1> QED
  BY <1>2 DEF Draft, r

-----------------------------------------------------------------------------
(* The steps.                                                              *)

\* Confirming, going back and the list of what is staged.
LEMMA DialogsKeep ==
  ASSUME SchemaFormsInv, Confirm \/ Escape \/ openStagedSchema \/ (\E s \in staged : Unstage(s))
  PROVE  SchemaFormsInv'
<1> USE DEF SchemaFormsInv
<1>1. Keeps(NoModal)
  BY DEF Keeps, NoModal, DraftModals
<1>2. column' = column
  BY DEF Confirm, Escape, openStagedSchema, Unstage, Under
<1>3. CASE Confirm
  <2>1. SchemaSQL(modal.by, modal.c) = "ok" /\ stageRendered(modal.c, modal.by) /\ modal' = NoModal
    BY <1>3 DEF Confirm, Keeps
  <2> QED
    BY <2>1, <1>1, <1>2, Stages
<1>4. CASE Escape
  <2>1. staged' = staged
    BY <1>4 DEF Escape
  <2>2. CASE modal.kind = "draft column"
    <3>1. modal' = [kind |-> "draft", table |-> modal.table, cols |-> modal.cols] /\ Draft(modal.cols)
      BY <1>4, <2>2 DEF Escape, Keeps, DraftModals
    <3> QED
      BY <1>2, <2>1, <3>1 DEF Keeps, AsAccepted, DraftModals
  <2>3. CASE modal.kind # "draft column"
    BY <1>1, <1>2, <1>4, <2>1, <2>3 DEF Escape, AsAccepted
  <2> QED
    BY <2>2, <2>3
<1>5. CASE openStagedSchema
  BY <1>2, <1>5 DEF openStagedSchema, Keeps, AsAccepted, DraftModals
<1>6. ASSUME NEW s \in staged, Unstage(s) PROVE SchemaFormsInv'
  <2>1. staged' \subseteq staged
    BY <1>6 DEF Unstage
  <2>2. modal' = NoModal \/ modal' = [kind |-> "staged", of |-> staged']
    BY <1>6 DEF Unstage
  <2>3. modal'.kind \in {"none", "staged"}
    BY <2>2 DEF NoModal
  <2>4. Keeps(modal')
    BY <2>3, Opened DEF DraftModals
  <2> QED
    BY <1>2, <2>1, <2>4 DEF AsAccepted
<1> QED
  BY <1>3, <1>4, <1>5, <1>6

\* The menus, and what they open.
LEMMA MenusKeep ==
  ASSUME SchemaFormsInv,
         openTableSchemaMenu \/ openObjectSchemaMenu \/ ChooseColumnOp \/ ChooseTableOp \/ metaLoaded
  PROVE  SchemaFormsInv'
<1> USE DEF SchemaFormsInv
<1>1. CASE openTableSchemaMenu
  <2>1. column' = column /\ staged' = staged
    BY <1>1 DEF openTableSchemaMenu
  <2>2. modal' = modal \/ modal' = [kind |-> "table menu", col |-> column, on |-> live]
    BY <1>1 DEF openTableSchemaMenu
  <2>3. Keeps(modal')
    <3>1. CASE modal' = [kind |-> "table menu", col |-> column, on |-> live]
      <4>1. modal'.kind = "table menu" /\ modal'.col \in TableColumns
        BY <3>1
      <4> QED
        BY <4>1, Opened
    <3> QED
      BY <2>2, <3>1
  <2> QED
    BY <2>1, <2>3 DEF AsAccepted
<1>2. CASE openObjectSchemaMenu
  BY <1>2 DEF openObjectSchemaMenu, Under, Keeps, AsAccepted, DraftModals
<1>3. CASE ChooseColumnOp
  <2>1. column' = column
    BY <1>3 DEF ChooseColumnOp, Under
  <2>2. staged' = staged /\ Keeps(modal')
    <3>1. modal.col \in TableColumns
      BY <1>3 DEF ChooseColumnOp, Keeps
    <3>2. ASSUME openAddColumn \/ openAlterColumn \/ openCreateIndex PROVE staged' = staged /\ Keeps(modal')
      <4>1. staged' = staged
        BY <3>2 DEF openAddColumn, openAlterColumn, openCreateIndex
      <4>2. CASE openAddColumn \/ openCreateIndex
        <5>1. modal'.kind \in {"add", "index"}
          BY <4>2 DEF openAddColumn, openCreateIndex
        <5> QED
          BY <4>1, <5>1, Opened DEF DraftModals
      <4>3. CASE openAlterColumn
        <5>1. modal'.kind = "alter" /\ modal'.old \in TableColumns
          BY <3>1, <4>3 DEF openAlterColumn
        <5> QED
          BY <4>1, <5>1, Opened
      <4> QED
        BY <3>2, <4>2, <4>3
    <3>3. ASSUME modal' = [kind |-> "refused"] PROVE Keeps(modal')
      BY <3>3 DEF Keeps, DraftModals
    <3>4. \/ openAddColumn \/ openAlterColumn \/ openCreateIndex
          \/ confirmSchema([op |-> "drop column", old |-> modal.col]) \/ confirmSchema([op |-> "drop index"])
          \/ modal' = [kind |-> "refused"] /\ staged' = staged
      BY <1>3 DEF ChooseColumnOp, schemaEntry, openDropIndex
    <3> QED
      BY <3>2, <3>3, <3>4, Asks
  <2> QED
    BY <2>1, <2>2 DEF AsAccepted
<1>4. CASE ChooseTableOp
  <2>1. column' = column
    BY <1>4 DEF ChooseTableOp, Under
  <2>2. staged' = staged /\ Keeps(modal')
    <3>1. ASSUME openCreateTable \/ openRenameRelation PROVE staged' = staged /\ Keeps(modal')
      <4>1. staged' = staged /\ modal'.kind \in {"create", "rename"}
        BY <3>1 DEF openCreateTable, openRenameRelation
      <4> QED
        BY <4>1, Opened DEF DraftModals
    <3>2. ASSUME modal' = [kind |-> "refused"] PROVE Keeps(modal')
      BY <3>2 DEF Keeps, DraftModals
    <3>3. \/ openCreateTable \/ openRenameRelation
          \/ \E op \in {"truncate table", "drop table"} : confirmSchema([op |-> op])
          \/ modal' = [kind |-> "refused"] /\ staged' = staged
      BY <1>4 DEF ChooseTableOp, schemaEntry
    <3> QED
      BY <3>1, <3>2, <3>3, Asks
  <2> QED
    BY <2>1, <2>2 DEF AsAccepted
<1>5. CASE metaLoaded
  <2>1. column' \in TableColumns /\ staged' = staged
    BY <1>5 DEF metaLoaded
  <2>2. modal' = modal \/ modal' = [kind |-> "table menu", col |-> column', on |-> live]
    BY <1>5 DEF metaLoaded
  <2>3. CASE modal' = [kind |-> "table menu", col |-> column', on |-> live]
    <3>1. modal'.kind = "table menu" /\ modal'.col \in TableColumns
      BY <2>1, <2>3
    <3>2. Keeps(modal')
      BY <3>1, Opened
    <3> QED
      BY <2>1, <3>2 DEF AsAccepted
  <2> QED
    BY <2>1, <2>2, <2>3 DEF AsAccepted
<1> QED
  BY <1>1, <1>2, <1>3, <1>4, <1>5

\* The forms of tables, columns and indexes that exist.
LEMMA FormsKeep ==
  ASSUME SchemaFormsInv,
         \/ \E to \in {"", "t", "u"} : submitRename(to)
         \/ \E cols \in SUBSET {c.name : c \in TableColumns} : submitIndex(cols)
         \/ \E f \in Typed : submitAdd(f) \/ submitAlter(f)
  PROVE  SchemaFormsInv'
<1>1. column' = column
  BY DEF submitRename, submitIndex, submitAdd, submitAlter, Under
<1>2. PICK c : submitSchema(c) \/ stageSchema(c)
  BY DEF submitRename, submitIndex, submitAdd, submitAlter
<1> QED
  BY <1>1, <1>2, Submits DEF SchemaFormsInv

\* The draft of a table.
LEMMA DraftsKeep ==
  ASSUME SchemaFormsInv,
         \/ \E f \in Typed : submitCreate(f) \/ \E r \in BOOLEAN : submitDraftColumn(f, r)
         \/ modal.kind = "draft" /\ \E i \in 0 .. Len(modal.cols) : openDraftColumn(i)
         \/ openDraftName \/ (\E v \in {"", "v"} : submitDraftName(v))
         \/ stageDraft \/ backToDraft
  PROVE  SchemaFormsInv'
<1> USE DEF SchemaFormsInv
<1>1. column' = column
  BY DEF submitCreate, submitDraftColumn, openDraftColumn, openDraftName, submitDraftName, stageDraft,
         backToDraft, Under
<1>2. ASSUME NEW table, NEW cols, Draft(cols), openTableDraft(table, cols), staged' = staged
      PROVE  SchemaFormsInv'
  BY <1>1, <1>2 DEF openTableDraft, Keeps, AsAccepted, DraftModals
<1>3. modal.kind \in DraftModals => Draft(modal.cols)
  BY DEF Keeps
<1>4. ASSUME NEW f \in Typed, submitCreate(f) PROVE SchemaFormsInv'
  <2>1. checkDraftColumn(<<>>, columnFromForm(f), 0) /\ staged' = staged
    BY <1>4 DEF submitCreate
  <2>2. Drafted(columnFromForm(f))
    BY <2>1, NoColumns, Checked
  <2>3. Draft(<<columnFromForm(f)>>)
    <3> DEFINE c == columnFromForm(f)
    <3> HIDE DEF c
    <3>1. c \in ColumnDefs /\ Drafted(c)
      BY <2>2 DEF Drafted, c
    <3>2. <<c>> \in Seq(ColumnDefs) /\ \A i \in DOMAIN <<c>> : i = 1 /\ <<c>>[i] = c
      BY ONLY <3>1
    <3>3. Draft(<<c>>)
      BY <3>1, <3>2 DEF Draft
    <3> QED
      BY <3>3 DEF c
  <2> QED
    BY <1>2, <1>4, <2>1, <2>3 DEF submitCreate
<1>5. ASSUME NEW f \in Typed, NEW r \in BOOLEAN, submitDraftColumn(f, r) PROVE SchemaFormsInv'
  <2> DEFINE c == columnFromForm(f)
             cols == modal.cols
             k == modal.at
  <2>1. modal.kind = "draft column" /\ staged' = staged
    BY <1>5 DEF submitDraftColumn
  <2>2. Draft(cols) /\ k \in 0 .. Len(cols)
    BY <1>3, <2>1 DEF Keeps, DraftModals
  <2>6. cols \in Seq(ColumnDefs) /\ DOMAIN cols = 1 .. Len(cols) /\ Len(cols) \in Nat
    BY <2>2, DraftShape
  <2> HIDE DEF cols, k
  <2>3. CASE k > 0 /\ openTableDraft(modal.table, RemoveAt(cols, k))
    <3>1. k \in 1 .. Len(cols) /\ k \in DOMAIN cols
      BY <2>2, <2>3, <2>6, Places, Zenon
    <3>2. Drafted(cols[k])
      BY <2>2, <3>1 DEF Draft
    <3>3. Draft(RemoveAt(cols, k))
      BY <2>2, <3>1, <3>2, Edits
    <3> QED
      BY <1>2, <2>1, <2>3, <3>3
  <2>4. CASE checkDraftColumn(cols, c, k) /\ k > 0 /\ openTableDraft(modal.table, [cols EXCEPT ![k] = c])
    <3>1. Drafted(c) /\ \A i \in DOMAIN cols \ {k} : cols[i].name # c.name
      BY <2>2, <2>4, <2>6, Checked
    <3>2. Draft([cols EXCEPT ![k] = c])
      <4> HIDE DEF c
      <4>1. k \in 1 .. Len(cols)
        BY <2>2, <2>4, <2>6, Places, Zenon
      <4> QED
        BY <2>2, <3>1, <4>1, Edits
    <3> QED
      BY <1>2, <2>1, <2>4, <3>2
  <2>5. CASE checkDraftColumn(cols, c, k) /\ ~(k > 0) /\ openTableDraft(modal.table, Append(cols, c))
    <3>1. Drafted(c) /\ \A i \in DOMAIN cols \ {k} : cols[i].name # c.name
      BY <2>2, <2>5, <2>6, Checked
    <3>2. Draft(Append(cols, c))
      <4> HIDE DEF c
      <4>1. k = 0 /\ k \notin DOMAIN cols
        BY <2>2, <2>5, <2>6, Places, Zenon
      <4> QED
        BY <2>2, <3>1, <4>1, Adds
    <3> QED
      BY <1>2, <2>1, <2>5, <3>2
  <2> QED
    BY <1>5, <2>3, <2>4, <2>5 DEF submitDraftColumn, cols, k
<1>6. ASSUME NEW i \in 0 .. Len(modal.cols), openDraftColumn(i) PROVE SchemaFormsInv'
  <2>1. /\ modal' = [kind |-> "draft column", table |-> modal.table, cols |-> modal.cols, at |-> i]
        /\ staged' = staged /\ Draft(modal.cols)
    BY <1>3, <1>6 DEF openDraftColumn, DraftModals
  <2> QED
    BY <1>1, <2>1 DEF Keeps, AsAccepted, DraftModals
<1>7. ASSUME NEW kind \in {"draft name", "draft refused"}, modal.kind = "draft",
             modal' = [modal EXCEPT !.kind = kind], staged' = staged
      PROVE  SchemaFormsInv'
  <2>1. modal = [kind |-> "draft", table |-> modal.table, cols |-> modal.cols]
    BY <1>7 DEF Keeps
  <2>2. modal'.kind = kind /\ modal'.cols = modal.cols
    BY <1>7, <2>1
  <2>3. Keeps(modal')
    BY <1>3, <1>7, <2>2 DEF Keeps, DraftModals
  <2> QED
    BY <1>1, <1>7, <2>3 DEF AsAccepted
<1>8. CASE openDraftName
  BY <1>7, <1>8 DEF openDraftName
<1>9. ASSUME NEW v, submitDraftName(v) PROVE SchemaFormsInv'
  BY <1>2, <1>3, <1>9 DEF submitDraftName, DraftModals
<1>10. CASE stageDraft
  <2> DEFINE c == [op |-> "create table", table |-> modal.table, cols |-> modal.cols]
  <2>1. CASE SchemaSQL(live, c) = "ok"
    <3>1. stageRendered(c, live) /\ modal' = NoModal
      BY <1>10, <2>1 DEF stageDraft
    <3>2. AsAccepted'
      BY <2>1, <3>1, Stages
    <3> QED
      BY <1>1, <3>1, <3>2 DEF Keeps, NoModal, DraftModals
  <2>2. CASE SchemaSQL(live, c) # "ok"
    BY <1>7, <1>10, <2>2 DEF stageDraft
  <2> QED
    BY <2>1, <2>2
<1>11. CASE backToDraft
  BY <1>2, <1>3, <1>11 DEF backToDraft, DraftModals
<1> QED
  BY <1>4, <1>5, <1>6, <1>8, <1>9, <1>10, <1>11

\* What lands under a form leaves it as it is.
LEMMA LandingsKeep ==
  ASSUME SchemaFormsInv,
         \/ \E c \in Conns : Connected(c)
         \/ openTable \/ startCommit \/ (\E ok \in BOOLEAN : changesCommitted(ok))
  PROVE  SchemaFormsInv'
<1>1. UNCHANGED <<column, modal>> /\ staged' \in {staged, {}}
  BY DEF Connected, openTable, startCommit, changesCommitted
<1> QED
  BY <1>1 DEF SchemaFormsInv, AsAccepted

\* Nothing is staged and no modal is open at first.
LEMMA SchemaFormsInitInv == FormsInit => SchemaFormsInv
BY DEF FormsInit, SchemaFormsInv, AsAccepted, Keeps, NoModal, DraftModals

\* Every step keeps the invariant.
LEMMA SchemaFormsStep == SchemaFormsInv /\ [FormsNext]_formsVars => SchemaFormsInv'
<1> SUFFICES ASSUME SchemaFormsInv, [FormsNext]_formsVars PROVE SchemaFormsInv'
  OBVIOUS
<1>1. CASE UNCHANGED formsVars
  BY <1>1 DEF formsVars, SchemaFormsInv, AsAccepted
<1>2. CASE FormsNext
  BY <1>2, DialogsKeep, MenusKeep, FormsKeep, DraftsKeep, LandingsKeep DEF FormsNext
<1> QED
  BY <1>1, <1>2

-----------------------------------------------------------------------------
(* The property.                                                           *)

\* A form submitted as it opened leaves a column as it was.
LEMMA OpenedIsSame ==
  ASSUME NEW old \in TableColumns, NEW whole
  PROVE  LET shown == columnFields([old EXCEPT !.default = "keep", !.value = ""], FALSE, TRUE)
         IN /\ Ops(alterOf(old, whole, shown)) = {}
            /\ \A f \in Typed : Ops(alterOf(old, FALSE, f)) \subseteq {"rename column"}
<1> DEFINE shown == columnFields([old EXCEPT !.default = "keep", !.value = ""], FALSE, TRUE)
<1>1. old \in ColumnDefs
  BY SchemaFormsAssumption
<1>2. shown = [name |-> old.name, type |-> old.type, notnull |-> old.notnull, pk |-> FALSE,
               default |-> "keep", value |-> ""]
  BY <1>1 DEF columnFields, ColumnDefs
<1> HIDE DEF shown
<1>3. columnFromForm(shown) = shown
  <2>1. ~HasValue(shown.default)
    BY <1>2 DEF HasValue
  <2>2. columnFromForm(shown) = [shown EXCEPT !.value = ""]
    BY <2>1 DEF columnFromForm
  <2> QED
    BY <1>2, <2>2
<1>4. Ops(alterOf(old, whole, shown)) = {}
  <2> DEFINE a == alterOf(old, whole, shown)
  <2>1. /\ a.op = "alter column" /\ a.old = old /\ a.name = old.name /\ a.type = old.type
        /\ a.notnull = old.notnull /\ a.default = "keep"
    <3>1. /\ a.op = "alter column" /\ a.old = old /\ a.name = shown.name
          /\ a.type = (IF whole THEN shown.type ELSE old.type)
          /\ a.notnull = (IF whole THEN shown.notnull ELSE old.notnull)
          /\ a.default = (IF whole THEN shown.default ELSE "keep")
      BY <1>3 DEF alterOf
    <3>2. /\ shown.name = old.name /\ shown.type = old.type
          /\ shown.notnull = old.notnull /\ shown.default = "keep"
      BY <1>2
    <3> HIDE DEF a
    <3> QED
      BY <3>1, <3>2
  <2> HIDE DEF a
  <2>2. Ops(a) = {}
    BY <2>1 DEF Ops
  <2> QED
    BY <2>2 DEF a
<1>5. ASSUME NEW f \in Typed PROVE Ops(alterOf(old, FALSE, f)) \subseteq {"rename column"}
  BY DEF Ops, alterOf
<1> QED
  BY <1>4, <1>5 DEF shown

\* A draft's column submitted as it opened is the same, and is taken again.
LEMMA RetypedIsSame ==
  ASSUME NEW cols, Draft(cols), NEW k \in 1 .. Len(cols)
  PROVE  LET c == columnFromForm(columnFields(cols[k], TRUE, FALSE))
         IN c = cols[k] /\ (~readOnly /\ "create table" \in Supported[live] => checkDraftColumn(cols, c, k))
<1> DEFINE col == cols[k]
           c == columnFromForm(columnFields(col, TRUE, FALSE))
           t == [op |-> "create table", table |-> "t", cols |-> <<col>>]
<1>1. cols \in Seq(ColumnDefs) /\ Drafted(col) /\ col \in ColumnDefs /\ col.default # "keep"
  <2>1. cols \in Seq(ColumnDefs) /\ \A i \in DOMAIN cols : Drafted(cols[i])
    BY DEF Draft
  <2>2. k \in DOMAIN cols
    BY <2>1
  <2>3. Drafted(col)
    BY <2>1, <2>2
  <2> QED
    BY <2>1, <2>3 DEF Drafted, GoodColumn
<1>2. col = [name |-> col.name, type |-> col.type, notnull |-> col.notnull, pk |-> col.pk,
             default |-> col.default, value |-> col.value] /\ col.pk \in BOOLEAN
  BY <1>1 DEF ColumnDefs
<1>3. col.value = IF HasValue(col.default) THEN col.value ELSE ""
  BY <1>1 DEF Drafted
<1> HIDE DEF col
<1>4. columnFields(col, TRUE, FALSE) = col
  BY <1>1, <1>2 DEF columnFields
<1>5. c = col
  BY <1>2, <1>3, <1>4 DEF columnFromForm
<1>6. ASSUME ~readOnly, "create table" \in Supported[live] PROVE checkDraftColumn(cols, col, k)
  <2>1. \A i \in DOMAIN cols \ {k} : cols[i].name # col.name
    BY <1>1 DEF Draft, col
  <2>2. Valid(t)
    <3>1. t.op = "create table" /\ t.table = "t" /\ t.cols = <<col>>
      OBVIOUS
    <3>2. t.cols # <<>> /\ \A i \in DOMAIN t.cols : i = 1 /\ t.cols[i] = col
      BY <3>1
    <3>3. GoodColumn(col)
      BY <1>1 DEF Drafted
    <3> HIDE DEF t
    <3> QED
      BY <3>1, <3>2, <3>3 DEF Valid
  <2>3. Ops(t) = {"create table"}
    BY DEF Ops
  <2>4. SchemaSQL(live, t) = "ok"
    BY <1>6, <2>2, <2>3 DEF SchemaSQL, readOnly
  <2> QED
    BY <2>1, <2>4 DEF checkDraftColumn
<1> QED
  BY <1>5, <1>6 DEF col

\* The property follows from the invariant.
LEMMA SchemaFormsInvTruth == SchemaFormsInv => FormsTruth
<1> SUFFICES ASSUME SchemaFormsInv PROVE FormsTruth
  OBVIOUS
<1>1. AsAccepted
  BY DEF SchemaFormsInv
<1>2. DraftSound
  BY DEF SchemaFormsInv, Keeps, DraftModals, Draft, Drafted, DraftSound
<1>3. OnlyWhatWasEdited
  <2>1. modal.kind = "alter" => modal.old \in TableColumns
    BY DEF SchemaFormsInv, Keeps
  <2>2. modal.kind = "draft column" => Draft(modal.cols) /\ modal.at \in 0 .. Len(modal.cols)
    BY DEF SchemaFormsInv, Keeps, DraftModals
  <2>3. modal.kind = "draft column" /\ modal.at > 0 => modal.at \in 1 .. Len(modal.cols)
    <3> SUFFICES ASSUME modal.kind = "draft column", modal.at > 0 PROVE modal.at \in 1 .. Len(modal.cols)
      OBVIOUS
    <3>1. Len(modal.cols) \in Nat
      BY <2>2, DraftShape
    <3> QED
      BY <2>2, <3>1, Places, Zenon
  <2> QED
    BY <2>1, <2>2, <2>3, OpenedIsSame, RetypedIsSame DEF OnlyWhatWasEdited
<1> QED
  BY <1>1, <1>2, <1>3 DEF FormsTruth

\* The inductive invariant of the schema forms, for any connections,
\* columns and forms.
THEOREM SchemaFormsInvariant == FormsSpec => []SchemaFormsInv
<1> QED
  BY SchemaFormsInitInv, SchemaFormsStep, PTL DEF FormsSpec

\* By whichever form, nothing is staged that the driver that rendered it
\* would not run; a form submitted as it opened changes nothing; a draft's
\* columns have names of their own.
THEOREM FormsAreTrue == FormsSpec => []FormsTruth
<1> QED
  BY SchemaFormsInvariant, SchemaFormsInvTruth, PTL

-----------------------------------------------------------------------------
(* Numbers.                                                                *)

(* A set of naturals that is not empty has a least element.                *)
LEMMA LeastNumber ==
  ASSUME NEW T \in SUBSET Nat, NEW n \in T
  PROVE  \E m \in T : \A k \in T : m <= k
<1>1. IsWellFoundedOn(OpToRel(<, Nat), Nat)
  BY NatLessThanWellFounded
<1>2. PICK m \in T : \A k \in T : ~(<<k, m>> \in OpToRel(<, Nat))
  BY <1>1, WFMin
<1>3. \A k \in T : ~(k < m)
  BY <1>2 DEF OpToRel
<1> QED
  BY <1>3

(* Induction, over the set of the numbers a fact holds of.                 *)
LEMMA SetInduction ==
  ASSUME NEW S, 0 \in S, \A n \in Nat : n \in S => n + 1 \in S
  PROVE  Nat \subseteq S
<1> DEFINE T == Nat \ S
<1>1. ASSUME NEW n \in T PROVE FALSE
  <2>1. PICK m \in T : \A k \in T : m <= k
    BY <1>1, LeastNumber
  <2>2. m # 0 /\ m - 1 \in Nat /\ m - 1 \notin T
    BY <2>1
  <2> QED
    BY <2>2
<1> QED
  BY <1>1

-----------------------------------------------------------------------------
(* The fields.                                                             *)

(* The two lists of fields, place by place.                                *)
LEMMA FieldLists ==
  ASSUME NEW e
  PROVE  /\ Len(Fields(e)) = IF e \in FileBased THEN 5 ELSE 13
         /\ DOMAIN Fields(e) = 1..Len(Fields(e))
         /\ Fields(e) \in Seq(ToSet(Fields(e)))
         /\ Fields(e)[1] = "name" /\ Fields(e)[2] = "color" /\ Fields(e)[3] = "color_hex"
         /\ e \in FileBased => Fields(e)[4] = "file" /\ Fields(e)[5] = "options"
         /\ e \notin FileBased =>
              /\ Fields(e)[4] = "host" /\ Fields(e)[5] = "port" /\ Fields(e)[6] = "password"
              /\ Fields(e)[7] = "ssh" /\ Fields(e)[8] = "ssh_host" /\ Fields(e)[9] = "ssh_port"
              /\ Fields(e)[10] = "ssh_auth" /\ Fields(e)[11] = "ssh_key"
              /\ Fields(e)[12] = "ssh_secret" /\ Fields(e)[13] = "options"
<1>1. CASE e \in FileBased
  BY <1>1 DEF Fields, FileFields, ToSet
<1>2. CASE e \notin FileBased
  BY <1>2 DEF Fields, ServerFields, ToSet
<1> QED
  BY <1>1, <1>2

(* The fields of the two kinds of engine, as sets.                         *)
LEMMA FieldSets ==
  /\ \A e \in FileBased : ToSet(Fields(e)) = {"name", "color", "color_hex", "file", "options"}
  /\ \A e : e \notin FileBased =>
       ToSet(Fields(e)) = {"name", "color", "color_hex", "host", "port", "password", "ssh", "ssh_host",
                           "ssh_port", "ssh_auth", "ssh_key", "ssh_secret", "options"}
  /\ AllFields = {"name", "color", "color_hex", "file", "host", "port", "password", "ssh", "ssh_host",
                  "ssh_port", "ssh_auth", "ssh_key", "ssh_secret", "options"}
  /\ \A e : ToSet(Fields(e)) \subseteq AllFields
<1>1. ToSet(FileFields) = {"name", "color", "color_hex", "file", "options"}
  BY DEF FileFields, ToSet
<1>2. ToSet(ServerFields) = {"name", "color", "color_hex", "host", "port", "password", "ssh", "ssh_host",
                             "ssh_port", "ssh_auth", "ssh_key", "ssh_secret", "options"}
  <2>1. DOMAIN ServerFields = 1..13
    BY DEF ServerFields
  <2>2. ToSet(ServerFields) = {ServerFields[i] : i \in 1..13}
    BY <2>1 DEF ToSet
  <2>3. 1..13 = {1, 2, 3, 4, 5, 6, 7, 8, 9, 10, 11, 12, 13}
    OBVIOUS
  <2> QED
    BY <2>2, <2>3 DEF ServerFields
<1> QED
  BY <1>1, <1>2 DEF Fields, AllFields

(* The fields shown are a function of how many are looked at.              *)
LEMMA VisibleFacts ==
  ASSUME NEW e, NEW v
  PROVE  /\ visible(e, v)[0] = <<>>
         /\ \A k \in 1..Len(Fields(e)) :
              visible(e, v)[k] =
                IF isVisible(e, v, Fields(e)[k]) THEN Append(visible(e, v)[k - 1], Fields(e)[k])
                ELSE visible(e, v)[k - 1]
<1> DEFINE Do(x, n) == IF isVisible(e, v, Fields(e)[n]) THEN Append(x, Fields(e)[n]) ELSE x
           Step(f, n) == IF n = 0 THEN <<>> ELSE Do(f[n - 1], n)
           S == {k \in Nat : \E f : f = [n \in 0..k |-> Step(f, n)]}
<1>1. 0 \in S
  <2> DEFINE f == [n \in 0..0 |-> <<>>]
  <2>1. \A n \in 0..0 : Step(f, n) = <<>>
    OBVIOUS
  <2>2. f = [n \in 0..0 |-> Step(f, n)]
    BY <2>1
  <2> QED
    BY <2>2
<1>2. ASSUME NEW k \in Nat, k \in S PROVE k + 1 \in S
  <2>1. PICK f : f = [n \in 0..k |-> Step(f, n)]
    BY <1>2
  <2> HIDE DEF Do
  <2> DEFINE g == [n \in 0..(k + 1) |-> IF n <= k THEN f[n] ELSE Do(f[k], k + 1)]
  <2>2. ASSUME NEW n \in 0..(k + 1) PROVE g[n] = Step(g, n)
    <3>1. CASE n = 0
      BY <3>1, <2>1
    <3>2. CASE n \in 1..k
      <4>1. g[n] = f[n] /\ g[n - 1] = f[n - 1] /\ n # 0 /\ n \in 0..k
        BY <3>2
      <4>2. f[n] = Step(f, n)
        BY <4>1, <2>1
      <4> QED
        BY <4>1, <4>2
    <3>3. CASE n = k + 1
      <4>1. g[n - 1] = f[k] /\ n # 0 /\ ~(n <= k)
        BY <3>3
      <4> QED
        BY <4>1, <3>3
    <3> QED
      BY <3>1, <3>2, <3>3
  <2> HIDE DEF Step
  <2>3. g = [n \in 0..(k + 1) |-> Step(g, n)]
    BY <2>2
  <2> HIDE DEF g
  <2>4. \E h : h = [n \in 0..(k + 1) |-> Step(h, n)]
    BY <2>3
  <2> QED
    BY <2>4
<1>3. Nat \subseteq S
  <2> HIDE DEF S
  <2> QED
    BY <1>1, <1>2, SetInduction
<1> DEFINE N == Len(Fields(e))
           w == visible(e, v)
<1>4. N \in Nat
  BY FieldLists
<1>5. \E f : f = [n \in 0..N |-> Step(f, n)]
  BY <1>3, <1>4
<1>6. w = CHOOSE f : f = [n \in 0..N |-> Step(f, n)]
  BY DEF visible
<1>7. w = [n \in 0..N |-> Step(w, n)]
  <2> HIDE DEF Step, w, N
  <2> QED
    BY <1>5, <1>6
<1> HIDE DEF w
<1>8. \A n \in 0..N : w[n] = Step(w, n)
  <2> HIDE DEF Step
  <2> QED
    BY <1>7
<1>9. w[0] = <<>>
  BY <1>4, <1>8
<1>10. \A n \in 1..N : w[n] = Do(w[n - 1], n)
  BY <1>4, <1>8
<1> QED
  BY <1>9, <1>10 DEF w

(* Each field shown is one of the list and has the place the fields before *)
(* it leave to it.                                                         *)
LEMMA VisiblePlaces ==
  ASSUME NEW e, NEW v, NEW m \in 0..Len(Fields(e))
  PROVE  /\ visible(e, v)[m] \in Seq(ToSet(Fields(e)))
         /\ \A i \in DOMAIN visible(e, v)[m] :
              \E p \in 1..m : /\ isVisible(e, v, Fields(e)[p])
                              /\ visible(e, v)[m][i] = Fields(e)[p]
                              /\ Len(visible(e, v)[p]) = i
<1> DEFINE N == Len(Fields(e))
           F == Fields(e)
           w == visible(e, v)
           Good(n) ==
             /\ w[n] \in Seq(ToSet(F))
             /\ \A i \in DOMAIN w[n] :
                  \E p \in 1..n : isVisible(e, v, F[p]) /\ w[n][i] = F[p] /\ Len(w[p]) = i
           S == {n \in Nat : n <= N => Good(n)}
<1>0. N \in Nat /\ \A n \in 1..N : F[n] \in ToSet(F)
  BY FieldLists DEF ToSet
<1>1. /\ w[0] = <<>>
      /\ \A n \in 1..N : w[n] = IF isVisible(e, v, F[n]) THEN Append(w[n - 1], F[n]) ELSE w[n - 1]
  BY VisibleFacts
<1> HIDE DEF w, F, N
<1>2. 0 \in S
  <2>1. w[0] = <<>> /\ DOMAIN w[0] = {} /\ Len(w[0]) = 0 /\ w[0] \in Seq(ToSet(F))
    BY <1>1
  <2>3. Good(0)
    BY <2>1
  <2> QED
    BY <2>3
<1>3. ASSUME NEW n \in Nat, n \in S PROVE n + 1 \in S
  <2> SUFFICES ASSUME n + 1 <= N PROVE Good(n + 1)
    OBVIOUS
  <2>1. Good(n) /\ n + 1 \in 1..N /\ (n + 1) - 1 = n
    BY <1>0, <1>3
  <2>3. CASE ~isVisible(e, v, F[n + 1])
    <3>1. w[n + 1] = w[n]
      BY <1>1, <2>1, <2>3
    <3>2. \A p \in 1..n : p \in 1..(n + 1)
      OBVIOUS
    <3> QED
      BY <2>1, <3>1, <3>2
  <2>4. CASE isVisible(e, v, F[n + 1])
    <3> DEFINE x == w[n]
               y == w[n + 1]
               f == F[n + 1]
    <3>1. y = Append(x, f) /\ f \in ToSet(F) /\ x \in Seq(ToSet(F))
      BY <1>0, <1>1, <2>1, <2>4
    <3>2. /\ y \in Seq(ToSet(F))
          /\ Len(y) = Len(x) + 1 /\ Len(x) \in Nat
          /\ DOMAIN x = 1..Len(x) /\ DOMAIN y = 1..(Len(x) + 1)
          /\ y[Len(x) + 1] = f
          /\ \A i \in 1..Len(x) : y[i] = x[i]
      <4> HIDE DEF x, y, f
      <4> QED
        BY <3>1
    <3>3. ASSUME NEW i \in DOMAIN y
          PROVE  \E p \in 1..(n + 1) : isVisible(e, v, F[p]) /\ y[i] = F[p] /\ Len(w[p]) = i
      <4>1. CASE i = Len(x) + 1
        <5>1. n + 1 \in 1..(n + 1)
          OBVIOUS
        <5> QED
          BY <4>1, <5>1, <3>2, <2>4
      <4>2. CASE i \in DOMAIN x
        <5>1. PICK p \in 1..n : isVisible(e, v, F[p]) /\ x[i] = F[p] /\ Len(w[p]) = i
          BY <4>2, <2>1
        <5>2. p \in 1..(n + 1) /\ y[i] = x[i]
          BY <4>2, <3>2
        <5> QED
          BY <5>1, <5>2
      <4> QED
        BY <4>1, <4>2, <3>2
    <3> QED
      BY <3>2, <3>3
  <2> QED
    BY <2>3, <2>4
<1>4. m \in S
  <2>1. m \in Nat
    BY <1>0 DEF N
  <2> HIDE DEF S
  <2> QED
    BY <1>2, <1>3, <2>1, SetInduction
<1>5. Good(m)
  BY <1>0, <1>4 DEF N
<1> QED
  BY <1>5 DEF w, F

(* Two contents that show the same first fields show them at one place.    *)
LEMMA VisibleAgree ==
  ASSUME NEW e, NEW v, NEW u, NEW m \in 0..Len(Fields(e)),
         \A j \in 1..m : isVisible(e, v, Fields(e)[j]) <=> isVisible(e, u, Fields(e)[j])
  PROVE  visible(e, v)[m] = visible(e, u)[m]
<1> DEFINE N == Len(Fields(e))
           F == Fields(e)
           x == visible(e, v)
           y == visible(e, u)
           S == {n \in Nat : n <= m => x[n] = y[n]}
<1>0. N \in Nat /\ m \in Nat /\ m <= N
  BY FieldLists
<1>1. /\ x[0] = <<>>
      /\ \A n \in 1..N : x[n] = IF isVisible(e, v, F[n]) THEN Append(x[n - 1], F[n]) ELSE x[n - 1]
  BY VisibleFacts
<1>2. /\ y[0] = <<>>
      /\ \A n \in 1..N : y[n] = IF isVisible(e, u, F[n]) THEN Append(y[n - 1], F[n]) ELSE y[n - 1]
  BY VisibleFacts
<1>3. \A j \in 1..m : isVisible(e, v, F[j]) <=> isVisible(e, u, F[j])
  OBVIOUS
<1> HIDE DEF x, y, F, N
<1>4. 0 \in S
  BY <1>1, <1>2
<1>5. ASSUME NEW n \in Nat, n \in S PROVE n + 1 \in S
  <2> SUFFICES ASSUME n + 1 <= m PROVE x[n + 1] = y[n + 1]
    OBVIOUS
  <2>1. n + 1 \in 1..N /\ n + 1 \in 1..m /\ (n + 1) - 1 = n /\ x[n] = y[n]
    BY <1>0, <1>5
  <2> QED
    BY <1>1, <1>2, <1>3, <2>1
<1>6. m \in S
  <2> HIDE DEF S
  <2> QED
    BY <1>0, <1>4, <1>5, SetInduction
<1> QED
  BY <1>0, <1>6 DEF x, y

(* A field's visibility hangs on fields that come before it: a change of    *)
(* one field leaves that field and those before it shown or hidden.        *)
LEMMA ReadsBefore ==
  ASSUME NEW e, NEW v, NEW u, NEW p \in 1..Len(Fields(e)),
         \A g \in AllFields \ {Fields(e)[p]} : u[g] = v[g], NEW j \in 1..p
  PROVE  isVisible(e, v, Fields(e)[j]) <=> isVisible(e, u, Fields(e)[j])
<1> DEFINE F == Fields(e)
<1>1. \A g \in AllFields : g # F[p] => u[g] = v[g]
  OBVIOUS
<1>2. {"color", "ssh", "ssh_auth"} \subseteq AllFields
  BY FieldSets
<1>3. p \in 1..Len(F) /\ j \in 1..p
  OBVIOUS
<1> HIDE DEF F
<1>4. CASE e \in FileBased
  <2>0. Len(F) = 5
    BY <1>4, FieldLists DEF F
  <2>1. p \in 1..5 /\ j \in 1..5 /\ j <= p
    BY <1>3, <2>0
  <2>2. F[j] = "color_hex" => u["color"] = v["color"]
    <3>1. F[1] = "name" /\ F[2] = "color" /\ F[3] = "color_hex" /\ F[4] = "file" /\ F[5] = "options"
      BY <1>4, FieldLists DEF F
    <3>2. F[j] = "color_hex" => F[p] # "color"
      BY <2>1, <3>1
    <3> QED
      BY <3>2, <1>1, <1>2
  <2>3. isVisible(e, v, F[j]) <=> isVisible(e, u, F[j])
    BY <1>4, <2>2 DEF isVisible, sshEnabled, sshAuthIs, sshNeedsSecret
  <2> QED
    BY <2>3 DEF F
<1>5. CASE e \notin FileBased
  <2>0. Len(F) = 13
    BY <1>5, FieldLists DEF F
  <2>1. p \in 1..13 /\ j \in 1..13 /\ j <= p
    BY <1>3, <2>0
  <2>2. /\ F[1] = "name" /\ F[2] = "color" /\ F[3] = "color_hex" /\ F[4] = "host" /\ F[5] = "port"
        /\ F[6] = "password" /\ F[7] = "ssh" /\ F[8] = "ssh_host" /\ F[9] = "ssh_port"
        /\ F[10] = "ssh_auth" /\ F[11] = "ssh_key" /\ F[12] = "ssh_secret" /\ F[13] = "options"
    BY <1>5, FieldLists DEF F
  <2>3. F[j] = "color_hex" => u["color"] = v["color"]
    <3>1. F[j] = "color_hex" => F[p] # "color"
      BY <2>1, <2>2
    <3> QED
      BY <3>1, <1>1, <1>2
  <2>4. F[j] \in {"ssh_host", "ssh_port", "ssh_auth", "ssh_key", "ssh_secret"} => u["ssh"] = v["ssh"]
    <3>1. F[j] \in {"ssh_host", "ssh_port", "ssh_auth", "ssh_key", "ssh_secret"} => F[p] # "ssh"
      BY <2>1, <2>2
    <3> QED
      BY <3>1, <1>1, <1>2
  <2>5. F[j] \in {"ssh_key", "ssh_secret"} => u["ssh_auth"] = v["ssh_auth"]
    <3>1. F[j] \in {"ssh_key", "ssh_secret"} => F[p] # "ssh_auth"
      BY <2>1, <2>2
    <3> QED
      BY <3>1, <1>1, <1>2
  <2>6. isVisible(e, v, F[j]) <=> isVisible(e, u, F[j])
    BY <2>3, <2>4, <2>5 DEF isVisible, sshEnabled, sshAuthIs, sshNeedsSecret
  <2> QED
    BY <2>6 DEF F
<1> QED
  BY <1>4, <1>5

(* What is shown is a list of the form's fields, each of them visible.     *)
LEMMA Shown ==
  ASSUME NEW e, NEW v
  PROVE  /\ visibleFields(e, v) \in Seq(ToSet(Fields(e)))
         /\ DOMAIN visibleFields(e, v) = 1..Len(visibleFields(e, v))
         /\ Len(visibleFields(e, v)) \in Nat
         /\ \A i \in DOMAIN visibleFields(e, v) :
              visibleFields(e, v)[i] \in ToSet(Fields(e)) /\ isVisible(e, v, visibleFields(e, v)[i])
<1> DEFINE N == Len(Fields(e))
           vis == visibleFields(e, v)
<1>1. N \in 0..N
  BY FieldLists
<1>2. /\ vis \in Seq(ToSet(Fields(e)))
      /\ \A i \in DOMAIN vis : \E p \in 1..N : isVisible(e, v, Fields(e)[p]) /\ vis[i] = Fields(e)[p]
  <2>1. vis \in Seq(ToSet(Fields(e)))
    BY <1>1, VisiblePlaces DEF visibleFields
  <2>2. ASSUME NEW i \in DOMAIN vis
        PROVE  \E p \in 1..N : isVisible(e, v, Fields(e)[p]) /\ vis[i] = Fields(e)[p]
    BY <1>1, <2>2, VisiblePlaces DEF visibleFields
  <2> QED
    BY <2>1, <2>2
<1> HIDE DEF vis
<1>3. /\ DOMAIN vis = 1..Len(vis) /\ Len(vis) \in Nat
      /\ \A i \in DOMAIN vis : vis[i] \in ToSet(Fields(e)) /\ isVisible(e, v, vis[i])
  BY <1>2
<1> QED
  BY <1>2, <1>3 DEF vis

(* What the first fields show stays in front of what the others show.      *)
LEMMA ShownInFront ==
  ASSUME NEW e, NEW v, NEW k \in 0..Len(Fields(e)), NEW i \in DOMAIN visible(e, v)[k]
  PROVE  i \in DOMAIN visibleFields(e, v) /\ visibleFields(e, v)[i] = visible(e, v)[k][i]
<1> DEFINE N == Len(Fields(e))
           F == Fields(e)
           w == visible(e, v)
           S == {n \in Nat : k <= n /\ n <= N => i \in DOMAIN w[n] /\ w[n][i] = w[k][i]}
<1>1. N \in Nat /\ k \in 0..N /\ i \in DOMAIN w[k] /\ \A n \in 1..N : F[n] \in ToSet(F)
  BY FieldLists DEF ToSet
<1>2. \A n \in 1..N : w[n] = IF isVisible(e, v, F[n]) THEN Append(w[n - 1], F[n]) ELSE w[n - 1]
  BY VisibleFacts
<1>3. \A n \in 0..N : w[n] \in Seq(ToSet(F))
  BY VisiblePlaces
<1> HIDE DEF w, F, N
<1>4. 0 \in S
  <2>1. k <= 0 => k = 0
    BY <1>1
  <2> QED
    BY <1>1, <2>1
<1>5. ASSUME NEW n \in Nat, n \in S PROVE n + 1 \in S
  <2> SUFFICES ASSUME k <= n + 1, n + 1 <= N PROVE i \in DOMAIN w[n + 1] /\ w[n + 1][i] = w[k][i]
    OBVIOUS
  <2>1. CASE k = n + 1
    BY <2>1, <1>1
  <2>2. CASE k <= n
    <3> DEFINE x == w[n]
    <3>1. n + 1 \in 1..N /\ n \in 0..N /\ (n + 1) - 1 = n
      BY <1>1
    <3>2. i \in DOMAIN x /\ x[i] = w[k][i] /\ x \in Seq(ToSet(F)) /\ F[n + 1] \in ToSet(F)
      BY <1>1, <1>3, <1>5, <2>2, <3>1
    <3>3. w[n + 1] = Append(x, F[n + 1]) \/ w[n + 1] = x
      BY <1>2, <3>1
    <3> HIDE DEF x
    <3>4. i \in DOMAIN Append(x, F[n + 1]) /\ Append(x, F[n + 1])[i] = x[i]
      BY <3>2
    <3> QED
      BY <3>2, <3>3, <3>4
  <2> QED
    BY <2>1, <2>2, <1>1
<1>6. N \in S
  <2> HIDE DEF S
  <2> QED
    BY <1>1, <1>4, <1>5, SetInduction
<1> QED
  BY <1>1, <1>6 DEF visibleFields, w, N

(* The field that is changed keeps its place.                              *)
LEMMA ChangedStays ==
  ASSUME NEW e, NEW v, NEW u, NEW i \in DOMAIN visibleFields(e, v),
         \A g \in AllFields \ {visibleFields(e, v)[i]} : u[g] = v[g]
  PROVE  i \in DOMAIN visibleFields(e, u) /\ visibleFields(e, u)[i] = visibleFields(e, v)[i]
<1> DEFINE N == Len(Fields(e))
           F == Fields(e)
           f == visibleFields(e, v)[i]
<1>1. N \in Nat /\ N \in 0..N
  BY FieldLists
<1>8. i \in DOMAIN visible(e, v)[N] /\ f = visible(e, v)[N][i]
  BY DEF visibleFields
<1>2. PICK p \in 1..N : isVisible(e, v, F[p]) /\ f = F[p] /\ Len(visible(e, v)[p]) = i
  <2> HIDE DEF f
  <2>1. \E p \in 1..N : isVisible(e, v, F[p]) /\ visible(e, v)[N][i] = F[p] /\ Len(visible(e, v)[p]) = i
    BY <1>1, <1>8, VisiblePlaces
  <2> QED
    BY <1>8, <2>1
<1>3. p \in 0..N /\ p - 1 \in 0..N
  BY <1>1
<1>4. visible(e, v)[p] = visible(e, u)[p]
  <2>1. \A g \in AllFields \ {F[p]} : u[g] = v[g]
    BY <1>2
  <2>2. \A j \in 1..p : isVisible(e, v, F[j]) <=> isVisible(e, u, F[j])
    BY <2>1, ReadsBefore
  <2> QED
    BY <1>3, <2>2, VisibleAgree
<1> HIDE DEF f
<1>5. i \in DOMAIN visible(e, v)[p] /\ visible(e, v)[p][i] = F[p]
  <2> DEFINE y == visible(e, v)[p - 1]
  <2>1. visible(e, v)[p] = Append(y, F[p])
    BY <1>2, VisibleFacts
  <2>2. y \in Seq(ToSet(F)) /\ F[p] \in ToSet(F)
    <3>1. y \in Seq(ToSet(F))
      BY <1>3, VisiblePlaces
    <3>2. F[p] \in ToSet(F)
      BY <1>2, FieldLists DEF ToSet
    <3> QED
      BY <3>1, <3>2
  <2> HIDE DEF y
  <2>3. /\ Len(Append(y, F[p])) = Len(y) + 1 /\ Len(y) \in Nat
        /\ Append(y, F[p])[Len(y) + 1] = F[p]
        /\ DOMAIN Append(y, F[p]) = 1..(Len(y) + 1)
    BY <2>2
  <2>4. i = Len(y) + 1
    BY <1>2, <2>1, <2>3
  <2> QED
    BY <2>1, <2>3, <2>4
<1>6. i \in DOMAIN visibleFields(e, u) /\ visibleFields(e, u)[i] = visible(e, u)[p][i]
  BY <1>3, <1>4, <1>5, ShownInFront
<1>7. i \in DOMAIN visibleFields(e, u) /\ visibleFields(e, u)[i] = f
  BY <1>2, <1>4, <1>5, <1>6
<1> QED
  BY <1>7 DEF f

(* Where a new form's cursor starts: on the name, or on the file.          *)
LEMMA FirstPlaces ==
  ASSUME NEW e, NEW v
  PROVE  /\ 1 \in DOMAIN visibleFields(e, v) /\ visibleFields(e, v)[1] = "name"
         /\ e \in FileBased =>
              LET i == IF v["color"] = "custom" THEN 4 ELSE 3
              IN i \in DOMAIN visibleFields(e, v) /\ visibleFields(e, v)[i] = "file"
<1> DEFINE N == Len(Fields(e))
           F == Fields(e)
           w == visible(e, v)
<1>0. N = 5 \/ N = 13
  BY FieldLists
<1>1. /\ {1, 2, 3, 4} \subseteq 1..N /\ 1 \in 0..N /\ 4 \in 0..N
      /\ 1 - 1 = 0 /\ 2 - 1 = 1 /\ 3 - 1 = 2 /\ 4 - 1 = 3
  <2> HIDE DEF N
  <2> QED
    BY <1>0
<1>2. /\ w[0] = <<>>
      /\ \A k \in 1..N : w[k] = IF isVisible(e, v, F[k]) THEN Append(w[k - 1], F[k]) ELSE w[k - 1]
  BY VisibleFacts
<1>3. F[1] = "name" /\ F[2] = "color" /\ F[3] = "color_hex" /\ (e \in FileBased => F[4] = "file")
  BY FieldLists
<1>4. /\ isVisible(e, v, "name") /\ isVisible(e, v, "color") /\ isVisible(e, v, "file")
      /\ isVisible(e, v, "color_hex") <=> v["color"] = "custom"
  BY DEF isVisible
<1>5. \A k \in 0..N : \A i \in DOMAIN w[k] : i \in DOMAIN w[N] /\ w[N][i] = w[k][i]
  BY ShownInFront DEF visibleFields
<1>9. /\ 1 \in 1..N => w[1] = IF isVisible(e, v, F[1]) THEN Append(w[1 - 1], F[1]) ELSE w[1 - 1]
      /\ 2 \in 1..N => w[2] = IF isVisible(e, v, F[2]) THEN Append(w[2 - 1], F[2]) ELSE w[2 - 1]
      /\ 3 \in 1..N => w[3] = IF isVisible(e, v, F[3]) THEN Append(w[3 - 1], F[3]) ELSE w[3 - 1]
      /\ 4 \in 1..N => w[4] = IF isVisible(e, v, F[4]) THEN Append(w[4 - 1], F[4]) ELSE w[4 - 1]
  <2> HIDE DEF w, F, N
  <2> QED
    BY <1>2
<1> HIDE DEF w, F, N
<1>6. w[1] = <<"name">>
  <2>1. w[1] = Append(w[0], "name")
    BY <1>1, <1>9, <1>3, <1>4
  <2> QED
    BY <2>1, <1>2
<1>7. 1 \in DOMAIN w[N] /\ w[N][1] = "name"
  <2>1. 1 \in DOMAIN w[1] /\ w[1][1] = "name"
    BY <1>6
  <2> QED
    BY <1>1, <1>5, <2>1
<1>8. ASSUME e \in FileBased
      PROVE  LET i == IF v["color"] = "custom" THEN 4 ELSE 3
             IN i \in DOMAIN w[N] /\ w[N][i] = "file"
  <2> DEFINE T == {"name", "color", "color_hex", "file"}
  <2>0. \A x \in Seq(T), y \in T : /\ Append(x, y) \in Seq(T)
                                 /\ Len(Append(x, y)) = Len(x) + 1
                                 /\ Append(x, y)[Len(x) + 1] = y
    <3> HIDE DEF T
    <3> QED
      BY AppendProperties
  <2>1. w[2] \in Seq(T) /\ Len(w[2]) = 2
    <3>1. w[2] = Append(w[1], "color")
      BY <1>1, <1>9, <1>3, <1>4
    <3>2. w[1] \in Seq(T) /\ Len(w[1]) = 1
      <4>1. w[0] \in Seq(T) /\ Len(w[0]) = 0
        BY <1>2
      <4>2. w[1] = Append(w[0], "name")
        BY <1>1, <1>9, <1>3, <1>4
      <4> QED
        BY <2>0, <4>1, <4>2
    <3> QED
      BY <2>0, <3>1, <3>2
  <2>2. w[3] = IF v["color"] = "custom" THEN Append(w[2], "color_hex") ELSE w[2]
    BY <1>1, <1>9, <1>3, <1>4
  <2>3. w[4] = Append(w[3], "file")
    BY <1>1, <1>9, <1>3, <1>4, <1>8
  <2>4. CASE v["color"] = "custom"
    <3>0. "color_hex" \in T /\ "file" \in T
      OBVIOUS
    <3> HIDE DEF T
    <3>1. w[3] \in Seq(T) /\ Len(w[3]) = 3
      BY <2>0, <2>1, <2>2, <2>4, <3>0
    <3>2. w[4] \in Seq(T) /\ Len(w[4]) = 4 /\ w[4][4] = "file"
      <4> DEFINE x == w[3]
      <4>1. /\ Append(x, "file") \in Seq(T)
            /\ Len(Append(x, "file")) = Len(x) + 1
            /\ Append(x, "file")[Len(x) + 1] = "file"
        BY <2>0, <3>0, <3>1
      <4> QED
        BY <2>3, <3>1, <4>1
    <3>3. 4 \in DOMAIN w[4]
      BY <3>2
    <3> QED
      BY <1>1, <1>5, <2>4, <3>2, <3>3
  <2>5. CASE v["color"] # "custom"
    <3>2. w[4] \in Seq(T) /\ Len(w[4]) = 3 /\ w[4][3] = "file"
      BY <2>0, <2>1, <2>2, <2>3, <2>5
    <3>3. 3 \in DOMAIN w[4]
      BY <3>2
    <3> QED
      BY <1>1, <1>5, <2>5, <3>2, <3>3
  <2> QED
    BY <2>4, <2>5
<1> QED
  BY <1>7, <1>8 DEF visibleFields, w, N

(* No field is shown or hidden by the path of the file.                    *)
LEMMA FileShowsNothing ==
  ASSUME NEW e, NEW v, DOMAIN v = AllFields, NEW x
  PROVE  visibleFields(e, [v EXCEPT !["file"] = x]) = visibleFields(e, v)
<1> DEFINE u == [v EXCEPT !["file"] = x]
           N == Len(Fields(e))
<1>1. u["color"] = v["color"] /\ u["ssh"] = v["ssh"] /\ u["ssh_auth"] = v["ssh_auth"]
  <2>1. {"color", "ssh", "ssh_auth"} \subseteq AllFields
    BY FieldSets
  <2> QED
    BY <2>1
<1> HIDE DEF u
<1>2. \A f : isVisible(e, v, f) <=> isVisible(e, u, f)
  BY <1>1 DEF isVisible, sshEnabled, sshAuthIs, sshNeedsSecret
<1>3. N \in 0..N
  BY FieldLists
<1>4. visible(e, v)[N] = visible(e, u)[N]
  BY <1>2, <1>3, VisibleAgree
<1> QED
  BY <1>4 DEF visibleFields, u

(* The keys that move the cursor leave it on a field that is shown.        *)
LEMMA MovesOnFields ==
  ASSUME cursor \in DOMAIN visibleFields(engine, vals), NEW delta \in {1, -1}, move(delta) \/ scroll(delta)
  PROVE  /\ cursor' \in DOMAIN visibleFields(engine, vals)
         /\ focused' = Focus(visibleFields(engine, vals)[cursor'])
         /\ sugg' = NoSugg
<1> DEFINE vis == visibleFields(engine, vals)
           n == Len(vis)
<1>1. DOMAIN vis = 1..n /\ n \in Nat
  BY Shown
<1>2. n \in Nat /\ n > 0 /\ cursor \in 1..n
  BY <1>1
<1>3. CASE move(delta)
  <2>1. ((cursor - 1 + delta + n) % n) + 1 \in 1..n
    <3> HIDE DEF n
    <3>1. (cursor - 1 + delta + n) % n \in 0..(n - 1)
      BY <1>2
    <3> QED
      BY <1>2, <3>1
  <2> QED
    BY <1>1, <1>3, <2>1 DEF move, At
<1>4. CASE scroll(delta)
  <2> DEFINE to == cursor + delta
             i == IF to > n THEN n ELSE IF to < 1 THEN 1 ELSE to
  <2>1. i \in 1..n
    <3> HIDE DEF n
    <3> QED
      BY <1>2
  <2>2. At(i) /\ sugg' = NoSugg
    BY <1>4 DEF scroll
  <2> HIDE DEF i
  <2> QED
    BY <1>1, <2>1, <2>2 DEF At
<1> QED
  BY <1>3, <1>4

(* A submitted form that is not valid goes to its first bad field.         *)
LEMMA FirstInvalidIsShown ==
  ASSUME NEW e, NEW v, Invalid(e, v) # {}
  PROVE  firstInvalid(e, v) \in DOMAIN visibleFields(e, v)
<1>1. Invalid(e, v) \subseteq DOMAIN visibleFields(e, v) /\ DOMAIN visibleFields(e, v) \subseteq Nat
  BY Shown DEF Invalid
<1>2. \E i \in Invalid(e, v) : \A j \in Invalid(e, v) : i <= j
  <2>1. PICK n \in Invalid(e, v) : TRUE
    OBVIOUS
  <2>2. Invalid(e, v) \in SUBSET Nat
    BY <1>1
  <2> QED
    BY <2>1, <2>2, LeastNumber
<1>3. firstInvalid(e, v) \in Invalid(e, v)
  BY <1>2 DEF firstInvalid
<1> QED
  BY <1>1, <1>3

-----------------------------------------------------------------------------
(* The form.                                                               *)

FormTypes ==
  /\ DOMAIN vals = AllFields /\ DOMAIN typed = AllFields
  /\ vals["ssh"] \in {"true", "false"}
  /\ form \in Int
  /\ tests \subseteq [form : Int, back : BOOLEAN]

FormInv == FormTypes /\ FormTruth

KeptByEngines == AllFields \ {"color", "color_hex", "ssh_auth"}

(* A form that is built shows a field under its cursor, and what was       *)
(* entered before.                                                         *)
LEMMA NewForm ==
  ASSUME NEW e, NEW d, NEW t, DOMAIN d = AllFields, DOMAIN t = AllFields,
         d["ssh"] \in {"true", "false"}, \A f \in KeptByEngines : d[f] = t[f],
         form \in Int, newConnectionFormDraft(e, d, t)
  PROVE  /\ DOMAIN vals' = AllFields /\ DOMAIN typed' = AllFields
         /\ vals'["ssh"] \in {"true", "false"}
         /\ form' \in Int /\ err' = ""
         /\ CursorOnField' /\ InputSurvives'
<1> DEFINE create == flow' # "edit"
           Host(x) == [x EXCEPT !["host"] = IF create /\ e \notin FileBased /\ d["host"] = "" THEN "good" ELSE @]
<1>1. /\ form' = form + 1 /\ mode' = "form" /\ engine' = e
      /\ vals' = Host(d) /\ typed' = Host(t)
      /\ IF create /\ e \in FileBased
         THEN cursor' = (IF Host(d)["color"] = "custom" THEN 4 ELSE 3) /\ focused' = "file"
         ELSE cursor' = 1 /\ focused' = "name"
      /\ err' = "" /\ sugg' = NoSugg
  BY DEF newConnectionFormDraft
<1>2. DOMAIN Host(d) = AllFields /\ DOMAIN Host(t) = AllFields
  OBVIOUS
<1>3. \A f \in KeptByEngines : Host(d)[f] = Host(t)[f]
  BY DEF KeptByEngines
<1>4. Host(d)["ssh"] = d["ssh"]
  BY FieldSets
<1>5. "name" \in Texts /\ "file" \in Texts
  BY FieldSets DEF Texts, Bools, Selects
<1> HIDE DEF Host
<1>6. CursorOnField'
  <2>1. sugg'.cands = <<>>
    BY <1>1 DEF NoSugg
  <2>2. cursor' \in DOMAIN visibleFields(engine', vals') /\ focused' = Focus(visibleFields(engine', vals')[cursor'])
    <3>1. CASE create /\ e \in FileBased
      <4>1. /\ cursor' = IF vals'["color"] = "custom" THEN 4 ELSE 3
            /\ focused' = "file" /\ engine' = e
        BY <1>1, <3>1
      <4>2. cursor' \in DOMAIN visibleFields(e, vals') /\ visibleFields(e, vals')[cursor'] = "file"
        BY <3>1, <4>1, FirstPlaces
      <4> QED
        BY <1>5, <4>1, <4>2 DEF Focus
    <3>2. CASE ~(create /\ e \in FileBased)
      <4>1. cursor' = 1 /\ focused' = "name" /\ engine' = e
        BY <1>1, <3>2
      <4>2. 1 \in DOMAIN visibleFields(e, vals') /\ visibleFields(e, vals')[1] = "name"
        BY FirstPlaces
      <4> QED
        BY <1>5, <4>1, <4>2 DEF Focus
    <3> QED
      BY <3>1, <3>2
  <2> QED
    BY <2>1, <2>2 DEF CursorOnField, current
<1>7. InputSurvives'
  BY <1>1, <1>3 DEF InputSurvives, KeptByEngines
<1>8. vals'["ssh"] \in {"true", "false"} /\ DOMAIN vals' = AllFields /\ DOMAIN typed' = AllFields
  BY <1>1, <1>2, <1>4
<1>9. form' \in Int /\ err' = ""
  <2>1. form' = form + 1 /\ err' = ""
    BY DEF newConnectionFormDraft
  <2>2. \A n \in Int : n + 1 \in Int
    OBVIOUS
  <2> QED
    BY <2>1, <2>2, Zenon
<1> QED
  BY <1>6, <1>7, <1>8, <1>9

(* The draft that is read back keeps every field but the colour's and the  *)
(* method of an empty section.                                             *)
LEMMA DraftKeeps ==
  ASSUME DOMAIN vals = AllFields
  PROVE  /\ DOMAIN snapshotDraft(vals) = AllFields
         /\ \A f \in KeptByEngines : snapshotDraft(vals)[f] = vals[f]
         /\ snapshotDraft(vals)["ssh"] = vals["ssh"]
<1>1. "ssh" \in KeptByEngines
  BY FieldSets DEF KeptByEngines
<1>2. /\ DOMAIN snapshotDraft(vals) = AllFields
      /\ \A f \in KeptByEngines : snapshotDraft(vals)[f] = vals[f]
  BY DEF snapshotDraft, KeptByEngines
<1> QED
  BY <1>1, <1>2

(* The draft of a stored profile has every field.                          *)
LEMMA DraftOfProfile ==
  ASSUME NEW c
  PROVE  DOMAIN draftFrom(c) = AllFields /\ draftFrom(c)["ssh"] \in {"true", "false"}
<1>1. "ssh" \in AllFields
  BY FieldSets
<1> QED
  BY <1>1 DEF draftFrom

(* What is filed shows again what the form showed.                         *)
LEMMA FiledAsShown ==
  ASSUME NEW v, DOMAIN v = AllFields, v["ssh"] \in {"true", "false"},
         Validate(toConnection(v)), saved' = toConnection(v)
  PROVE  SavedAsShown'
<1> DEFINE c == toConnection(v)
           F == ToSet(Fields(engine))
<1>1. /\ c.engine = engine /\ c.file = value(engine, v, "file") /\ c.host = value(engine, v, "host")
      /\ v["name"] # "" => c.name = v["name"]
      /\ c.port = IF engine \in FileBased THEN ""
                  ELSE IF value(engine, v, "port") = "" THEN "good" ELSE value(engine, v, "port")
      /\ c.ssh = toSSH(v) /\ c.options = rawValue(engine, v, "options")
      /\ c.color = value(engine, v, "color") /\ c.hex = value(engine, v, "color_hex")
      /\ c.secrets = {f \in {"password", "ssh_secret"} : value(engine, v, f) # ""} /\ c.shown = v
  BY DEF toConnection
<1>2. saved' = c
  OBVIOUS
<1> HIDE DEF c
<1>3. "ssh_secret" \in c.secrets => c.ssh.on /\ c.ssh.auth # "agent"
  <2> SUFFICES ASSUME value(engine, v, "ssh_secret") # "" PROVE c.ssh.on /\ c.ssh.auth # "agent"
    BY <1>1
  <2>1. engine \notin FileBased /\ v["ssh"] = "true" /\ v["ssh_auth"] \in {"key", "password"}
    BY DEF value, isVisible, sshNeedsSecret, sshEnabled
  <2>2. Field(engine, "ssh") /\ Field(engine, "ssh_auth")
    BY <2>1, FieldSets DEF Field
  <2>3. toSSH(v).on = TRUE /\ toSSH(v).auth = v["ssh_auth"]
    BY <2>1, <2>2 DEF toSSH, rawValue
  <2> QED
    BY <1>1, <2>1, <2>3
<1>4. c.secrets # {} => engine \notin FileBased
  <2>1. engine \in FileBased => ~Field(engine, "password") /\ ~Field(engine, "ssh_secret")
    BY FieldSets DEF Field
  <2> QED
    BY <1>1, <2>1 DEF value
<1>5. ASSUME NEW f \in F \ {"password", "ssh_secret"},
             v[f] # "", f = "color_hex" => c.color = "custom", ~(f = "color" /\ c.hex = "")
      PROVE  draftFrom(c)[f] = v[f] \/ (f = "ssh_auth" /\ ~c.ssh.on)
  <2>1. f \in AllFields /\ Field(engine, f)
    BY FieldSets DEF Field
  <2>2. CASE f \in {"name", "file", "host", "options"}
    BY <1>1, <1>5, <2>1, <2>2 DEF draftFrom, value, rawValue, isVisible
  <2>3. CASE f = "port"
    <3>1. engine \notin FileBased
      BY <2>1, <2>3, FieldSets DEF Field
    <3> QED
      BY <1>1, <1>5, <2>1, <2>3, <3>1 DEF draftFrom, value, isVisible
  <2>4. CASE f = "color"
    BY <1>1, <1>5, <2>1, <2>4 DEF draftFrom, value, isVisible
  <2>5. CASE f = "color_hex"
    <3>1. Field(engine, "color")
      BY FieldSets DEF Field
    <3>2. v["color"] = "custom"
      BY <1>1, <1>5, <2>5, <3>1 DEF value, isVisible
    <3> QED
      BY <1>1, <1>5, <2>1, <2>5, <3>2 DEF draftFrom, value, isVisible
  <2>6. CASE f \in {"ssh", "ssh_host", "ssh_port", "ssh_auth", "ssh_key"}
    <3>1. /\ Field(engine, "ssh") /\ Field(engine, "ssh_host") /\ Field(engine, "ssh_port")
          /\ Field(engine, "ssh_auth") /\ Field(engine, "ssh_key")
      BY <2>1, <2>6, FieldSets DEF Field
    <3>2. CASE v["ssh"] # "true" /\ \A g \in {"ssh_host", "ssh_port", "ssh_key"} : v[g] = ""
      <4>1. /\ toSSH(v).on = FALSE /\ f \notin {"ssh_host", "ssh_port", "ssh_key"}
        BY <1>5, <3>1, <3>2 DEF toSSH, rawValue
      <4>2. f = "ssh" => draftFrom(c)[f] = "false" /\ v[f] = "false"
        <5>1. ~c.ssh.on
          BY <1>1, <4>1
        <5>2. f = "ssh" => draftFrom(c)[f] = "false"
          BY <2>1, <5>1 DEF draftFrom
        <5>3. v["ssh"] = "false"
          BY <3>2
        <5> QED
          BY <5>2, <5>3
      <4> QED
        BY <1>1, <2>6, <4>1, <4>2
    <3>3. CASE ~(v["ssh"] # "true" /\ \A g \in {"ssh_host", "ssh_port", "ssh_key"} : v[g] = "")
      <4> DEFINE s == [on |-> v["ssh"] = "true", auth |-> v["ssh_auth"], host |-> v["ssh_host"],
                       port |-> v["ssh_port"], key |-> v["ssh_key"]]
      <4>1. c.ssh = s
        <5>1. \A g \in {"ssh", "ssh_host", "ssh_port", "ssh_auth", "ssh_key"} : rawValue(engine, v, g) = v[g]
          BY <3>1 DEF rawValue
        <5>2. ~(rawValue(engine, v, "ssh") # "true"
                 /\ \A g \in {"ssh_host", "ssh_port", "ssh_key"} : rawValue(engine, v, g) = "")
          BY <3>3, <5>1
        <5>3. toSSH(v) = [on |-> rawValue(engine, v, "ssh") = "true", auth |-> rawValue(engine, v, "ssh_auth"),
                          host |-> rawValue(engine, v, "ssh_host"), port |-> rawValue(engine, v, "ssh_port"),
                          key |-> rawValue(engine, v, "ssh_key")]
          BY <5>2, Zenon DEF toSSH
        <5> QED
          BY <1>1, <5>1, <5>3
      <4>2. /\ c.ssh.auth = v["ssh_auth"] /\ c.ssh.host = v["ssh_host"]
            /\ c.ssh.port = v["ssh_port"] /\ c.ssh.key = v["ssh_key"]
            /\ c.ssh.on <=> v["ssh"] = "true"
        <5>1. /\ s.auth = v["ssh_auth"] /\ s.host = v["ssh_host"] /\ s.port = v["ssh_port"]
              /\ s.key = v["ssh_key"]
          OBVIOUS
        <5>2. s.on <=> v["ssh"] = "true"
          BY Zenon
        <5> HIDE DEF s
        <5> QED
          BY <4>1, <5>1, <5>2, Zenon
      <4>3. CASE f = "ssh"
        BY <2>1, <4>2, <4>3 DEF draftFrom
      <4>4. CASE f # "ssh"
        BY <2>1, <2>6, <4>2, <4>4 DEF draftFrom
      <4> QED
        BY <4>3, <4>4
    <3> QED
      BY <3>2, <3>3
  <2> QED
    BY <2>2, <2>3, <2>4, <2>5, <2>6, FieldSets
<1>6. Validate(c)
  BY DEF c
<1>7. c.engine = engine /\ c.shown = v
  BY <1>1
<1> HIDE DEF F
<1>8. /\ \A f \in F \ {"password", "ssh_secret"} :
           c.shown[f] # "" /\ (f = "color_hex" => c.color = "custom") /\ ~(f = "color" /\ c.hex = "") =>
             draftFrom(c)[f] = c.shown[f] \/ (f = "ssh_auth" /\ ~c.ssh.on)
      /\ F = ToSet(Fields(c.engine))
  BY <1>5, <1>7 DEF F
<1>9. c.secrets # {} => c.engine \notin FileBased
  BY <1>4, <1>7
<1> QED
  BY <1>2, <1>3, <1>6, <1>8, <1>9 DEF SavedAsShown

(* What a form holds at first is so: every kind of draft, and a stored     *)
(* profile that its own form shows.                                        *)
LEMMA FormStarts == FormInit => FormInv
<1> SUFFICES ASSUME FormInit PROVE FormInv
  OBVIOUS
<1>1. FormTypes
  <2>1. "ssh" \in AllFields
    BY FieldSets
  <2>2. FormTypes
    <3>1. vals = Blank /\ typed = Blank /\ form = 0 /\ tests = {}
      BY DEF FormInit
    <3>2. DOMAIN Blank = AllFields
      BY DEF Blank
    <3>3. Blank["ssh"] = "false"
      BY <2>1 DEF Blank, Bools
    <3> QED
      BY <3>1, <3>2, <3>3 DEF FormTypes
  <2> QED
    BY <2>2
<1>2. CursorOnField /\ InputSurvives /\ OwnTest
  BY DEF FormInit, CursorOnField, InputSurvives, OwnTest
<1>3. SavedAsShown
  <2> SUFFICES ASSUME engine \notin FileBased, saved = Stored(engine) PROVE SavedAsShown
    BY DEF FormInit, SavedAsShown
  <2> DEFINE c == Stored(engine)
  <2>1. /\ c.engine = engine /\ c.file = "" /\ c.host = "good" /\ c.name = "good" /\ c.port = "good"
        /\ c.ssh = [on |-> TRUE, auth |-> "key", host |-> "good", port |-> "good", key |-> "good"]
        /\ c.options = "" /\ c.color = "red" /\ c.hex = "" /\ c.secrets = {}
        /\ \A f \in AllFields :
             c.shown[f] = CASE f \in {"name", "host", "port", "ssh_host", "ssh_port", "ssh_key"} -> "good"
                            [] f = "ssh" -> "true" [] f = "ssh_auth" -> "key" [] f = "color" -> "red"
                            [] OTHER -> ""
    BY DEF Stored
  <2>2. saved = c
    OBVIOUS
  <2> HIDE DEF c
  <2>5. /\ c.ssh.on = TRUE /\ c.ssh.auth = "key" /\ c.ssh.host = "good"
        /\ c.ssh.port = "good" /\ c.ssh.key = "good"
    <3> DEFINE s == [on |-> TRUE, auth |-> "key", host |-> "good", port |-> "good", key |-> "good"]
    <3>1. c.ssh = s
      BY <2>1
    <3>2. s.on = TRUE /\ s.auth = "key" /\ s.host = "good" /\ s.port = "good" /\ s.key = "good"
      OBVIOUS
    <3> HIDE DEF s
    <3> QED
      BY <3>1, <3>2, Zenon
  <2>3. Validate(c)
    <3>1. c.ssh.on = TRUE /\ c.ssh.host = "good" /\ c.ssh.auth = "key"
      BY <2>5
    <3> QED
      BY <2>1, <3>1 DEF Validate
  <2>4. ASSUME NEW f \in AllFields, c.shown[f] # "", ~(f = "color")
        PROVE  draftFrom(c)[f] = c.shown[f]
    <3>1. f \in {"name", "host", "port", "ssh_host", "ssh_port", "ssh_key", "ssh", "ssh_auth"}
      BY <2>1, <2>4
    <3>2. /\ c.ssh.on = TRUE /\ c.ssh.auth = "key" /\ c.ssh.host = "good"
          /\ c.ssh.port = "good" /\ c.ssh.key = "good"
      BY <2>5
    <3>3. CASE f = "ssh"
      BY <2>1, <3>2, <3>3 DEF draftFrom
    <3>4. CASE f # "ssh"
      BY <2>1, <3>1, <3>2, <3>4 DEF draftFrom
    <3> QED
      BY <3>3, <3>4
  <2> QED
    <3>1. c.hex = "" /\ c.secrets = {}
      BY <2>1
    <3>2. ToSet(Fields(c.engine)) \subseteq AllFields
      BY FieldSets
    <3> QED
      BY <2>2, <2>3, <2>4, <3>1, <3>2 DEF SavedAsShown
<1> QED
  BY <1>1, <1>2, <1>3 DEF FormInv, FormTruth

(* A step that builds no form, makes no test and saves nothing keeps what  *)
(* is said of tests and of the profile; its message is the old one or none *)
(* about a test.                                                           *)
LEMMA QuietStep ==
  ASSUME SavedAsShown, OwnTest, form \in Int, tests \subseteq [form : Int, back : BOOLEAN],
         UNCHANGED <<form, tests, saved>>, mode' = "form" => mode = "form",
         err' = err \/ err' \notin {"testing", "tested"}
  PROVE  /\ SavedAsShown' /\ OwnTest'
         /\ form' \in Int /\ tests' \subseteq [form : Int, back : BOOLEAN]
<1>1. SavedAsShown'
  BY DEF SavedAsShown
<1>2. OwnTest'
  BY DEF OwnTest
<1> QED
  BY <1>1, <1>2

(* Building a form for the draft of a picker keeps the invariant.          *)
LEMMA RebuildKeeps ==
  ASSUME FormInv, NEW e, Rebuild(e), UNCHANGED <<tests, saved>>
  PROVE  FormInv'
<1>1. newConnectionFormDraft(e, vals, typed)
  BY DEF Rebuild
<1>2. /\ DOMAIN vals' = AllFields /\ DOMAIN typed' = AllFields
      /\ vals'["ssh"] \in {"true", "false"}
      /\ form' \in Int /\ err' = ""
      /\ CursorOnField' /\ InputSurvives'
  BY <1>1, NewForm DEF FormInv, FormTruth, FormTypes, InputSurvives, KeptByEngines
<1>3. OwnTest'
  BY <1>2 DEF OwnTest
<1>4. SavedAsShown'
  BY DEF FormInv, FormTruth, SavedAsShown
<1>5. tests' \subseteq [form : Int, back : BOOLEAN]
  BY DEF FormInv, FormTypes
<1> QED
  BY <1>2, <1>3, <1>4, <1>5 DEF FormInv, FormTruth, FormTypes

(* Going to the picker keeps the invariant.                                *)
LEMMA PickerKeeps ==
  ASSUME FormInv, NEW back, OpenPicker(back), UNCHANGED <<form, tests, saved, typed, err>>
  PROVE  FormInv'
<1>1. mode' = "picker" /\ vals' = snapshotDraft(vals)
  BY DEF OpenPicker
<1>2. DOMAIN vals = AllFields /\ vals["ssh"] \in {"true", "false"} /\ DOMAIN typed = AllFields /\ InputSurvives
  BY DEF FormInv, FormTruth, FormTypes
<1>3. /\ DOMAIN vals' = AllFields /\ vals'["ssh"] = vals["ssh"]
      /\ \A f \in KeptByEngines : vals'[f] = vals[f]
  BY <1>1, <1>2, DraftKeeps
<1>4. InputSurvives'
  BY <1>2, <1>3 DEF InputSurvives, KeptByEngines
<1>5. CursorOnField'
  BY <1>1 DEF CursorOnField
<1>6. /\ SavedAsShown' /\ OwnTest'
      /\ form' \in Int /\ tests' \subseteq [form : Int, back : BOOLEAN]
  <2>1. mode' # "form"
    BY <1>1
  <2> QED
    BY <2>1, QuietStep DEF FormInv, FormTruth, FormTypes
<1> QED
  BY <1>2, <1>3, <1>4, <1>5, <1>6 DEF FormInv, FormTruth, FormTypes

(* What is entered into a field is what it holds.                          *)
LEMMA EnterKeeps ==
  ASSUME FormTypes, InputSurvives, NEW f \in AllFields, NEW v, Enter(f, v), f = "ssh" => v \in {"true", "false"}
  PROVE  /\ DOMAIN vals' = AllFields /\ DOMAIN typed' = AllFields
         /\ vals'["ssh"] \in {"true", "false"}
         /\ InputSurvives'
         /\ vals' = [vals EXCEPT ![f] = v]
<1>1. vals' = [vals EXCEPT ![f] = v] /\ typed' = [typed EXCEPT ![f] = v]
  BY DEF Enter
<1>2. DOMAIN vals = AllFields /\ DOMAIN typed = AllFields /\ vals["ssh"] \in {"true", "false"} /\ "ssh" \in AllFields
  BY FieldSets DEF FormTypes
<1>3. InputSurvives'
  BY <1>1, <1>2 DEF InputSurvives
<1> QED
  BY <1>1, <1>2, <1>3

(* Typing into the field under the cursor keeps the invariant.             *)
LEMMA ChangeKeeps ==
  ASSUME FormInv, Change
  PROVE  FormInv'
<1>1. /\ mode = "form"
      /\ UNCHANGED <<mode, flow, goesBack, engine, cursor, focused, submitted, err, form, tests, saved>>
      /\ \E v \in Entries(current) \ {vals[current]} :
           /\ Enter(current, v)
           /\ IF current = "file" THEN refresh(v) ELSE sugg' = NoSugg
  BY DEF Change
<1>2. /\ cursor \in DOMAIN visibleFields(engine, vals) /\ focused = Focus(current)
      /\ sugg.cands # <<>> => current = "file"
      /\ DOMAIN vals = AllFields
  BY <1>1 DEF FormInv, FormTruth, FormTypes, CursorOnField
<1>3. PICK v \in Entries(current) :
        Enter(current, v) /\ (IF current = "file" THEN refresh(v) ELSE sugg' = NoSugg)
  BY <1>1
<1> DEFINE f == visibleFields(engine, vals)[cursor]
<1>4. f = current
  BY DEF current
<1>5. f \in AllFields
  BY <1>2, Shown, FieldSets
<1>6. f = "ssh" => v \in {"true", "false"}
  BY <1>3, <1>4 DEF Entries, Bools
<1>7. /\ DOMAIN vals' = AllFields /\ DOMAIN typed' = AllFields
      /\ vals'["ssh"] \in {"true", "false"}
      /\ InputSurvives'
      /\ vals' = [vals EXCEPT ![f] = v]
  <2> HIDE DEF f
  <2> QED
    BY <1>3, <1>4, <1>5, <1>6, EnterKeeps DEF FormInv, FormTruth
<1>8. cursor \in DOMAIN visibleFields(engine, vals') /\ visibleFields(engine, vals')[cursor] = f
  <2>1. \A g \in AllFields \ {f} : vals'[g] = vals[g]
    BY <1>2, <1>7
  <2> QED
    BY <1>2, <2>1, ChangedStays
<1>9. CursorOnField'
  <2>1. current' = f
    BY <1>1, <1>8 DEF current
  <2>2. sugg'.cands # <<>> => f = "file"
    BY <1>3, <1>4 DEF NoSugg
  <2> HIDE DEF f
  <2> QED
    BY <1>1, <1>2, <1>4, <1>8, <2>1, <2>2 DEF CursorOnField
<1>10. /\ SavedAsShown' /\ OwnTest'
       /\ form' \in Int /\ tests' \subseteq [form : Int, back : BOOLEAN]
  BY <1>1, QuietStep DEF FormInv, FormTruth, FormTypes
<1> QED
  BY <1>7, <1>9, <1>10 DEF FormInv, FormTruth, FormTypes

(* A key of the suggestions changes the path alone, and stays on the field *)
(* or moves on from it.                                                    *)
LEMMA SuggestKeeps ==
  ASSUME FormInv, SuggestKey
  PROVE  FormInv'
<1>1. /\ mode = "form" /\ suggesting
      /\ UNCHANGED <<mode, flow, goesBack, engine, submitted, err, form, tests, saved>>
      /\ \/ complete /\ UNCHANGED <<cursor, focused>>
         \/ (navigate(1) \/ navigate(-1)) /\ UNCHANGED <<cursor, focused>>
         \/ acceptSuggestion
  BY DEF SuggestKey
<1> DEFINE vis == visibleFields(engine, vals)
<1>2. /\ cursor \in DOMAIN vis /\ focused = Focus(vis[cursor]) /\ vis[cursor] = "file"
      /\ DOMAIN vals = AllFields /\ FormTypes /\ InputSurvives
  BY <1>1 DEF FormInv, FormTruth, FormTypes, CursorOnField, suggesting, current
<1>3. (\E v : Enter("file", v)) \/ UNCHANGED <<vals, typed>>
  BY <1>1 DEF complete, navigate, acceptSuggestion
<1>4. \/ UNCHANGED <<cursor, focused>>
      \/ move(1)
  BY <1>1 DEF acceptSuggestion
<1>5. /\ DOMAIN vals' = AllFields /\ DOMAIN typed' = AllFields
      /\ vals'["ssh"] \in {"true", "false"}
      /\ InputSurvives'
      /\ (vals' = vals \/ \E v : vals' = [vals EXCEPT !["file"] = v])
  <2>1. CASE UNCHANGED <<vals, typed>>
    BY <1>2, <2>1 DEF InputSurvives, FormTypes
  <2>2. ASSUME NEW v, Enter("file", v)
        PROVE  /\ DOMAIN vals' = AllFields /\ DOMAIN typed' = AllFields
               /\ vals'["ssh"] \in {"true", "false"}
               /\ InputSurvives'
               /\ vals' = [vals EXCEPT !["file"] = v]
    <3>1. "file" \in AllFields
      BY FieldSets
    <3> QED
      BY <1>2, <2>2, <3>1, EnterKeeps
  <2> QED
    BY <1>3, <2>1, <2>2
<1>6. visibleFields(engine', vals') = vis
  BY <1>1, <1>2, <1>5, FileShowsNothing
<1>7. CursorOnField'
  <2>1. CASE UNCHANGED <<cursor, focused>>
    BY <1>2, <1>6, <2>1 DEF CursorOnField, current
  <2>2. CASE move(1)
    <3>1. cursor' \in DOMAIN vis /\ focused' = Focus(vis[cursor']) /\ sugg'.cands = <<>>
      BY <1>2, <2>2, MovesOnFields DEF NoSugg
    <3> HIDE DEF vis
    <3> QED
      BY <1>6, <3>1 DEF CursorOnField, current
  <2> QED
    BY <1>4, <2>1, <2>2
<1>8. /\ SavedAsShown' /\ OwnTest'
      /\ form' \in Int /\ tests' \subseteq [form : Int, back : BOOLEAN]
  BY <1>1, QuietStep DEF FormInv, FormTruth, FormTypes
<1> QED
  BY <1>5, <1>7, <1>8 DEF FormInv, FormTruth, FormTypes

(* Moving the cursor keeps the invariant.                                  *)
LEMMA MoveKeeps ==
  ASSUME FormInv, MoveKey
  PROVE  FormInv'
<1> DEFINE vis == visibleFields(engine, vals)
<1>1. /\ mode = "form"
      /\ UNCHANGED <<mode, flow, goesBack, engine, vals, submitted, err, form, tests, saved, typed, edits>>
      /\ \E delta \in {1, -1} : move(delta) \/ scroll(delta)
  BY DEF MoveKey
<1>2. cursor \in DOMAIN vis
  BY <1>1 DEF FormInv, FormTruth, CursorOnField
<1>3. cursor' \in DOMAIN vis /\ focused' = Focus(vis[cursor']) /\ sugg' = NoSugg
  BY <1>1, <1>2, MovesOnFields
<1>4. visibleFields(engine', vals') = vis
  BY <1>1
<1> HIDE DEF vis
<1>5. CursorOnField'
  BY <1>3, <1>4 DEF CursorOnField, current, NoSugg
<1>6. /\ SavedAsShown' /\ OwnTest'
      /\ form' \in Int /\ tests' \subseteq [form : Int, back : BOOLEAN]
  BY <1>1, QuietStep DEF FormInv, FormTruth, FormTypes
<1>7. InputSurvives' /\ FormTypes'
  BY <1>1, <1>6 DEF FormInv, FormTruth, FormTypes, InputSurvives
<1> QED
  BY <1>5, <1>6, <1>7 DEF FormInv, FormTruth

(* Submitting a form keeps the invariant: it goes to a bad field, is       *)
(* refused, or is filed as it is shown.                                    *)
LEMMA SubmitKeeps ==
  ASSUME FormInv, Submit
  PROVE  FormInv'
<1>1. mode = "form" /\ UNCHANGED <<flow, goesBack, engine, vals, form, tests, typed, edits>>
  BY DEF Submit
<1>2. InputSurvives' /\ FormTypes'
  BY <1>1 DEF FormInv, FormTruth, FormTypes, InputSurvives
<1>3. CASE Invalid(engine, vals) # {}
  <2>1. /\ At(firstInvalid(engine, vals)) /\ sugg' = NoSugg
        /\ err' = "invalid" /\ UNCHANGED <<mode, saved>>
    BY <1>3 DEF Submit
  <2> DEFINE vis == visibleFields(engine, vals)
  <2>2. cursor' \in DOMAIN vis /\ focused' = Focus(vis[cursor'])
    BY <1>3, <2>1, FirstInvalidIsShown DEF At
  <2>3. visibleFields(engine', vals') = vis
    BY <1>1
  <2> HIDE DEF vis
  <2>4. CursorOnField'
    BY <2>1, <2>2, <2>3 DEF CursorOnField, current, NoSugg
  <2>5. SavedAsShown' /\ OwnTest'
    BY <1>1, <2>1, QuietStep DEF FormInv, FormTruth, FormTypes
  <2> QED
    BY <1>2, <2>4, <2>5 DEF FormInv, FormTruth
<1>4. CASE /\ ~(Invalid(engine, vals) # {})
           /\ ~Parses(vals) \/ ~Validate(toConnection(vals)) \/ ~Upserts(toConnection(vals))
  <2>1. err' = "refused" /\ UNCHANGED <<mode, saved, cursor, focused, sugg>>
    BY <1>4 DEF Submit
  <2>2. CursorOnField'
    BY <1>1, <2>1 DEF FormInv, FormTruth, CursorOnField, current
  <2>3. SavedAsShown' /\ OwnTest'
    BY <1>1, <2>1, QuietStep DEF FormInv, FormTruth, FormTypes
  <2> QED
    BY <1>2, <2>2, <2>3 DEF FormInv, FormTruth
<1>5. CASE /\ ~(Invalid(engine, vals) # {})
           /\ ~(~Parses(vals) \/ ~Validate(toConnection(vals)) \/ ~Upserts(toConnection(vals)))
  <2>1. saved' = toConnection(vals) /\ mode' = "none"
    BY <1>5 DEF Submit
  <2>2. CursorOnField' /\ OwnTest'
    BY <2>1 DEF CursorOnField, OwnTest
  <2>3. Validate(toConnection(vals))
    BY <1>5
  <2>4. SavedAsShown'
    BY <2>1, <2>3, FiledAsShown DEF FormInv, FormTypes
  <2> QED
    BY <1>2, <2>2, <2>4 DEF FormInv, FormTruth
<1> QED
  BY <1>3, <1>4, <1>5

(* A test, and its result, keep the invariant: a result that comes back is *)
(* that of the form it is shown on.                                        *)
LEMMA TestKeeps ==
  ASSUME FormInv, Test \/ \E f \in tests : connTested(f)
  PROVE  FormInv'
<1>1. UNCHANGED <<mode, flow, goesBack, engine, vals, cursor, focused, submitted, sugg, form, saved, typed, edits>>
  BY DEF Test, connTested
<1>2. CursorOnField' /\ InputSurvives' /\ SavedAsShown'
  BY <1>1 DEF FormInv, FormTruth, CursorOnField, current, InputSurvives, SavedAsShown
<1>3. form \in Int /\ tests \subseteq [form : Int, back : BOOLEAN] /\ OwnTest
  BY DEF FormInv, FormTruth, FormTypes
<1>4. CASE Test
  <2>1. \/ err' = "testing" /\ tests' = tests \cup {[form |-> form, back |-> FALSE]}
        \/ err' = "refused" /\ tests' = tests
    BY <1>4 DEF Test
  <2>2. tests' \subseteq [form : Int, back : BOOLEAN]
    <3>1. [form |-> form, back |-> FALSE] \in [form : Int, back : BOOLEAN]
      BY <1>3
    <3> QED
      BY <1>3, <2>1, <3>1
  <2>3. OwnTest'
    BY <1>1, <2>1 DEF OwnTest
  <2> QED
    BY <1>1, <1>2, <2>2, <2>3 DEF FormInv, FormTruth, FormTypes
<1>5. ASSUME NEW f \in tests, connTested(f) PROVE tests' \subseteq [form : Int, back : BOOLEAN] /\ OwnTest'
  <2>1. /\ f.back = FALSE /\ f.form \in Int /\ f = [form |-> f.form, back |-> f.back]
        /\ tests' = (tests \ {f}) \cup {[f EXCEPT !.back = TRUE]}
    BY <1>3, <1>5 DEF connTested
  <2>2. [f EXCEPT !.back = TRUE] = [form |-> f.form, back |-> TRUE]
    <3> DEFINE g == [f EXCEPT !.back = TRUE]
    <3>1. f \in [form : Int, back : BOOLEAN]
      BY <1>3, <1>5
    <3>2. g \in [form : Int, back : BOOLEAN] /\ g.form = f.form /\ g.back = TRUE
      BY <3>1
    <3>3. \A r \in [form : Int, back : BOOLEAN] : r = [form |-> r.form, back |-> r.back]
      OBVIOUS
    <3> HIDE DEF g
    <3>4. g = [form |-> f.form, back |-> TRUE]
      BY <3>2, <3>3, Zenon
    <3> QED
      BY <3>4 DEF g
  <2>3. tests' \subseteq [form : Int, back : BOOLEAN]
    BY <1>3, <2>1, <2>2
  <2>4. CASE mode = "form" /\ form = f.form
    <3>1. err' \in {IF err = "testing" THEN "tested" ELSE err, "refused"}
      BY <1>5, <2>4 DEF connTested
    <3>2. [form |-> form, back |-> TRUE] \in tests'
      BY <2>1, <2>2, <2>4
    <3>3. err' # "testing"
      BY <3>1
    <3> QED
      BY <1>1, <2>3, <3>2, <3>3 DEF OwnTest
  <2>5. CASE ~(mode = "form" /\ form = f.form)
    <3>1. err' = err
      BY <1>5, <2>5 DEF connTested
    <3>2. ASSUME mode = "form", NEW b \in BOOLEAN, [form |-> form, back |-> b] \in tests
          PROVE  [form |-> form, back |-> b] \in tests'
      <4>1. [form |-> form, back |-> b] # f
        BY <2>5, <3>2
      <4> QED
        BY <2>1, <3>2, <4>1
    <3> QED
      BY <1>1, <1>3, <2>3, <3>1, <3>2 DEF OwnTest
  <2> QED
    BY <2>3, <2>4, <2>5
<1>6. CASE \E f \in tests : connTested(f)
  BY <1>1, <1>2, <1>5, <1>6 DEF FormInv, FormTruth, FormTypes
<1> QED
  BY <1>4, <1>6

(* Every step of the form keeps the invariant.                             *)
LEMMA FormKeeps ==
  ASSUME FormInv, [FormNext]_formVars
  PROVE  FormInv'
<1>1. ASSUME NEW e \in Engines, Pick(e) PROVE FormInv'
  BY <1>1, RebuildKeeps DEF Pick
<1>2. CASE LeavePicker
  <2>1. CASE goesBack
    BY <1>2, <2>1, RebuildKeeps DEF LeavePicker
  <2>2. CASE ~goesBack
    <3>1. /\ mode' = "none"
          /\ UNCHANGED <<form, vals, typed, tests, saved>>
      BY <1>2, <2>2 DEF LeavePicker
    <3> QED
      BY <3>1 DEF FormInv, FormTruth, FormTypes, CursorOnField, SavedAsShown, InputSurvives, OwnTest
  <2> QED
    BY <2>1, <2>2
<1>3. CASE ChangeEngine
  BY <1>3, PickerKeeps DEF ChangeEngine
<1>4. CASE Cancel
  <2>1. mode = "form" /\ UNCHANGED <<flow, engine, submitted, err, form, tests, saved, typed, edits>>
    BY <1>4 DEF Cancel
  <2>2. CASE suggesting
    <3>1. sugg' = NoSugg /\ UNCHANGED <<mode, goesBack, vals, cursor, focused>>
      BY <1>4, <2>2 DEF Cancel
    <3>2. CursorOnField'
      BY <2>1, <3>1 DEF FormInv, FormTruth, CursorOnField, current, NoSugg
    <3> QED
      BY <2>1, <3>1, <3>2 DEF FormInv, FormTruth, FormTypes, SavedAsShown, InputSurvives, OwnTest
  <2>3. CASE ~suggesting /\ flow = "create"
    BY <1>4, <2>1, <2>3, PickerKeeps DEF Cancel
  <2>4. CASE ~suggesting /\ flow # "create"
    <3>1. mode' = "none" /\ UNCHANGED vals
      BY <1>4, <2>4 DEF Cancel
    <3> QED
      BY <2>1, <3>1 DEF FormInv, FormTruth, FormTypes, CursorOnField, SavedAsShown, InputSurvives, OwnTest
  <2> QED
    BY <2>2, <2>3, <2>4
<1>5. CASE Change
  BY <1>5, ChangeKeeps
<1>6. CASE SuggestKey
  BY <1>6, SuggestKeeps
<1>7. CASE MoveKey
  BY <1>7, MoveKeeps
<1>8. CASE Submit
  BY <1>8, SubmitKeeps
<1>9. CASE Test \/ \E f \in tests : connTested(f)
  BY <1>9, TestKeeps
<1>10. ASSUME NEW how \in {"edit", "duplicate"}, OpenSaved(how) PROVE FormInv'
  <2>1. newConnectionFormDraft(saved.engine, draftFrom(saved), draftFrom(saved)) /\ UNCHANGED <<tests, saved>>
    BY <1>10 DEF OpenSaved
  <2>2. /\ DOMAIN vals' = AllFields /\ DOMAIN typed' = AllFields
        /\ vals'["ssh"] \in {"true", "false"}
        /\ form' \in Int /\ err' = ""
        /\ CursorOnField' /\ InputSurvives'
    BY <2>1, NewForm, DraftOfProfile DEF FormInv, FormTypes
  <2>3. OwnTest'
    BY <2>2 DEF OwnTest
  <2>4. SavedAsShown' /\ tests' \subseteq [form : Int, back : BOOLEAN]
    BY <2>1 DEF FormInv, FormTruth, FormTypes, SavedAsShown
  <2> QED
    BY <2>2, <2>3, <2>4 DEF FormInv, FormTruth, FormTypes
<1>11. CASE UNCHANGED formVars
  BY <1>11 DEF FormInv, FormTruth, FormTypes, CursorOnField, current, SavedAsShown, InputSurvives, OwnTest, formVars
<1> QED
  BY <1>1, <1>2, <1>3, <1>4, <1>5, <1>6, <1>7, <1>8, <1>9, <1>10, <1>11 DEF FormNext

(* The invariant of the connection form.                                   *)
THEOREM FormInvariant == FormSpec => []FormInv
<1>1. FormInit => FormInv
  BY FormStarts
<1>2. FormInv /\ [FormNext]_formVars => FormInv'
  BY FormKeeps
<1> QED
  BY <1>1, <1>2, PTL DEF FormSpec

(* Whatever engines there are, and however often the form is rebuilt,      *)
(* completed, tested and submitted, its cursor is on a field that is       *)
(* shown, what was typed is kept, and what is filed shows again as it was  *)
(* shown (formModal, snapshotDraft, toConnection).                         *)
THEOREM FormIsTrue == FormSpec => []FormTruth
<1>1. FormInv => FormTruth
  BY DEF FormInv
<1> QED
  BY <1>1, FormInvariant, PTL
================================================================================
