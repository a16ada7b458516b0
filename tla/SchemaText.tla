----------------------------- MODULE SchemaText -----------------------------
(***************************************************************************)
(* Schema changes and schema comparison (db/ddl.go, db/ddl_dialects.go,     *)
(* db/ddlorder.go, db/schemadiff.go): how a staged change becomes the       *)
(* statements of an engine, what a commit of them leaves when one fails,    *)
(* how two snapshots are compared, and in what order the tables of a        *)
(* namespace are written. What a statement does to a schema is the          *)
(* engine's business and is external here.                                  *)
(***************************************************************************)
EXTENDS Integers, Sequences, FiniteSets, SequencesExt, Functions

CONSTANTS
  DDLEngines,  \* those whose dialects are rendered
  NewDefaults, \* what an alter may do to a column's default
  OldExtras,   \* what the altered column may carry besides
  Written,     \* the tables of an export, in order of their names
  MaxStaged,   \* bound on the staged changes
  MaxTries     \* bound on the commits

VARIABLES
  ddlEngine,
  schema, \* the schema: tables by name
  snap,   \* the snapshot it is compared with
  ddl,    \* the schema changes of the changeset, in order
  tries,  \* their count so far
  broken, \* what the last failed commit left, and what its preview said
  deps    \* the foreign keys of an export, as pairs of tables

schemaVars == <<ddlEngine, schema, snap, ddl, tries, broken, deps>>

Mysqlish == {"mysql", "mariadb"}
Types == {"INT", "INTEGER", "TEXT"}

-----------------------------------------------------------------------------
(* Comparing.                                                              *)

\* Synonyms count within a family.
NormalizeType(t, mapSynonyms) == IF mapSynonyms /\ t = "INT" THEN "INTEGER" ELSE t

referentialAction(rule) == IF rule = "NO ACTION" THEN "" ELSE rule

columnFields(ca, cb, same) ==
  {f \in {"type", "nullable", "default", "primary key"} :
     CASE f = "type" -> NormalizeType(ca.type, same) # NormalizeType(cb.type, same)
       [] f = "nullable" -> ca.null # cb.null
       [] f = "default" -> ca.def # cb.def
       [] f = "primary key" -> ca.pk # cb.pk}

indexFields(ia, ib) ==
  {f \in {"columns", "unique"} : IF f = "columns" THEN ia.cols # ib.cols ELSE ia.unique # ib.unique}

fkFields(fa, fb) ==
  {f \in {"references", "on delete"} :
     IF f = "references" THEN fa.ref # fb.ref ELSE referentialAction(fa.del) # referentialAction(fb.del)}

\* Two sets of named things: what one side has alone, and what differs.
Named(a, b, Fields(_, _)) ==
  LET Both == DOMAIN a \cap DOMAIN b
  IN [onlyA |-> DOMAIN a \ DOMAIN b, onlyB |-> DOMAIN b \ DOMAIN a,
      changed |-> {<<n, Fields(a[n], b[n])>> : n \in {x \in Both : Fields(a[x], b[x]) # {}}}]

diffColumns(a, b, same) == LET F(x, y) == columnFields(x, y, same) IN Named(a.cols, b.cols, F)

\* The indexes of primary keys are left to the columns' flags.
Secondary(t) == Restrict(t.idx, {n \in DOMAIN t.idx : ~t.idx[n].primary})
diffIndexes(a, b) == Named(Secondary(a), Secondary(b), indexFields)
diffFKs(a, b) == Named(a.fks, b.fks, fkFields)

diffTable(a, b, same) == <<diffColumns(a, b, same), diffIndexes(a, b), diffFKs(a, b)>>
Same == [onlyA |-> {}, onlyB |-> {}, changed |-> {}]

DiffSchemas(a, b, same) ==
  LET Both == DOMAIN a \cap DOMAIN b
  IN [onlyA |-> DOMAIN a \ DOMAIN b, onlyB |-> DOMAIN b \ DOMAIN a,
      tables |-> {<<n, diffTable(a[n], b[n], same)>> :
                    n \in {x \in Both : diffTable(a[x], b[x], same) # <<Same, Same, Same>>}}]

Empty(d) == d.onlyA = {} /\ d.onlyB = {} /\ d.tables = {}

-----------------------------------------------------------------------------
(* The order of an export: those whose references are all written, by name, *)
(* then again; by name alone when a cycle is left.                          *)

DDLOrder(ts, dp) ==
  LET Needs(t) == {d \in ToSet(ts) : <<t, d>> \in dp /\ d # t}
      f[n \in 0 .. Len(ts)] ==
        IF n = 0 THEN <<>>
        ELSE LET done == f[n - 1]
             IN done \o SelectSeq(ts, LAMBDA t : t \notin ToSet(done) /\ Needs(t) \subseteq ToSet(done))
      order == f[Len(ts)]
  IN IF Len(order) = Len(ts) THEN [order |-> order, acyclic |-> TRUE] ELSE [order |-> ts, acyclic |-> FALSE]

-----------------------------------------------------------------------------
(* The changes. An alter carries the column as it was read when the form    *)
(* opened.                                                                  *)

Plain(type, null) == [type |-> type, null |-> null, def |-> "none", pk |-> FALSE, extra |-> {}]

ChangesOn(s) ==
  {[kind |-> "create table", table |-> "u", cols |-> <<"k">>]}
  \cup UNION {
    {[kind |-> "add column", table |-> t, column |-> "d", def |-> "text"],
     [kind |-> "rename", table |-> t, newName |-> "u"], [kind |-> "rename", table |-> t, newName |-> t],
     [kind |-> "drop", table |-> t], [kind |-> "truncate", table |-> t],
     [kind |-> "create index", table |-> t, name |-> "i", cols |-> <<"c">>]}
    \cup {[kind |-> "drop column", table |-> t, column |-> c] : c \in DOMAIN s[t].cols \ {"k"}}
    \cup {[kind |-> "drop index", table |-> t, name |-> i] : i \in DOMAIN s[t].idx}
    \cup {[kind |-> "alter column", table |-> t, column |-> "c", old |-> s[t].cols[c], newName |-> n, type |-> ty,
           notNull |-> nn, default |-> df] :
            c \in DOMAIN s[t].cols \cap {"c"}, n \in {"c", "d"}, ty \in Types, nn \in BOOLEAN, df \in NewDefaults}
    : t \in DOMAIN s}

renamed(c) == c.newName # c.column
retyped(c) == c.type # c.old.type
nullChanged(c) == c.notNull = c.old.null
defaultChanged(c) == c.default # "keep"

\* The kinds of operation a change needs.
opsOf(c) ==
  IF c.kind # "alter column" THEN {c.kind}
  ELSE (IF renamed(c) THEN {"rename column"} ELSE {})
       \cup (IF retyped(c) \/ nullChanged(c) \/ defaultChanged(c) THEN {"alter column"} ELSE {})

schemaSupport(e, op) == ~(e = "sqlite" /\ op \in {"alter column", "truncate"})

\* A change that changes nothing is refused, as one an engine cannot make.
validateSchemaChange(c) ==
  /\ c.kind = "create table" => c.cols # <<>> /\ IsInjective(c.cols)
  /\ c.kind = "rename" => c.newName # c.table
  /\ c.kind = "create index" => c.cols # <<>>

CanRender(e, c) == opsOf(c) # {} /\ (\A op \in opsOf(c) : schemaSupport(e, op)) /\ validateSchemaChange(c)

-----------------------------------------------------------------------------
(* The statements.                                                         *)

\* A change of a part of a column, on its old name.
Sets(c, part, v) == [op |-> "set", table |-> c.table, column |-> c.column, part |-> part, to |-> v]
renameColumnSQL(c) == [op |-> "rename column", table |-> c.table, column |-> c.column, to |-> c.newName]
Opt(b, stmt) == IF b THEN <<stmt>> ELSE <<>>

\* PostgreSQL applies the parts in one statement, DuckDB in one each; the
\* rename comes last in both.
Parts(c) ==
  Opt(retyped(c), Sets(c, "type", c.type)) \o Opt(nullChanged(c), Sets(c, "null", ~c.notNull))
  \o Opt(defaultChanged(c), Sets(c, "def", c.default))
pgAlterColumn(c) == Opt(Parts(c) # <<>>, [op |-> "all", parts |-> Parts(c)]) \o Opt(renamed(c), renameColumnSQL(c))
alterColumnSeparate(c) == Parts(c) \o Opt(renamed(c), renameColumnSQL(c))

\* MySQL reports a literal bare and marks an expression; MariaDB reports SQL.
mysqlKeptDefault(e, old) ==
  CASE old.def = "none" -> "none"
    [] e = "mariadb" -> old.def
    [] e = "mysql" /\ old.def = "expr" -> "expr"
    [] OTHER -> "text"

mysqlAlterColumn(e, c) ==
  IF retyped(c) \/ nullChanged(c)
  THEN <<[op |-> "change column", table |-> c.table, column |-> c.column, to |-> c.newName, type |-> c.type,
          null |-> ~c.notNull, def |-> IF defaultChanged(c) THEN c.default ELSE mysqlKeptDefault(e, c.old),
          extra |-> c.old.extra \cap {"auto_increment", "on update"}]>>
  ELSE alterColumnSeparate(c)

\* The rest is one statement, and each engine's spelling of it.
schemaSQLCommon(c) == <<[op |-> c.kind, change |-> c]>>

postgresSQL(c) == IF c.kind = "alter column" THEN pgAlterColumn(c) ELSE schemaSQLCommon(c)
mysqlSQL(e, c) == IF c.kind = "alter column" THEN mysqlAlterColumn(e, c) ELSE schemaSQLCommon(c)
duckdbSQL(c) == IF c.kind = "alter column" THEN alterColumnSeparate(c) ELSE schemaSQLCommon(c)
sqliteSQL(c) == IF c.kind = "alter column" THEN <<renameColumnSQL(c)>> ELSE schemaSQLCommon(c)

schemaSQL(e, c) ==
  CASE e = "postgres" -> postgresSQL(c)
    [] e = "duckdb" -> duckdbSQL(c)
    [] e = "sqlite" -> sqliteSQL(c)
    [] OTHER -> mysqlSQL(e, c)

-----------------------------------------------------------------------------
(* The engine: which statements it takes and what they do.                  *)

Table(cols) == [cols |-> [n \in ToSet(cols) |-> [Plain("INT", TRUE) EXCEPT !.pk = (n = "k"), !.null = (n # "k")]],
                idx |-> <<>>, fks |-> <<>>]
Lacking(f, n) == Restrict(f, DOMAIN f \ {n})
With(f, n, v) == [x \in DOMAIN f \cup {n} |-> IF x = n THEN v ELSE f[x]]
Moved(f, n, to) == IF to = n THEN f ELSE With(Lacking(f, n), to, f[n])

Takes(s, st) ==
  CASE st.op = "all" -> st.parts[1].table \in DOMAIN s /\ st.parts[1].column \in DOMAIN s[st.parts[1].table].cols
    [] st.op \in {"set", "rename column", "change column"} ->
         /\ st.table \in DOMAIN s /\ st.column \in DOMAIN s[st.table].cols
         /\ st.op # "set" /\ st.to # st.column => st.to \notin DOMAIN s[st.table].cols
    [] st.op = "create table" -> st.change.table \notin DOMAIN s
    [] OTHER ->
         LET c == st.change
         IN /\ c.table \in DOMAIN s
            /\ c.kind = "add column" => c.column \notin DOMAIN s[c.table].cols
            /\ c.kind = "drop column" => c.column \in DOMAIN s[c.table].cols
            /\ c.kind = "rename" => c.newName \notin DOMAIN s
            /\ c.kind = "create index" => c.name \notin DOMAIN s[c.table].idx /\ ToSet(c.cols) \subseteq DOMAIN s[c.table].cols
            /\ c.kind = "drop index" => c.name \in DOMAIN s[c.table].idx

SetPart(s, p) == [s EXCEPT ![p.table].cols[p.column] = [@ EXCEPT ![p.part] = p.to]]

Does(s, st) ==
  CASE st.op = "set" -> SetPart(s, st)
    [] st.op = "all" -> FoldLeft(SetPart, s, st.parts)
    [] st.op = "rename column" -> [s EXCEPT ![st.table].cols = Moved(@, st.column, st.to)]
    [] st.op = "change column" ->
         LET was == s[st.table].cols[st.column]
         IN [s EXCEPT ![st.table].cols = Moved(With(@, st.column,
               [type |-> st.type, null |-> st.null, def |-> st.def, pk |-> was.pk, extra |-> st.extra]), st.column, st.to)]
    [] OTHER ->
         LET c == st.change
         IN CASE c.kind = "create table" -> With(s, c.table, Table(c.cols))
              [] c.kind = "add column" -> [s EXCEPT ![c.table].cols = With(@, c.column, [Plain("TEXT", TRUE) EXCEPT !.def = c.def])]
              [] c.kind = "drop column" -> [s EXCEPT ![c.table].cols = Lacking(@, c.column)]
              [] c.kind = "rename" -> Moved(s, c.table, c.newName)
              [] c.kind = "drop" -> Lacking(s, c.table)
              [] c.kind = "truncate" -> s
              [] c.kind = "create index" ->
                   [s EXCEPT ![c.table].idx = With(@, c.name, [cols |-> c.cols, unique |-> FALSE, primary |-> FALSE])]
              [] c.kind = "drop index" -> [s EXCEPT ![c.table].idx = Lacking(@, c.name)]

\* The schemas after 0, 1, ... of the statements, as far as they are taken.
Run(s, stmts) ==
  LET f[n \in 0 .. Len(stmts)] ==
        IF n = 0 THEN <<s>>
        ELSE IF Len(f[n - 1]) = n /\ Takes(f[n - 1][n], stmts[n]) THEN Append(f[n - 1], Does(f[n - 1][n], stmts[n]))
        ELSE f[n - 1]
  IN f[Len(stmts)]

\* Which of them undo a failed transaction's DDL.
Undoes(e) == e \notin Mysqlish

-----------------------------------------------------------------------------
OldColumns == [type : {"INT"}, null : {TRUE}, def : {"none", "text", "expr"}, pk : {FALSE}, extra : OldExtras]
Start(c, rule) ==
  [t |-> [Table(<<"k">>) EXCEPT !.cols = With(@, "c", c),
                                !.idx = [p |-> [cols |-> <<"k">>, unique |-> TRUE, primary |-> TRUE]],
                                !.fks = [f |-> [ref |-> "t", del |-> rule]]]]

SchemaInit ==
  /\ ddl = <<>> /\ tries = 0 /\ broken = [kept |-> FALSE, said |-> FALSE]
  /\ \/ /\ ddlEngine \in DDLEngines /\ deps = {}
        /\ \E c \in OldColumns, rule \in {"", "NO ACTION", "CASCADE"} :
             /\ c.extra # {} => ddlEngine \in Mysqlish
             /\ c.def # "none" => rule = "NO ACTION"
             /\ schema = Start(c, "NO ACTION") /\ snap = Start(c, rule)
     \/ ddlEngine = "" /\ deps \in SUBSET (ToSet(Written) \X ToSet(Written)) /\ schema = <<>> /\ snap = <<>>

\* One change of a kind, of a table and of a column or index.
changeKey(c) == <<c.kind, c.table, IF c.kind \in {"add column", "alter column", "drop column"} THEN c.column
                             ELSE IF c.kind \in {"create index", "drop index"} THEN c.name ELSE "">>

StageDDL(c) ==
  /\ tries < MaxTries
  /\ CanRender(ddlEngine, c)
  /\ LET at == {i \in DOMAIN ddl : changeKey(ddl[i]) = changeKey(c)}
     IN IF at # {} THEN ddl' = [ddl EXCEPT ![CHOOSE i \in at : TRUE] = c]
        ELSE Len(ddl) < MaxStaged /\ ddl' = Append(ddl, c)
  /\ UNCHANGED <<ddlEngine, schema, snap, tries, broken, deps>>

\* Plausible bug: only the engine that was tried first is known to commit
\* each statement by itself.
TransactionalDDLButMySQL(e) == e # "mysql"

TransactionalDDL(e) == e \notin Mysqlish

\* All of them, or the failure of one.
CommitDDL ==
  /\ ddl # <<>> /\ tries < MaxTries /\ tries' = tries + 1
  /\ LET stmts == FlattenSeq([i \in DOMAIN ddl |-> schemaSQL(ddlEngine, ddl[i])])
         states == Run(schema, stmts)
     IN \/ /\ Len(states) = Len(stmts) + 1
           /\ schema' = states[Len(states)] /\ ddl' = <<>> /\ broken' = [kept |-> FALSE, said |-> FALSE]
        \/ /\ \E n \in 1 .. Len(states) :
                /\ n <= Len(stmts)
                /\ schema' = IF Undoes(ddlEngine) THEN schema ELSE states[n]
                /\ broken' = [kept |-> ~Undoes(ddlEngine) /\ n > 1, said |-> TransactionalDDL(ddlEngine)]
           /\ UNCHANGED ddl
  /\ UNCHANGED <<ddlEngine, snap, deps>>

SchemaNext == CommitDDL \/ \E c \in ChangesOn(schema) : StageDDL(c)
SchemaSpec == SchemaInit /\ [][SchemaNext]_schemaVars

-----------------------------------------------------------------------------
(* What a change asks for.                                                  *)
Asked(s, c) ==
  IF c.kind = "alter column"
  THEN [s EXCEPT ![c.table].cols = Moved([@ EXCEPT !["c"] =
          [@ EXCEPT !.type = c.type, !.null = ~c.notNull, !.def = IF c.default = "keep" THEN @ ELSE c.default]], "c", c.newName)]
  ELSE Does(s, [op |-> c.kind, change |-> c])

(* The statements of a change leave everything it did not name as it was,   *)
(* on every engine, and where a statement is refused, no part of it was     *)
(* done before.                                                             *)
ChangesAsAsked ==
  ddl = <<>> => \A c \in {x \in ChangesOn(schema) : CanRender(ddlEngine, x)} :
    LET stmts == schemaSQL(ddlEngine, c)
        states == Run(schema, stmts)
    IN Len(states) = Len(stmts) + 1 => states[Len(states)] = Asked(schema, c)

(* Two snapshots compare empty exactly when they are alike, the comparison  *)
(* turned around says the same, and it names no table a commit left alone.  *)
DiffIsHonest ==
  LET d == DiffSchemas(snap, schema, TRUE)
      back == DiffSchemas(schema, snap, TRUE)
      Norm(s) == [t \in DOMAIN s |-> [cols |-> [c \in DOMAIN s[t].cols |->
                    [s[t].cols[c] EXCEPT !.type = NormalizeType(@, TRUE), !.extra = {}]], idx |-> Secondary(s[t]),
                                 fks |-> [f \in DOMAIN s[t].fks |-> [s[t].fks[f] EXCEPT !.del = referentialAction(@)]]]]
  IN /\ Empty(d) <=> Norm(snap) = Norm(schema)
     /\ d.onlyA = back.onlyB /\ d.onlyB = back.onlyA
     /\ {x[1] : x \in d.tables} = {x[1] : x \in back.tables}
     /\ Empty(d) \/ ~Empty(DiffSchemas(snap, schema, FALSE))

(* The preview promises all or nothing only where nothing can be kept.      *)
PrefixIsSaid == broken.kept => ~broken.said

(* An export writes every table once, after those it refers to, unless      *)
(* some refer to each other.                                                *)
ReferencedFirst ==
  LET r == DDLOrder(Written, deps)
      Before(t) == {r.order[i] : i \in 1 .. (CHOOSE i \in DOMAIN r.order : r.order[i] = t) - 1}
      Inner == {p \in deps : p[1] # p[2]}
      Closed == {S \in SUBSET ToSet(Written) : S # {} /\ \A t \in S : \E d \in S : <<t, d>> \in Inner}
  IN ddlEngine = "" =>
       /\ ToSet(r.order) = ToSet(Written) /\ Len(r.order) = Len(Written)
       /\ r.acyclic <=> Closed = {}
       /\ r.acyclic => \A p \in Inner : p[2] \in Before(p[1])

(* Schema changes do what they say and the comparison sees what they did    *)
(* (schemaSQL, mysqlAlterColumn, DiffSchemas, TransactionalDDL, DDLOrder).  *)
SchemaTruth == ChangesAsAsked /\ DiffIsHonest /\ PrefixIsSaid /\ ReferencedFirst
=============================================================================
