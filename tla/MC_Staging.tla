------------------------------ MODULE MC_Staging ------------------------------
(* Small instances of what the program reads and stages: the text of a script  *)
(* (Statements), the rows staged in the grid (Changeset), a CSV file that is   *)
(* imported (CsvImport) and the reports of the main view (Reports). The        *)
(* modules share no variable. A behaviour is of one part and the others stay   *)
(* as they start, so a run explores the sum of their states.                   *)
EXTENDS Statements, Changeset, Reports, CsvImport, TLC
VARIABLE part

Typed(e, start, units, len) == [engine |-> e, start |-> start, units |-> units, len |-> len]
Scripts ==
  {Typed("sqlite", <<>>, {";", "'", "--", "\n", "/*", "*/", "w"}, 5),
   Typed("mysql", <<>>, {";", "'", "dq", "bs", "#", "\n", "w"}, 4),
   Typed("postgres", <<>>, {";", "'", "$$", "$t$", "\n", "w"}, 4),
   Typed("sqlite", <<>>, {"WITH", "DELETE", "WHERE", "(", ")", "'"}, 5),
   Typed("sqlite", <<>>, {"EXPLAIN", "ANALYZE", "PRAGMA", "=", "VACUUM", "INTO", "--"}, 3),
   Typed("mysql", <<"SELECT">>, {"?", ":a", ":b", "'", "w"}, 5),
   Typed("sqlite", <<"SELECT", "w">>, {"FROM", "w", ",", "(", ")", "JOIN", "AS"}, 6)}
TwoRows == (1 :> 10) @@ (2 :> 20)

Texts == {"a", "A", "b", "1", " 1", "x", "", "-", "joined"}
NoSpace == [f \in Texts |-> IF f = " 1" THEN "1" ELSE f]
LowerCase == [f \in Texts |-> IF f = "A" THEN "a" ELSE f]
ClassesOf == [f \in Texts |-> IF f = "1" THEN {"integer", "float", "bool"} ELSE {}]
ClassOfType == [int |-> "integer", varchar |-> "text", boolean |-> "bool"]
TwoTables == {<<[name |-> "a", type |-> "int"], [name |-> "b", type |-> "varchar"]>>,
              <<[name |-> "b", type |-> "boolean"]>>}
CsvOf(sep, recs) == [sep |-> sep, recs |-> recs]
CsvFiles ==
  {CsvOf(",", <<<<"A", "b">>, <<" 1", "x">>, <<"1", "">>>>), CsvOf(";", <<<<"1", "x">>, <<"x", "1">>>>),
   CsvOf(",", <<<<"b", "a">>, <<"1", "1">>, <<"x", " 1">>, <<"", "x", "1">>>>),
   CsvOf(",", <<<<"1", "x">>, <<>>>>), CsvOf(",", <<>>)}
TypedMappings == {<<"b", "a">>, <<"-", "A">>, <<"a", "a">>}

StagingInit ==
  /\ part \in {"text", "rows", "reports", "import"}
  /\ TextInit /\ ChangesetInit /\ ReportsInit /\ ImportInit
  /\ part # "text" => case.len = 3
  /\ part # "import" => file.recs = <<>> /\ Len(target.cols) = 1
StagingNext ==
  /\ UNCHANGED part
  /\ \/ part = "text" /\ TextNext /\ UNCHANGED <<changesetVars, reportsVars, importVars>>
     \/ part = "rows" /\ ChangesetNext /\ UNCHANGED <<textVars, reportsVars, importVars>>
     \/ part = "reports" /\ ReportsNext /\ UNCHANGED <<textVars, changesetVars, importVars>>
     \/ part = "import" /\ ImportNext /\ UNCHANGED <<textVars, changesetVars, reportsVars>>
StagingSpec == StagingInit /\ [][StagingNext]_<<part, textVars, changesetVars, reportsVars, importVars>>
=============================================================================
