------------------------------- MODULE MC_Input -------------------------------
(* Small instances of what the user fills in and clicks: the form of a        *)
(* connection (ConnForm), the grid (GridView) and the forms of the schema     *)
(* (SchemaForms). The modules share no variable. A behaviour is of one part   *)
(* and the others stay as they start, so a run explores the sum of their      *)
(* states.                                                                    *)
EXTENDS ConnForm, GridView, SchemaForms
VARIABLE part

RepeatedName == <<"a", "b", "a">>
SomeWide == <<1, 2, 1>>
OffScreenToo == {[w |-> 4, h |-> 6], [w |-> 6, h |-> 7], [w |-> 0, h |-> 0]}

AllOps == {"create table", "rename table", "truncate table", "drop table", "add column", "rename column",
           "alter column", "drop column", "create index", "drop index"}
ThreeConns == {"whole", "lite", "frozen"}
WhatEachDoes == [whole |-> AllOps, lite |-> AllOps \ {"alter column", "truncate table"}, frozen |-> AllOps]
Col(n, t, nn, d, v) == [name |-> n, type |-> t, notnull |-> nn, pk |-> FALSE, default |-> d, value |-> v]
OneColumn == {Col("a", "int", FALSE, "expr", "now")}
SomeForms == {Col("a", "int", FALSE, "keep", ""), Col("a", "int", TRUE, "none", "left"), Col("b", "text", FALSE, "text", "v"),
              Col("b", "int; drop", FALSE, "none", ""), Col("", "int", FALSE, "none", "")}

InputInit ==
  /\ part \in {"form", "grid", "schema"}
  /\ FormInit /\ GridViewInit /\ FormsInit
  /\ part # "form" => mode = "picker" /\ engine = "pg"
  /\ part # "grid" => box.w = 0
  /\ part # "schema" => live = "whole"
InputNext ==
  /\ UNCHANGED part
  /\ \/ part = "form" /\ FormNext /\ UNCHANGED <<gridVars, formsVars>>
     \/ part = "grid" /\ GridViewNext /\ UNCHANGED <<formVars, formsVars>>
     \/ part = "schema" /\ FormsNext /\ UNCHANGED <<formVars, gridVars>>
InputSpec == InputInit /\ [][InputNext]_<<part, formVars, gridVars, formsVars>>
=============================================================================
