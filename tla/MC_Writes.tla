------------------------------ MODULE MC_Writes ------------------------------
(* Small instances of the ways a write reaches the server: the transaction   *)
(* of the editor (InteractiveTx), the commit of what was staged               *)
(* (StagedCommit) and the DDL of schema changes (SchemaText). The modules     *)
(* share no variable. A behaviour is of one part and the others stay as they  *)
(* start, so a run explores the sum of their states.                          *)
EXTENDS MC_InteractiveTx, StagedCommit, SchemaText
CONSTANTS s1, s2, s3, c1, c2
VARIABLE part

ThreeSessions == {s1, s2, s3}
Third == {s3}
TwoChanges == {c1, c2}
ThreeTables == <<"t", "u", "v">>

WritesInit ==
  /\ part \in {"tx", "commits", "ddl"}
  /\ Init /\ StagedInit /\ SchemaInit
  /\ part # "tx" => engine = "postgres"
  /\ part # "ddl" => ddlEngine = "" /\ deps = {}
WritesNext ==
  /\ UNCHANGED part
  /\ \/ part = "tx" /\ Next /\ UNCHANGED <<stagedVars, schemaVars>>
     \/ part = "commits" /\ StagedNext /\ UNCHANGED <<vars, schemaVars>>
     \/ part = "ddl" /\ SchemaNext /\ UNCHANGED <<vars, stagedVars>>
WritesSpec == WritesInit /\ [][WritesNext]_<<part, vars, stagedVars, schemaVars>>

Symmetry == Sym \cup Permutations(Changes) \cup Permutations(Sessions \ ReadOnlySessions)
=============================================================================
