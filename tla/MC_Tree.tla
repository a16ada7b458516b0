------------------------------- MODULE MC_Tree -------------------------------
(* A small instance of ObjectTree for TLC.                                   *)
EXTENDS ObjectTree
TwoDatabases == <<"a", "b">>
OneTable == <<"t">>
=============================================================================
