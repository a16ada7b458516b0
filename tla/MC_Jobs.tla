------------------------------- MODULE MC_Jobs -------------------------------
(* Small instances of Jobs for TLC.                                         *)
EXTENDS Jobs, TLC
=============================================================================
