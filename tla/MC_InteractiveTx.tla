--------------------------- MODULE MC_InteractiveTx ---------------------------
(* Small instances of InteractiveTx for TLC.                                 *)
EXTENDS InteractiveTx, TLC
CONSTANTS p1, p2, p3, h1, h2

TwoProcs == {p1, p2}

TwoHandles == {h1, h2}

Everywhere == AllEngines
Sym == Permutations(Procs) \cup Permutations(Handles)
=============================================================================
