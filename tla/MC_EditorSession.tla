--------------------------- MODULE MC_EditorSession ---------------------------
(* Small instances of EditorSession for TLC.                                 *)
EXTENDS EditorSession, TLC
CONSTANTS t1, t2

OneTx == {t1}

Sym == Permutations(Txs)
=============================================================================
