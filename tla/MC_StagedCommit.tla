--------------------------- MODULE MC_StagedCommit ---------------------------
(* Small instances of StagedCommit for TLC.                                  *)
EXTENDS StagedCommit, TLC
CONSTANTS s1, s2, s3, c1, c2

ThreeSessions == {s1, s2, s3}
TwoChanges == {c1, c2}
Third == {s3}
Sym == Permutations(Changes) \cup Permutations(Sessions \ ReadOnlySessions)
=============================================================================
