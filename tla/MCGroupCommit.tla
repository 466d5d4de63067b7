--------------------------- MODULE MCGroupCommit ---------------------------
(* GroupCommit with a caller or two of each kind.                          *)
EXTENDS GroupCommit, TLC

CONSTANTS p1, p2, b1, c1, c2, r1, d1
=============================================================================
