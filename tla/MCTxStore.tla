----------------------------- MODULE MCTxStore -----------------------------
(* TxStore for TLC. *)
EXTENDS TxStore, TLC
CONSTANTS t1, t2, t3, r1, r2
TwoTxs == {t1, t2}
ThreeTxs == {t1, t2, t3}
TwoReqs == {r1, r2}
=============================================================================
