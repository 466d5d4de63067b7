------------------------------ MODULE MCStore ------------------------------
(* Store with two kinds of write, one of them a batch.                     *)
EXTENDS StoreInv, TLC

CONSTANTS x, y

MCWrite == {x, y}
MCMulti == {y}

\* Nothing tells the writes apart where the policy does not.
WriteSymmetry == Permutations(MCWrite)
=============================================================================
