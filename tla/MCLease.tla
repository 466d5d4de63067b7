------------------------------ MODULE MCLease ------------------------------
(* Lease for TLC: two or three instances, with equal TTLs or one of three times the other. *)
EXTENDS Lease, TLC
CONSTANTS a, b, c
Pair == {a, b}
Trio == {a, b, c}
Short == [i \in Instance |-> 3]
Uneven == [i \in Instance |-> IF i = a THEN 9 ELSE 3]
Sym == Permutations(Instance)
=============================================================================
