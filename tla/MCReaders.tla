----------------------------- MODULE MCReaders -----------------------------
(* Readers for TLC: two captures, in worlds where the peer snapshots and in one where a    *)
(* group's fsync may fail.                                                                 *)
EXTENDS Readers, TLC

CONSTANTS c1, c2

TwoCaptures == {c1, c2}
World(faults, commits, snaps, reads) ==
  [faults |-> faults, commits |-> commits, snaps |-> snaps, reads |-> reads]

ShareWorld == World({}, 2, 0, 2)
AgainWorld == World({}, 1, 1, 2)
LoadWorld  == World({}, 2, 2, 1)
FailWorld  == World({"fsync"}, 2, 0, 1)

AllWorlds  == {ShareWorld, AgainWorld, LoadWorld, FailWorld}
FailWorlds == {World({"fsync"}, 2, 0, 2)}
SnapWorlds == {AgainWorld}
LoadWorlds == {LoadWorld}
Sym == Permutations(Captures)
=============================================================================
