---------------------------- MODULE MCProcesses ----------------------------
(* Processes with interchangeable processes, in the deployments checked.   *)
EXTENDS Processes, TLC

CONSTANTS a, b

MCProc == {a, b}
ProcSymmetry == Permutations(MCProc)

World(modes, faults, snaps) == [modes |-> modes, faults |-> faults, snaps |-> snaps]

\* Shared handles that snapshot often enough for a hole to be snapshotted.
SharedWorld == World({"shared", "reader"}, {}, 3)
\* Every kind of handle; a process may die, and not in the middle of an append.
MixedWorld == World({"shared", "owner", "reader"}, {"kill"}, 2)
\* Owners one after the other, each repairing what the one before it tore.
OwnerWorld == World({"owner", "reader"}, {"kill", "torn"}, 2)
\* Shared handles whose group's fsync may fail.
SyncWorld == World({"shared", "reader"}, {"sync"}, 0)
\* Readers that follow a WAL no snapshot ever replaces.
FollowWorld == World({"shared", "reader"}, {"kill"}, 0)

AllWorlds == {SharedWorld, MixedWorld, OwnerWorld, SyncWorld, FollowWorld}

\* The deployments of the counterexamples.
TornWorlds == {World({"shared", "reader"}, {"kill", "torn"}, 0)}
CutWorlds == {World({"shared", "owner"}, {"sync"}, 0)}
CutThreeWorlds == {World({"shared", "reader"}, {"sync"}, 1)}
LookWorlds == {World({"shared", "reader"}, {}, 1)}
LoadWorlds == {World({"shared", "reader"}, {}, 2)}
HoleWorlds == {SharedWorld}
RepairWorlds == {World({"shared", "reader"}, {"open"}, 0)}
=============================================================================
