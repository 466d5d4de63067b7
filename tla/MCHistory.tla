----------------------------- MODULE MCHistory -----------------------------
(* History in the deployments checked.                                     *)
EXTENDS History, TLC

World(modes, faults, commits) == [modes |-> modes, faults |-> faults, commits |-> commits]

\* Kills and every kind of snapshot; and steps that fail, without the
\* snapshots that discard the history on purpose.
KillWorld  == World({"keep", "truncate", "archive"}, FALSE, 5)
FaultWorld == World({"keep", "archive"}, TRUE, 4)
KillAndFaultWorlds == {KillWorld, FaultWorld}

\* The deployments of the counterexamples.
IoWorlds   == {World({"archive"}, TRUE, 3)}
AsOfWorlds == {World({"keep", "truncate", "archive"}, TRUE, 3)}
=============================================================================
