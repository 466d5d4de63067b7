------------------------------- MODULE MCShip -------------------------------
(* Ship for TLC.  Follows: everyone commits and takes snapshots, all commits fsynced.       *)
(* Loses: a relaxed policy and power loss.  Dies: a process killed at any step.            *)
EXTENDS Ship
Both == {"own", "peer"}
W(writers, snappers, policies, faults) ==
  [writers |-> writers, snappers |-> snappers, policies |-> policies, faults |-> faults]
Follows == W(Both, Both, {"full"}, {})
Loses == W(Both, {"own"}, {"relaxed"}, {"power"})
Dies == W({"own"}, Both, {"full"}, {"kill"})
ShipWorlds == {Follows, Loses, Dies}
KilledWorlds == {Dies}
=============================================================================
